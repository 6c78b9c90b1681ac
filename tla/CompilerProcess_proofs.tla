----------------------- MODULE CompilerProcess_proofs -----------------------
(***************************************************************************)
(* Two kinds of facts about the compiler's processes.                      *)
(*                                                                         *)
(* Any number of processes that run at the same time on different names    *)
(* disturb each other only through Temp: a step of one changes, of the     *)
(* file system, only Temp and the names it uses, and of the others only    *)
(* what is recorded about them (IndependentProcesses).                     *)
(*                                                                         *)
(* A process that has the directory for itself leaves the output of every  *)
(* source before the first that fails (RunsBuild), and its status tells    *)
(* how that one failed, unless it was clang that did (StatusOfErrors).     *)
(* AloneInv says what such a process has made so far; what it knows when   *)
(* it ends is Verdict.                                                     *)
(***************************************************************************)
EXTENDS CompilerProcess, TLAPS

Options == {ParseCommandLine(arguments) : arguments \in Arguments}

HasRead == {"tac", "asm", "clang", "remove asm", "remove tac"}

\* What is known of a process that runs.
ProcessOK(r) ==
  /\ DOMAIN r = DOMAIN Waiting
  /\ r.at \notin Idle =>
       /\ r.at \in HasRead \cup {"preprocess", "parse"}
       /\ r.opts \in Options
       /\ r.file \in Nat /\ r.file \in DOMAIN r.opts.files
       /\ r.parsed \in Seq(DOMAIN Kind)
       /\ Len(r.parsed) = IF r.at \in HasRead THEN r.file ELSE r.file - 1

Processed == /\ DOMAIN run = Processes
             /\ \A p \in Processes : ProcessOK(run[p])
             /\ Exists(Temp) => files[Temp].source \in DOMAIN Kind

\* Running processes that use one name know it.
Recorded ==
  \A p, q \in Running : p # q /\ Meets(p, run[q].opts) => run[p].conflict

\* What a process relies on in the file system at each place.
Relies(p) ==
  LET r == run[p]
      holds(path, form) == Exists(path) /\ files[path] = Content(r.parsed[r.file], form)
  IN  /\ r.at = "parse" /\ r.file \notin r.swapped =>
           Exists(Temp) /\ files[Temp].source = Source(p)
      /\ r.at \in HasRead /\ r.file \notin r.swapped => r.parsed[r.file] = Source(p)
      /\ r.at = "clang" /\ ~r.conflict => holds(ASMFile(Source(p)), "assembly")
      /\ r.at \in {"remove asm", "remove tac"} /\ ~r.conflict =>
           holds(OutFile(r.opts, Source(p)), Form(r.opts))

IInv == Processed /\ Recorded /\ \A p \in Processes : Relies(p)

LEMMA WaitingFields ==
  DOMAIN Waiting = {"at", "opts", "file", "parsed", "status", "before", "alone", "conflict", "swapped"}
BY DEF Waiting

LEMMA Initially == Init => IInv
<1> SUFFICES ASSUME Init PROVE IInv
  OBVIOUS
<1>1. \A p \in Processes : run[p] = Waiting
  BY DEF Init
<1>2. Waiting.at = "waiting" /\ "waiting" \in Idle /\ "waiting" \notin HasRead
  BY DEF Waiting, Idle, HasRead
<1>3. Processed
  BY <1>1, <1>2 DEF Init, Processed, ProcessOK, Exists, Content
<1>4. Recorded
  BY <1>1, <1>2 DEF Recorded, Running
<1>5. \A p \in Processes : Relies(p)
  BY <1>1, <1>2 DEF Relies
<1>. QED BY <1>3, <1>4, <1>5 DEF IInv

-----------------------------------------------------------------------------
(* What a step of q leaves to the others.                                  *)
Unchanged(path) ==
  /\ path \in DOMAIN files' <=> path \in DOMAIN files
  /\ path \in DOMAIN files => files'[path] = files[path]

SameButRecord(p) ==
  /\ DOMAIN run'[p] = DOMAIN run[p]
  /\ run'[p].at = run[p].at /\ run'[p].opts = run[p].opts
  /\ run'[p].file = run[p].file /\ run'[p].parsed = run[p].parsed

Frame(q) ==
  /\ DOMAIN run' = Processes
  /\ \A p \in Processes \ {q} :
       /\ SameButRecord(p) /\ run'[p].conflict = run[p].conflict
       /\ run[p].swapped \subseteq run'[p].swapped
       /\ run[p].at = "parse" /\ run[p].file \notin run'[p].swapped => Unchanged(Temp)
  /\ \A path : path \notin NamesUsed(run[q].opts) \cup {Temp} => Unchanged(path)

LEMMA NamesOfSource ==
  ASSUME IInv, NEW p \in Running
  PROVE  /\ NamesMade(run[p].opts, Source(p)) \subseteq NamesUsed(run[p].opts)
         /\ NamesMade(run[p].opts, Source(p)) \cap (DOMAIN Kind \cup {Temp}) = {}
         /\ OutFile(run[p].opts, Source(p)) # ASMFile(Source(p))
<1>1. run[p].opts \in Options /\ run[p].file \in DOMAIN run[p].opts.files
  BY DEF IInv, Processed, ProcessOK, Running
<1>2. PICK arguments \in Arguments : run[p].opts = ParseCommandLine(arguments)
  BY <1>1 DEF Options
<1>3. /\ NamesMade(run[p].opts, Source(p)) \cap (DOMAIN Kind \cup {Temp}) = {}
      /\ OutFile(run[p].opts, Source(p)) # ASMFile(Source(p))
  BY <1>1, <1>2, ArgumentsAssumption DEF Source
<1>. QED BY <1>1, <1>3 DEF NamesUsed, Source

\* A step that gives q a new record and touches only names made of its source.
LEMMA FrameOfNames ==
  ASSUME IInv, NEW q \in Running, NEW r, Becomes(q, r),
         \A path : path \notin NamesMade(run[q].opts, Source(q)) => Unchanged(path)
  PROVE  Frame(q) /\ run'[q] = r
<1>1. q \in Processes /\ DOMAIN run = Processes
  BY DEF Running, IInv, Processed
<1>2. Temp \notin NamesMade(run[q].opts, Source(q))
  BY NamesOfSource
<1>3. DOMAIN run' = Processes /\ run'[q] = r /\ \A p \in Processes \ {q} : run'[p] = run[p]
  BY <1>1 DEF Becomes
<1>4. Unchanged(Temp)
  BY <1>2
<1>5. \A path : path \notin NamesUsed(run[q].opts) => Unchanged(path)
  BY NamesOfSource
<1>. QED BY <1>3, <1>4, <1>5 DEF Frame, SameButRecord

LEMMA FrameOfTemp ==
  ASSUME IInv, NEW q \in Running, NEW r, ReplacesTemp(q, r),
         \A path : path # Temp => Unchanged(path)
  PROVE  Frame(q) /\ run'[q] = r
<1>1. q \in Processes /\ DOMAIN run = Processes
  BY DEF Running, IInv, Processed
<1>2. DOMAIN run' = Processes /\ run'[q] = r
  BY <1>1 DEF ReplacesTemp
<1>3. ASSUME NEW p \in Processes \ {q}
      PROVE  /\ SameButRecord(p) /\ run'[p].conflict = run[p].conflict
             /\ run[p].swapped \subseteq run'[p].swapped
             /\ run[p].at = "parse" => run[p].file \in run'[p].swapped
  <2>1. DOMAIN run[p] = {"at", "opts", "file", "parsed", "status", "before", "alone", "conflict", "swapped"}
    BY WaitingFields DEF IInv, Processed, ProcessOK
  <2>2. CASE run[p].at = "parse"
    <3>1. run'[p] = [run[p] EXCEPT !.swapped = @ \cup {run[p].file}]
      BY <2>2 DEF ReplacesTemp
    <3>. QED BY <2>1, <3>1 DEF SameButRecord
  <2>3. CASE run[p].at # "parse"
    <3>1. run'[p] = run[p]
      BY <2>3 DEF ReplacesTemp
    <3>. QED BY <2>3, <3>1 DEF SameButRecord
  <2>. QED BY <2>2, <2>3
<1>. QED BY <1>2, <1>3 DEF Frame

\* Files are written and removed one by one.
LEMMA WrittenOnly ==
  ASSUME NEW name, NEW c, files' = Written(name, c)
  PROVE  /\ name \in DOMAIN files' /\ files'[name] = c
         /\ \A path : path # name => Unchanged(path)
BY DEF Written, Unchanged

LEMMA WithoutOnly ==
  ASSUME NEW names, files' = Without(names)
  PROVE  \A path : path \notin names => Unchanged(path)
BY DEF Without, Restrict, Unchanged

LEMMA FilesKept ==
  ASSUME files' = files
  PROVE  \A path : Unchanged(path)
BY DEF Unchanged

-----------------------------------------------------------------------------
(* The others keep what they rely on.                                      *)
LEMMA OthersRely ==
  ASSUME IInv, NEW q \in Running, Frame(q), NEW p \in Processes \ {q}
  PROVE  Relies(p)' /\ ProcessOK(run'[p])
<1>1. SameButRecord(p) /\ run'[p].conflict = run[p].conflict /\ run[p].swapped \subseteq run'[p].swapped
  BY DEF Frame
<1>2. ProcessOK(run'[p])
  BY <1>1 DEF IInv, Processed, ProcessOK, SameButRecord
<1>3. Source(p)' = Source(p)
  BY <1>1 DEF Source, SameButRecord
<1>4. Relies(p)
  BY DEF IInv
<1>5. ASSUME run[p].at = "parse", run[p].file \notin run'[p].swapped
      PROVE  Exists(Temp)' /\ files'[Temp].source = Source(p)
  <2>1. Unchanged(Temp)
    BY <1>5 DEF Frame
  <2>. QED BY <1>1, <1>4, <1>5, <2>1 DEF Relies, Unchanged, Exists
<1>6. ASSUME p \in Running, ~run[p].conflict, NEW path \in NamesMade(run[p].opts, Source(p))
      PROVE  Unchanged(path)
  <2>1. NamesUsed(run[p].opts) \cap NamesUsed(run[q].opts) = {}
    BY <1>6 DEF IInv, Recorded, Meets
  <2>2. path \in NamesUsed(run[p].opts) /\ path # Temp
    BY <1>6, NamesOfSource
  <2>. QED BY <2>1, <2>2 DEF Frame
<1>7. /\ ASMFile(Source(p)) \in NamesMade(run[p].opts, Source(p))
      /\ OutFile(run[p].opts, Source(p)) \in NamesMade(run[p].opts, Source(p))
  BY DEF NamesMade
<1>8. run[p].at \in HasRead => p \in Running
  BY DEF Running, HasRead, Idle
<1>9. run[p].at = "clang" /\ ~run[p].conflict => Unchanged(ASMFile(Source(p)))
  BY <1>6, <1>7, <1>8 DEF HasRead
<1>10. run[p].at \in {"remove asm", "remove tac"} /\ ~run[p].conflict
         => Unchanged(OutFile(run[p].opts, Source(p)))
  BY <1>6, <1>7, <1>8 DEF HasRead
<1>. QED BY <1>1, <1>2, <1>3, <1>4, <1>5, <1>9, <1>10 DEF Relies, SameButRecord, Exists, Unchanged

-----------------------------------------------------------------------------
(* What a step leaves to the process that takes it.                        *)
Continues(q, r) ==
  /\ ProcessOK(r)
  /\ r.at \notin Idle => r.opts = run[q].opts /\ r.conflict = run[q].conflict

Good(q) ==
  /\ Frame(q) /\ Continues(q, run'[q]) /\ Relies(q)'
  /\ Exists(Temp)' => files'[Temp].source \in DOMAIN Kind

LEMMA EndedOK ==
  ASSUME NEW q \in Running, NEW status
  PROVE  Continues(q, Ended(status)) /\ Ended(status).at = "exited"
BY WaitingFields DEF Ended, Waiting, Idle, Continues, ProcessOK

LEMMA PlaceOK ==
  ASSUME IInv, NEW q \in Running, NEW place \in HasRead, run[q].at \in HasRead
  PROVE  /\ Continues(q, At(run[q], place)) /\ At(run[q], place).at = place
         /\ \A field \in DOMAIN Waiting \ {"at"} : At(run[q], place)[field] = run[q][field]
<1>1. ProcessOK(run[q]) /\ run[q].at \notin Idle
  BY DEF IInv, Processed, Running
<1>. QED BY <1>1, WaitingFields DEF Continues, At, ProcessOK, HasRead, Idle

LEMMA NextFileOK ==
  ASSUME NEW q \in Running, NEW r, ProcessOK(r), r.at \in HasRead,
         r.opts = run[q].opts, r.conflict = run[q].conflict
  PROVE  Continues(q, NextFile(r)) /\ NextFile(r).at \in {"preprocess", "exited"}
<1>1. CASE r.file + 1 \in DOMAIN r.opts.files
  <2>1. NextFile(r) = [r EXCEPT !.at = "preprocess", !.file = @ + 1]
    BY <1>1 DEF NextFile
  <2>2. /\ r.opts \in Options /\ r.file \in Nat /\ r.parsed \in Seq(DOMAIN Kind)
        /\ Len(r.parsed) = r.file /\ DOMAIN r = DOMAIN Waiting
    BY DEF ProcessOK, HasRead, Idle
  <2>3. /\ NextFile(r).at = "preprocess" /\ NextFile(r).file = r.file + 1
        /\ NextFile(r).opts = r.opts /\ NextFile(r).conflict = r.conflict
        /\ NextFile(r).parsed = r.parsed /\ DOMAIN NextFile(r) = DOMAIN Waiting
    BY <2>1, <2>2, WaitingFields
  <2>4. NextFile(r).file \in Nat /\ NextFile(r).file - 1 = r.file
    BY <2>2, <2>3
  <2>5. ProcessOK(NextFile(r))
    BY <1>1, <2>2, <2>3, <2>4 DEF ProcessOK, HasRead
  <2>. QED BY <2>3, <2>5 DEF Continues
<1>2. CASE r.file + 1 \notin DOMAIN r.opts.files
  BY <1>2, EndedOK DEF NextFile
<1>. QED BY <1>1, <1>2

\* Nothing is relied on before a file is preprocessed and after the last one.
LEMMA NothingRelied ==
  ASSUME NEW q, run'[q].at \in {"preprocess", "exited", "killed"}
  PROVE  Relies(q)'
BY DEF Relies, HasRead

LEMMA RunPreprocessorGood ==
  ASSUME IInv, NEW q \in Running, RunPreprocessor(q)
  PROVE  Good(q)
<1>1. /\ Frame(q) /\ run'[q] = At(run[q], "parse")
      /\ Exists(Temp)' /\ files'[Temp] = Content(Source(q), "preprocessed")
  BY WrittenOnly, FrameOfTemp DEF RunPreprocessor, Exists
<1>2. ProcessOK(run[q]) /\ run[q].at = "preprocess"
  BY DEF IInv, Processed, Running, RunPreprocessor
<1>3. /\ Continues(q, run'[q]) /\ run'[q].at = "parse"
      /\ run'[q].opts = run[q].opts /\ run'[q].file = run[q].file
  BY <1>1, <1>2, WaitingFields DEF Continues, ProcessOK, At, HasRead, Idle
<1>4. Source(q)' = Source(q)
  BY <1>3 DEF Source
<1>5. files'[Temp].source = Source(q) /\ Source(q) \in DOMAIN Kind
  BY <1>1 DEF Content, RunPreprocessor, Preprocessable
<1>6. Relies(q)'
  BY <1>1, <1>3, <1>4, <1>5 DEF Relies, HasRead
<1>. QED BY <1>1, <1>3, <1>5, <1>6 DEF Good

LEMMA PreprocessorFailsGood ==
  ASSUME IInv, NEW q \in Running, PreprocessorFails(q)
  PROVE  Good(q)
<1>1. Frame(q) /\ run'[q] = Ended(Failure) /\ (Exists(Temp)' => Unchanged(Temp))
  <2>1. CASE Becomes(q, Ended(Failure)) /\ files' = files
    BY <2>1, FilesKept, FrameOfNames
  <2>2. CASE ReplacesTemp(q, Ended(Failure)) /\ files' = Without({Temp})
    <3>1. ~Exists(Temp)'
      BY <2>2 DEF Exists, Without, Restrict
    <3>. QED BY <2>2, <3>1, WithoutOnly, FrameOfTemp
  <2>. QED BY <2>1, <2>2 DEF PreprocessorFails
<1>2. Exists(Temp)' => files'[Temp].source \in DOMAIN Kind
  BY <1>1 DEF IInv, Processed, Unchanged, Exists
<1>. QED BY <1>1, <1>2, EndedOK, NothingRelied DEF Good

\* What Scan, Parse and AnalyzeSemantics come to.
LEMMA Understanding ==
  ASSUME NEW opts, NEW kind
  PROVE  Understood(opts, kind) =
           IF kind = "malformed" THEN "rejected"
           ELSE IF kind = "throwing" THEN "aborted"
           ELSE IF kind = "ill-typed" /\ opts.compile THEN "rejected" ELSE "understood"
BY DEF Understood

LEMMA Parsing ==
  ASSUME NEW q, Parse(q)
  PROVE  LET parsed == [run[q] EXCEPT !.parsed = Append(@, files[Temp].source)]
             result == Understood(run[q].opts, Kind[files[Temp].source])
         IN  /\ files' = files /\ run[q].at = "parse"
             /\ Exists(Temp) /\ result = "understood" =>
                  Becomes(q, IF run[q].opts.compile THEN At(parsed, "tac") ELSE NextFile(parsed))
             /\ Exists(Temp) /\ result = "aborted" => Becomes(q, Ended(Aborted))
             /\ ~Exists(Temp) \/ result = "rejected" => Becomes(q, Ended(1))
<1> DEFINE result == IF Exists(Temp) THEN Understood(run[q].opts, Kind[files[Temp].source])
                     ELSE "rejected"
<1>1. result \in {"rejected", "aborted", "understood"}
  BY Understanding
<1>2. CASE result = "rejected"
  BY <1>2 DEF Parse
<1>3. CASE result = "aborted"
  BY <1>3 DEF Parse
<1>4. CASE result = "understood"
  BY <1>4 DEF Parse
<1>. QED BY <1>1, <1>2, <1>3, <1>4

LEMMA ParseGood ==
  ASSUME IInv, NEW q \in Running, Parse(q)
  PROVE  Good(q)
<1>1. ProcessOK(run[q]) /\ run[q].at = "parse" /\ files' = files
  BY DEF IInv, Processed, Running, Parse
<1>2. Exists(Temp)' => files'[Temp].source \in DOMAIN Kind
  BY <1>1 DEF IInv, Processed, Exists
<1> DEFINE result == Understood(run[q].opts, Kind[files[Temp].source])
<1>3. CASE Exists(Temp) /\ result = "understood"
  <2> DEFINE parsed == [run[q] EXCEPT !.parsed = Append(@, files[Temp].source)]
  <2>1. Becomes(q, IF run[q].opts.compile THEN At(parsed, "tac") ELSE NextFile(parsed))
    BY <1>3, Parsing
  <2>2. /\ files[Temp].source \in DOMAIN Kind /\ run[q].parsed \in Seq(DOMAIN Kind)
        /\ Len(run[q].parsed) = run[q].file - 1 /\ run[q].file \in Nat
        /\ run[q].opts \in Options /\ run[q].file \in DOMAIN run[q].opts.files
    BY <1>1, <1>3 DEF IInv, Processed, ProcessOK, HasRead, Idle
  <2>3. /\ DOMAIN parsed = DOMAIN Waiting /\ parsed.at = "parse"
        /\ parsed.opts = run[q].opts /\ parsed.conflict = run[q].conflict
        /\ parsed.file = run[q].file /\ parsed.swapped = run[q].swapped
        /\ parsed.parsed = Append(run[q].parsed, files[Temp].source)
    BY <1>1, WaitingFields DEF ProcessOK
  <2>4. /\ Append(run[q].parsed, files[Temp].source) \in Seq(DOMAIN Kind)
        /\ Len(Append(run[q].parsed, files[Temp].source)) = run[q].file
        /\ Append(run[q].parsed, files[Temp].source)[run[q].file] = files[Temp].source
    BY <2>2
  <2> DEFINE tac == At(parsed, "tac")
  <2>5. /\ DOMAIN tac = DOMAIN Waiting /\ tac.at = "tac"
        /\ tac.opts = run[q].opts /\ tac.conflict = run[q].conflict
        /\ tac.file = run[q].file /\ tac.swapped = run[q].swapped
        /\ tac.parsed = Append(run[q].parsed, files[Temp].source)
    <3> HIDE DEF parsed
    <3>. QED BY <2>3, WaitingFields DEF At
  <2> HIDE DEF parsed, tac
  <2>6. ProcessOK(tac)
    BY <2>2, <2>4, <2>5 DEF ProcessOK, HasRead
  <2>7. CASE run[q].opts.compile
    <3>1. Frame(q) /\ run'[q] = tac
      BY <1>1, <2>1, <2>7, FilesKept, FrameOfNames DEF tac
    <3>2. Continues(q, run'[q])
      BY <2>5, <2>6, <3>1 DEF Continues
    <3>3. run[q].file \notin run[q].swapped => files[Temp].source = Source(q)
      BY <1>1 DEF IInv, Relies, Running
    <3>4. Source(q)' = Source(q)
      BY <2>5, <3>1 DEF Source
    <3>5. run'[q].file \notin run'[q].swapped => run'[q].parsed[run'[q].file] = Source(q)'
      BY <2>4, <2>5, <3>1, <3>3, <3>4
    <3>6. Relies(q)'
      BY <2>5, <3>1, <3>5 DEF Relies
    <3>. QED BY <1>2, <3>1, <3>2, <3>6 DEF Good
  <2>8. CASE ~run[q].opts.compile
    <3>1. Frame(q) /\ run'[q] = NextFile(parsed)
      BY <1>1, <2>1, <2>8, FilesKept, FrameOfNames
    <3>2. NextFile(parsed) = NextFile(tac)
      <4>1. CASE parsed.file + 1 \in DOMAIN parsed.opts.files
        <5>1. /\ NextFile(parsed) = [parsed EXCEPT !.at = "preprocess", !.file = @ + 1]
              /\ NextFile(tac) = [tac EXCEPT !.at = "preprocess", !.file = @ + 1]
          BY <2>3, <2>5, <4>1 DEF NextFile
        <5>2. [parsed EXCEPT !.at = "preprocess", !.file = @ + 1]
                = [At(parsed, "tac") EXCEPT !.at = "preprocess", !.file = @ + 1]
          BY <2>3, WaitingFields DEF At
        <5>. QED BY <5>1, <5>2 DEF tac
      <4>2. CASE parsed.file + 1 \notin DOMAIN parsed.opts.files
        BY <2>3, <2>5, <4>2 DEF NextFile
      <4>. QED BY <4>1, <4>2
    <3>3. Continues(q, NextFile(tac)) /\ NextFile(tac).at \in {"preprocess", "exited"}
      BY <2>5, <2>6, NextFileOK DEF HasRead
    <3>. QED BY <1>2, <3>1, <3>2, <3>3, NothingRelied DEF Good
  <2>. QED BY <2>7, <2>8
<1>4. CASE ~(Exists(Temp) /\ result = "understood")
  <2>1. result \in {"rejected", "aborted", "understood"}
    BY Understanding
  <2>2. PICK status \in {1, Aborted} : Becomes(q, Ended(status))
    <3> HIDE DEF result
    <3>. QED BY <1>4, <2>1, Parsing DEF result
  <2>3. Frame(q) /\ run'[q] = Ended(status)
    BY <1>1, <2>2, FilesKept, FrameOfNames
  <2>. QED BY <1>2, <2>3, EndedOK, NothingRelied DEF Good
<1>. QED BY <1>3, <1>4

\* Steps after reading: only the names made of the source are touched.
LEMMA NamesOnly ==
  ASSUME IInv, NEW q \in Running, NEW r, Becomes(q, r),
         \A path : path \notin NamesMade(run[q].opts, Source(q)) => Unchanged(path)
  PROVE  /\ Frame(q) /\ run'[q] = r
         /\ Exists(Temp)' => files'[Temp].source \in DOMAIN Kind
<1>1. Unchanged(Temp)
  BY NamesOfSource
<1>2. Exists(Temp)' => files'[Temp].source \in DOMAIN Kind
  BY <1>1 DEF IInv, Processed, Unchanged, Exists
<1>. QED BY <1>2, FrameOfNames

LEMMA EndGood ==
  ASSUME IInv, NEW q \in Running, NEW status, Becomes(q, Ended(status)),
         \A path : path \notin NamesMade(run[q].opts, Source(q)) => Unchanged(path)
  PROVE  Good(q)
BY NamesOnly, EndedOK, NothingRelied DEF Good

LEMMA NextFileGood ==
  ASSUME IInv, NEW q \in Running, run[q].at \in HasRead, Becomes(q, NextFile(run[q])),
         \A path : path \notin NamesMade(run[q].opts, Source(q)) => Unchanged(path)
  PROVE  Good(q)
<1>1. ProcessOK(run[q])
  BY DEF IInv, Processed, Running
<1>. QED BY <1>1, NamesOnly, NextFileOK, NothingRelied DEF Good

\* At a place after reading, what was read stays and is still the source.
LEMMA MovesOn ==
  ASSUME IInv, NEW q \in Running, run[q].at \in HasRead,
         NEW place \in HasRead, run'[q] = At(run[q], place)
  PROVE  /\ Continues(q, run'[q]) /\ run'[q].at = place /\ Source(q)' = Source(q)
         /\ run'[q].opts = run[q].opts /\ run'[q].conflict = run[q].conflict
         /\ run'[q].parsed[run'[q].file] = run[q].parsed[run[q].file]
         /\ run'[q].file \notin run'[q].swapped => run'[q].parsed[run'[q].file] = Source(q)'
<1>1. /\ Continues(q, run'[q]) /\ run'[q].at = place
      /\ run'[q].opts = run[q].opts /\ run'[q].conflict = run[q].conflict
      /\ run'[q].file = run[q].file /\ run'[q].parsed = run[q].parsed
      /\ run'[q].swapped = run[q].swapped
  BY PlaceOK, WaitingFields
<1>2. Source(q)' = Source(q)
  BY <1>1 DEF Source
<1>3. run[q].file \notin run[q].swapped => run[q].parsed[run[q].file] = Source(q)
  BY DEF IInv, Relies, Running
<1>. QED BY <1>1, <1>2, <1>3

\* Nothing has been made yet that is relied on.
LEMMA PlaceGood ==
  ASSUME IInv, NEW q \in Running, run[q].at \in HasRead,
         NEW place \in {"tac", "asm"}, Becomes(q, At(run[q], place)),
         \A path : path \notin NamesMade(run[q].opts, Source(q)) => Unchanged(path)
  PROVE  Good(q)
<1>1. /\ Frame(q) /\ run'[q] = At(run[q], place)
      /\ Exists(Temp)' => files'[Temp].source \in DOMAIN Kind
  BY NamesOnly
<1>2. place \in HasRead
  BY DEF HasRead
<1>3. Relies(q)'
  BY <1>1, <1>2, MovesOn DEF Relies
<1>. QED BY <1>1, <1>2, <1>3, MovesOn DEF Good

LEMMA OutputGood ==
  ASSUME IInv, NEW q \in Running, run[q].at \in HasRead,
         NEW place \in {"remove asm", "remove tac"}, Becomes(q, At(run[q], place)),
         \A path : path \notin NamesMade(run[q].opts, Source(q)) => Unchanged(path),
         ~run[q].conflict =>
           LET out == OutFile(run[q].opts, Source(q))
           IN  out \in DOMAIN files' /\ files'[out] = Content(run[q].parsed[run[q].file], Form(run[q].opts))
  PROVE  Good(q)
<1>1. /\ Frame(q) /\ run'[q] = At(run[q], place)
      /\ Exists(Temp)' => files'[Temp].source \in DOMAIN Kind
  BY NamesOnly
<1>2. place \in HasRead
  BY DEF HasRead
<1>3. Relies(q)'
  BY <1>1, <1>2, MovesOn DEF Relies, Exists
<1>. QED BY <1>1, <1>2, <1>3, MovesOn DEF Good

\* In a process that has read, the last source read is that of its current file.
LEMMA LastRead ==
  ASSUME IInv, NEW q \in Running, run[q].at \in HasRead
  PROVE  Last(run[q].parsed) = run[q].parsed[run[q].file]
BY DEF IInv, Processed, ProcessOK, Running, Last

LEMMA GenerateTACGood ==
  ASSUME IInv, NEW q \in Running, GenerateTAC(q)
  PROVE  Good(q)
<1>1. run[q].at \in HasRead /\ TACFile(Source(q)) \in NamesMade(run[q].opts, Source(q))
  BY DEF GenerateTAC, HasRead, NamesMade
<1> DEFINE untranslatable == Kind[Last(run[q].parsed)] = "untranslatable"
<1>2. CASE untranslatable \/ TACFile(Source(q)) \in Unwritable
  <2>1. PICK status : Becomes(q, Ended(status)) /\ files' = files
    BY <1>2 DEF GenerateTAC
  <2>. QED BY <2>1, FilesKept, EndGood
<1>3. CASE ~(untranslatable \/ TACFile(Source(q)) \in Unwritable)
  BY <1>1, <1>3, WrittenOnly, PlaceGood DEF GenerateTAC
<1>. QED BY <1>2, <1>3

LEMMA GenerateASMGood ==
  ASSUME IInv, NEW q \in Running, GenerateASM(q)
  PROVE  Good(q)
<1> DEFINE asm_file == ASMFile(Source(q))
           exhausted == Kind[Last(run[q].parsed)] = "exhausting"
<1>1. run[q].at \in HasRead /\ asm_file \in NamesMade(run[q].opts, Source(q))
  BY DEF GenerateASM, HasRead, NamesMade
<1>2. CASE exhausted \/ asm_file \in Unwritable
  <2>1. PICK status : Becomes(q, Ended(status)) /\ files' = files
    BY <1>2 DEF GenerateASM
  <2>. QED BY <2>1, FilesKept, EndGood
<1>3. CASE ~(exhausted \/ asm_file \in Unwritable)
  <2>1. /\ files' = Written(asm_file, Content(Last(run[q].parsed), "assembly"))
        /\ Becomes(q, At(run[q], "clang"))
    BY <1>3 DEF GenerateASM
  <2>2. /\ Frame(q) /\ run'[q] = At(run[q], "clang")
        /\ Exists(Temp)' => files'[Temp].source \in DOMAIN Kind
    BY <1>1, <2>1, WrittenOnly, NamesOnly
  <2>3. asm_file \in DOMAIN files'
        /\ files'[asm_file] = Content(run[q].parsed[run[q].file], "assembly")
    BY <1>1, <2>1, WrittenOnly, LastRead
  <2>4. "clang" \in HasRead
    BY DEF HasRead
  <2>5. Relies(q)'
    BY <1>1, <2>2, <2>3, <2>4, MovesOn DEF Relies, Exists
  <2>. QED BY <1>1, <2>2, <2>4, <2>5, MovesOn DEF Good
<1>. QED BY <1>2, <1>3

LEMMA CleanedGood ==
  ASSUME IInv, NEW q \in Running, run[q].at \in HasRead, Becomes(q, Cleaned(run[q])),
         \A path : path \notin NamesMade(run[q].opts, Source(q)) => Unchanged(path),
         ~run[q].conflict =>
           LET out == OutFile(run[q].opts, Source(q))
           IN  out \in DOMAIN files' /\ files'[out] = Content(run[q].parsed[run[q].file], Form(run[q].opts))
  PROVE  Good(q)
<1>1. CASE run[q].opts.keep_tac
  BY <1>1, NextFileGood DEF Cleaned
<1>2. CASE ~run[q].opts.keep_tac
  BY <1>2, OutputGood DEF Cleaned
<1>. QED BY <1>1, <1>2

LEMMA RunClangGood ==
  ASSUME IInv, NEW q \in Running, RunClang(q)
  PROVE  Good(q)
<1> DEFINE out  == OutFile(run[q].opts, Source(q))
           made == Content(files[ASMFile(Source(q))].source, Form(run[q].opts))
<1>1. run[q].at \in HasRead /\ out \in NamesMade(run[q].opts, Source(q))
  BY DEF RunClang, HasRead, NamesMade
<1>2. files' = Written(out, made)
  BY DEF RunClang, Form
<1>3. ~run[q].conflict => made = Content(run[q].parsed[run[q].file], Form(run[q].opts))
  <2>1. ~run[q].conflict => files[ASMFile(Source(q))] = Content(run[q].parsed[run[q].file], "assembly")
    BY DEF IInv, Relies, Running, RunClang
  <2>. QED BY <2>1 DEF Content
<1>4. /\ out \in DOMAIN files' /\ files'[out] = made
      /\ \A path : path \notin NamesMade(run[q].opts, Source(q)) => Unchanged(path)
  <2> HIDE DEF made, out
  <2>. QED BY <1>1, <1>2, WrittenOnly
<1>5. Becomes(q, Linked(run[q]))
  BY DEF RunClang
<1>6. CASE run[q].opts.keep_asm
  BY <1>1, <1>3, <1>4, <1>5, <1>6, CleanedGood DEF Linked
<1>7. CASE ~run[q].opts.keep_asm
  BY <1>1, <1>3, <1>4, <1>5, <1>7, OutputGood DEF Linked
<1>. QED BY <1>6, <1>7

LEMMA ClangFailsGood ==
  ASSUME IInv, NEW q \in Running, ClangFails(q)
  PROVE  Good(q)
<1>1. OutFile(run[q].opts, Source(q)) \in NamesMade(run[q].opts, Source(q))
  BY DEF NamesMade
<1>2. \A path : path \notin NamesMade(run[q].opts, Source(q)) => Unchanged(path)
  BY <1>1, FilesKept, WithoutOnly DEF ClangFails
<1>. QED BY <1>2, EndGood DEF ClangFails

LEMMA RemoveASMGood ==
  ASSUME IInv, NEW q \in Running, RemoveASM(q)
  PROVE  Good(q)
<1> DEFINE out == OutFile(run[q].opts, Source(q))
<1>1. run[q].at \in HasRead /\ ASMFile(Source(q)) \in NamesMade(run[q].opts, Source(q))
  BY DEF RemoveASM, HasRead, NamesMade
<1>2. \A path : path # ASMFile(Source(q)) => Unchanged(path)
  <2>1. files' = Without({ASMFile(Source(q))})
    BY DEF RemoveASM
  <2>2. \A path : path \notin {ASMFile(Source(q))} => Unchanged(path)
    BY <2>1, WithoutOnly
  <2>. QED BY <2>2
<1>3. Unchanged(out)
  BY <1>2, NamesOfSource
<1>4. ~run[q].conflict =>
        out \in DOMAIN files /\ files[out] = Content(run[q].parsed[run[q].file], Form(run[q].opts))
  BY DEF IInv, Relies, Running, RemoveASM, Exists
<1>5. Becomes(q, Cleaned(run[q]))
  BY DEF RemoveASM
<1>6. ~run[q].conflict =>
        out \in DOMAIN files' /\ files'[out] = Content(run[q].parsed[run[q].file], Form(run[q].opts))
  BY <1>3, <1>4 DEF Unchanged
<1>7. \A path : path \notin NamesMade(run[q].opts, Source(q)) => Unchanged(path)
  BY <1>1, <1>2
<1>. QED BY <1>1, <1>5, <1>6, <1>7, CleanedGood

LEMMA RemoveTACGood ==
  ASSUME IInv, NEW q \in Running, RemoveTAC(q)
  PROVE  Good(q)
<1>1. run[q].at \in HasRead
  BY DEF RemoveTAC, HasRead
<1>2. \A path : path \notin NamesMade(run[q].opts, Source(q)) => Unchanged(path)
  BY WithoutOnly DEF RemoveTAC, NamesMade
<1>. QED BY <1>1, <1>2, NextFileGood DEF RemoveTAC

LEMMA KilledGood ==
  ASSUME IInv, NEW q \in Running, Killed(q)
  PROVE  Good(q)
<1>1. At(Waiting, "killed").at = "killed" /\ Continues(q, At(Waiting, "killed"))
  BY WaitingFields DEF At, Waiting, Continues, ProcessOK, Idle
<1>. QED BY <1>1, FilesKept, NamesOnly, NothingRelied DEF Killed, Good

-----------------------------------------------------------------------------
(* A new process finds out who uses its names, and tells them.             *)
LEMMA StartMainInv ==
  ASSUME IInv, NEW q \in Processes, NEW arguments \in Arguments, StartMain(q, arguments)
  PROVE  IInv'
<1> DEFINE opts    == ParseCommandLine(arguments)
           started == [Waiting EXCEPT !.at = "preprocess", !.file = 1, !.opts = opts,
                         !.alone = (Running = {}), !.before = IF Running = {} THEN files ELSE <<>>,
                         !.conflict = \E p \in Running : Meets(p, opts)]
<1>1. q \notin Running /\ files' = files /\ DOMAIN run = Processes
  BY DEF StartMain, Running, Idle, IInv, Processed
<1>2. \A p \in Processes : ProcessOK(run[p]) /\ Relies(p)
  BY DEF IInv, Processed
<1>3. CASE opts.awaits_output \/ 1 \notin DOMAIN opts.files
  <2>1. run' = [run EXCEPT ![q] = Ended(1)]
    BY <1>3 DEF StartMain, Becomes
  <2>2. DOMAIN run' = Processes /\ run'[q] = Ended(1) /\ \A p \in Processes \ {q} : run'[p] = run[p]
    BY <1>1, <2>1
  <2>3. ProcessOK(Ended(1)) /\ Ended(1).at = "exited"
    BY WaitingFields DEF Ended, Waiting, Idle, ProcessOK
  <2>4. Processed'
    BY <1>1, <1>2, <2>2, <2>3 DEF IInv, Processed, Exists
  <2>5. Running' = Running
    BY <1>1, <2>2, <2>3 DEF Running, Idle
  <2>6. Recorded'
    BY <1>1, <2>2, <2>5 DEF IInv, Recorded, Meets, Running
  <2>7. ASSUME NEW p \in Processes PROVE Relies(p)'
    <3>1. CASE p = q
      BY <2>2, <2>3, <3>1, NothingRelied
    <3>2. CASE p # q
      <4>1. run'[p] = run[p]
        BY <2>2, <3>2
      <4>2. Source(p)' = Source(p) /\ Relies(p)
        BY <1>2, <4>1 DEF Source
      <4>. QED BY <1>1, <4>1, <4>2 DEF Relies, Exists
    <3>. QED BY <3>1, <3>2
  <2>. QED BY <2>4, <2>6, <2>7 DEF IInv
<1>4. CASE ~(opts.awaits_output \/ 1 \notin DOMAIN opts.files)
  <2>1. run' = [p \in Processes |->
                  IF p = q THEN started
                  ELSE IF p \in Running
                  THEN [run[p] EXCEPT !.alone = FALSE, !.before = <<>>,
                                      !.conflict = @ \/ Meets(p, opts)]
                  ELSE run[p]]
    BY <1>4 DEF StartMain
  <2>2. DOMAIN run' = Processes /\ run'[q] = started
    BY <2>1
  <2>3. /\ DOMAIN started = DOMAIN Waiting /\ started.at = "preprocess" /\ started.file = 1
        /\ started.opts = opts /\ started.parsed = <<>>
        /\ started.conflict = (\E p \in Running : Meets(p, opts))
    BY WaitingFields DEF Waiting
  <2> HIDE DEF started
  <2>4. ASSUME NEW p \in Processes \ {q}
        PROVE  /\ SameButRecord(p) /\ run'[p].swapped = run[p].swapped
               /\ run[p].conflict \/ (p \in Running /\ Meets(p, opts)) => run'[p].conflict
               /\ run'[p].conflict => run[p].conflict \/ (p \in Running /\ Meets(p, opts))
    <3>1. DOMAIN run[p] = {"at", "opts", "file", "parsed", "status", "before", "alone", "conflict", "swapped"}
      BY <1>2, WaitingFields DEF ProcessOK
    <3>2. CASE p \in Running
      <4>1. run'[p] = [run[p] EXCEPT !.alone = FALSE, !.before = <<>>,
                                     !.conflict = run[p].conflict \/ Meets(p, opts)]
        BY <2>1, <3>1, <3>2
      <4>. QED BY <3>1, <3>2, <4>1 DEF SameButRecord
    <3>3. CASE p \notin Running
      <4>1. run'[p] = run[p]
        BY <2>1, <3>3
      <4>. QED BY <3>3, <4>1 DEF SameButRecord
    <3>. QED BY <3>2, <3>3
  <2>5. ProcessOK(started)
    BY <1>4, <2>3 DEF ProcessOK, Options, HasRead
  <2>6. \A p \in Processes : ProcessOK(run'[p])
    BY <1>2, <2>2, <2>4, <2>5 DEF ProcessOK, SameButRecord
  <2>7. Processed'
    BY <1>1, <2>2, <2>6 DEF IInv, Processed, Exists
  <2>8. Running' = Running \cup {q}
    BY <2>2, <2>3, <2>4 DEF Running, Idle, SameButRecord
  <2>9. Recorded'
    <3> SUFFICES ASSUME NEW a \in Running', NEW b \in Running', a # b, Meets(a, run[b].opts)'
                 PROVE  run'[a].conflict
      BY DEF Recorded
    <3>1. NamesUsed(run'[b].opts) \cap NamesUsed(run'[a].opts) # {}
      BY DEF Meets
    <3>2. CASE a = q
      <4>1. b \in Running /\ b \in Processes \ {q} /\ run'[b].opts = run[b].opts
        BY <2>4, <2>8, <3>2 DEF SameButRecord, Running
      <4>. QED BY <2>2, <2>3, <3>1, <3>2, <4>1 DEF Meets
    <3>3. CASE a # q /\ b = q
      <4>1. a \in Running /\ a \in Processes \ {q} /\ run'[a].opts = run[a].opts
        BY <2>4, <2>8, <3>3 DEF SameButRecord, Running
      <4>. QED BY <2>2, <2>3, <2>4, <3>1, <3>3, <4>1 DEF Meets
    <3>4. CASE a # q /\ b # q
      <4>1. /\ a \in Running /\ a \in Processes \ {q} /\ run'[a].opts = run[a].opts
            /\ b \in Running /\ b \in Processes \ {q} /\ run'[b].opts = run[b].opts
        BY <2>4, <2>8, <3>4 DEF SameButRecord, Running
      <4>2. run[a].conflict
        BY <3>1, <3>4, <4>1 DEF IInv, Recorded, Meets
      <4>. QED BY <2>4, <4>1, <4>2
    <3>. QED BY <3>2, <3>3, <3>4
  <2>10. ASSUME NEW p \in Processes PROVE Relies(p)'
    <3>1. CASE p = q
      BY <2>2, <2>3, <3>1, NothingRelied
    <3>2. CASE p # q
      <4>1. SameButRecord(p) /\ run'[p].swapped = run[p].swapped /\ (~run'[p].conflict => ~run[p].conflict)
        BY <2>4, <3>2
      <4>2. Source(p)' = Source(p)
        BY <4>1 DEF Source, SameButRecord
      <4>. QED BY <1>1, <1>2, <4>1, <4>2 DEF Relies, SameButRecord, Exists
    <3>. QED BY <3>1, <3>2
  <2>. QED BY <2>7, <2>9, <2>10 DEF IInv
<1>. QED BY <1>3, <1>4

\* Any other step: the process that takes it and all others are as before.
LEMMA GoodInv ==
  ASSUME IInv, NEW q \in Running, Good(q)
  PROVE  IInv'
<1>1. /\ Frame(q) /\ Continues(q, run'[q]) /\ Relies(q)' /\ q \in Processes
      /\ Exists(Temp)' => files'[Temp].source \in DOMAIN Kind
  BY DEF Good, Running
<1>2. \A p \in Processes \ {q} : Relies(p)' /\ ProcessOK(run'[p])
  BY <1>1, OthersRely
<1>3. Processed'
  BY <1>1, <1>2 DEF Processed, Frame, Continues
<1>4. \A p \in Running' : p \in Running /\ run'[p].opts = run[p].opts /\ run'[p].conflict = run[p].conflict
  BY <1>1 DEF Running, Frame, SameButRecord, Continues
<1>5. Recorded'
  BY <1>4 DEF IInv, Recorded, Meets
<1>. QED BY <1>1, <1>2, <1>3, <1>5 DEF IInv

LEMMA StepGood ==
  ASSUME IInv, NEW q \in Processes, Step(q)
  PROVE  q \in Running /\ Good(q)
<1>1. q \in Running
  BY DEF Step, Running, Idle, RunPreprocessor, PreprocessorFails, Parse, GenerateTAC,
     GenerateASM, RunClang, ClangFails, RemoveASM, RemoveTAC
<1>. QED BY <1>1, RunPreprocessorGood, PreprocessorFailsGood, ParseGood, GenerateTACGood,
     GenerateASMGood, RunClangGood, ClangFailsGood, RemoveASMGood, RemoveTACGood DEF Step

LEMMA StepInv ==
  ASSUME IInv, [Next]_vars
  PROVE  IInv'
<1>1. ASSUME NEW q \in Processes, NEW arguments \in Arguments, StartMain(q, arguments)
      PROVE  IInv'
  BY <1>1, StartMainInv
<1>2. ASSUME NEW q \in Processes, Step(q)
      PROVE  IInv'
  <2>. QED BY <1>2, StepGood, GoodInv
<1>3. ASSUME NEW q \in Processes, Killed(q)
      PROVE  IInv'
  <2>1. q \in Running
    BY <1>3 DEF Killed
  <2>. QED BY <1>3, <2>1, KilledGood, GoodInv
<1>4. CASE UNCHANGED vars
  <2>1. files' = files /\ run' = run
    BY <1>4 DEF vars
  <2>. QED BY <2>1 DEF IInv, Processed, Recorded, Relies, Running, Meets, Source, Exists
<1>. QED BY <1>1, <1>2, <1>3, <1>4 DEF Next

(* However many processes run at the same time on names of their own, with *)
(* whatever command lines and sources, and whichever of them are killed:   *)
(* what each makes is of the file it read, and that is its own unless      *)
(* another one replaced Temp since its own preprocessor ran.               *)
THEOREM IndependentProcesses == Spec => []MixUpsOnlyThroughTemp
<1>1. IInv => MixUpsOnlyThroughTemp
  BY DEF IInv, Relies, MixUpsOnlyThroughTemp, Running, HasRead
<1>. QED BY <1>1, Initially, StepInv, PTL DEF Spec

-----------------------------------------------------------------------------
(* A process that has the directory for itself.                            *)

\* The first n sources were compiled without an error.
SoFar(opts, n) == \A j \in 1 .. n : Outcome(opts, opts.files[j]) = "done"

\* What may be removed or made anew once source i has its output, up to source n.
Touched(opts, i, n) ==
  TACFilesRemoved(opts, opts.files[i])
    \cup UNION {NamesMade(opts, opts.files[j]) : j \in i + 1 .. n}

\* The file system fs holds the outputs of the first m sources, after everything up to source n.
Built(fs, opts, m, n) ==
  \A i \in 1 .. m :
    LET out == OutFile(opts, opts.files[i])
    IN  out \notin Touched(opts, i, n) =>
          out \in DOMAIN fs /\ fs[out] = Content(opts.files[i], Form(opts))

HasTAC == {"asm", "clang", "remove asm", "remove tac"}
HasASM == {"clang", "remove asm", "remove tac"}

Analyzed(source) == Kind[source] \notin {"malformed", "throwing", "ill-typed"}

\* What the process has learnt about its current source.
Learnt(r, source) ==
  /\ r.at \in HasRead \cup {"parse"} => Preprocessable(source)
  /\ r.at \in HasRead => Analyzed(source) /\ r.opts.compile
  /\ r.at \in HasTAC => Kind[source] # "untranslatable" /\ TACFile(source) \notin Unwritable
  /\ r.at \in HasASM => Kind[source] # "exhausting" /\ ASMFile(source) \notin Unwritable
  /\ r.at \in {"remove asm", "remove tac"} => Outcome(r.opts, source) = "done"

Undisturbed(r) == r.swapped = {} /\ r.conflict = FALSE

Alone(p) ==
  LET r == run[p]
  IN  /\ Running = {p}
      /\ Undisturbed(r)
      /\ SoFar(r.opts, r.file - 1)
      /\ Learnt(r, Source(p))
      /\ r.opts.compile => Built(files, r.opts, r.file - 1, r.file)

AloneInv == \A p \in Running : run[p].alone => Alone(p)

StatusOf(outcome) ==
  CASE outcome = "rejected" -> 1
    [] outcome = "aborted"  -> Aborted
    [] OTHER                -> 0

\* How a process that was alone ends: at its last source, or at one that fails.
EndsDone(p) ==
  LET r == run[p]
  IN  /\ r.file + 1 \notin DOMAIN r.opts.files
      /\ SoFar(r.opts, r.file)
      /\ run'[p].status = 0
      /\ r.opts.compile => Built(files', r.opts, r.file, r.file)

EndsFailing(p) ==
  LET r == run[p]
  IN  /\ SoFar(r.opts, r.file - 1)
      /\ Outcome(r.opts, Source(p)) # "done"
      /\ run'[p].status = StatusOf(Outcome(r.opts, Source(p)))
      /\ r.opts.compile => Built(files', r.opts, r.file - 1, r.file)

Verdict(p) == run'[p].at = "exited" => EndsDone(p) \/ EndsFailing(p)

LEMMA SourcesOf ==
  ASSUME IInv, NEW p \in Running
  PROVE  /\ DOMAIN run[p].opts.files = 1 .. Len(run[p].opts.files)
         /\ Len(run[p].opts.files) \in Nat
         /\ run[p].file \in 1 .. Len(run[p].opts.files)
         /\ Source(p) = run[p].opts.files[run[p].file]
         /\ \A i \in DOMAIN run[p].opts.files :
              OutFile(run[p].opts, run[p].opts.files[i]) # Temp
<1>1. run[p].opts \in Options /\ run[p].file \in DOMAIN run[p].opts.files
  BY DEF IInv, Processed, ProcessOK, Running
<1>2. PICK arguments \in Arguments : run[p].opts = ParseCommandLine(arguments)
  BY <1>1 DEF Options
<1>3. run[p].opts.files \in Seq(Range(arguments))
  BY <1>2, ArgumentsAssumption
<1>4. \A i \in DOMAIN run[p].opts.files :
        NamesMade(run[p].opts, run[p].opts.files[i]) \cap {Temp} = {}
  BY <1>2, ArgumentsAssumption
<1>5. \A i \in DOMAIN run[p].opts.files : OutFile(run[p].opts, run[p].opts.files[i]) # Temp
  BY <1>4 DEF NamesMade
<1>. QED BY <1>1, <1>3, <1>5 DEF Source

\* A step at source n leaves the earlier outputs that it may not touch.
LEMMA BuiltKept ==
  ASSUME NEW opts, NEW n \in Nat, n >= 1, Built(files, opts, n - 1, n),
         \A path : path \notin NamesMade(opts, opts.files[n]) \cup {Temp} => Unchanged(path),
         \A i \in 1 .. n : OutFile(opts, opts.files[i]) # Temp
  PROVE  Built(files', opts, n - 1, n)
<1> SUFFICES ASSUME NEW i \in 1 .. n - 1,
                    OutFile(opts, opts.files[i]) \notin Touched(opts, i, n)
             PROVE  LET out == OutFile(opts, opts.files[i])
                    IN  out \in DOMAIN files' /\ files'[out] = Content(opts.files[i], Form(opts))
  BY DEF Built
<1> DEFINE out == OutFile(opts, opts.files[i])
<1>1. out \in DOMAIN files /\ files[out] = Content(opts.files[i], Form(opts))
  BY DEF Built
<1>2. n \in i + 1 .. n /\ i \in 1 .. n
  OBVIOUS
<1>3. out \notin NamesMade(opts, opts.files[n])
  BY <1>2 DEF Touched
<1>4. Unchanged(out)
  BY <1>2, <1>3
<1>. QED BY <1>1, <1>4 DEF Unchanged

\* The output of source n joins the others.
LEMMA BuiltNext ==
  ASSUME NEW fs, NEW opts, NEW n \in Nat, n >= 1, Built(fs, opts, n - 1, n),
         LET out == OutFile(opts, opts.files[n])
         IN  out \notin TACFilesRemoved(opts, opts.files[n]) =>
               out \in DOMAIN fs /\ fs[out] = Content(opts.files[n], Form(opts))
  PROVE  Built(fs, opts, n, n) /\ Built(fs, opts, n, n + 1)
<1>1. ASSUME NEW i \in 1 .. n, NEW m \in {n, n + 1},
             OutFile(opts, opts.files[i]) \notin Touched(opts, i, m)
      PROVE  LET out == OutFile(opts, opts.files[i])
             IN  out \in DOMAIN fs /\ fs[out] = Content(opts.files[i], Form(opts))
  <2>1. CASE i = n
    BY <1>1, <2>1 DEF Touched
  <2>2. CASE i # n
    <3>1. i \in 1 .. n - 1 /\ i + 1 .. n \subseteq i + 1 .. m
      BY <2>2
    <3>2. OutFile(opts, opts.files[i]) \notin Touched(opts, i, n)
      BY <1>1, <3>1 DEF Touched
    <3>. QED BY <3>1, <3>2 DEF Built
  <2>. QED BY <2>1, <2>2
<1>2. n \in {n, n + 1} /\ n + 1 \in {n, n + 1}
  OBVIOUS
<1>. QED BY <1>1, <1>2 DEF Built

\* What a step of a process that is alone must come to.
OnlyOwnFiles(p) ==
  \A path : path \notin NamesMade(run[p].opts, Source(p)) \cup {Temp} => Unchanged(path)

Settled(p) == (p \in Running' => Alone(p)') /\ Verdict(p)

\* r is the record of p but for its place and what it has read.
SameRun(r, p) ==
  /\ DOMAIN r = DOMAIN Waiting
  /\ r.opts = run[p].opts /\ r.file = run[p].file
  /\ r.swapped = run[p].swapped /\ r.conflict = run[p].conflict

LEMMA StillAlone ==
  ASSUME IInv, NEW p \in Running, Alone(p), Good(p), p \in Running'
  PROVE  Running' = {p}
BY DEF Alone, Good, Frame, SameButRecord, Running

LEMMA EarlierOutputs ==
  ASSUME IInv, NEW p \in Running, Alone(p), OnlyOwnFiles(p)
  PROVE  /\ run[p].file \in Nat /\ run[p].file >= 1
         /\ run[p].opts.compile => Built(files', run[p].opts, run[p].file - 1, run[p].file)
<1> DEFINE opts == run[p].opts
           n == run[p].file
<1>1. /\ n \in Nat /\ n >= 1
      /\ \A i \in 1 .. n : OutFile(opts, opts.files[i]) # Temp
      /\ Source(p) = opts.files[n]
  BY SourcesOf
<1>2. \A path : path \notin NamesMade(opts, opts.files[n]) \cup {Temp} => Unchanged(path)
  BY <1>1 DEF OnlyOwnFiles
<1>3. opts.compile => Built(files, opts, n - 1, n)
  BY DEF Alone
<1> HIDE DEF opts, n
<1>4. opts.compile => Built(files', opts, n - 1, n)
  BY <1>1, <1>2, <1>3, BuiltKept
<1>. QED BY <1>1, <1>4 DEF opts, n

\* It goes on with the same source.
LEMMA AlonePlace ==
  ASSUME IInv, NEW p \in Running, Alone(p), Good(p), OnlyOwnFiles(p),
         SameRun(run'[p], p), run'[p].at \notin Idle, Learnt(run'[p], Source(p))
  PROVE  Settled(p)
<1>1. run'[p].at # "exited"
  BY DEF Idle
<1>2. p \in Running'
  BY DEF Running
<1>3. Running' = {p}
  BY <1>2, StillAlone
<1>4. Source(p)' = Source(p)
  BY DEF Source, SameRun
<1>5. run[p].opts.compile => Built(files', run[p].opts, run[p].file - 1, run[p].file)
  BY EarlierOutputs
<1>6. Alone(p)'
  BY <1>3, <1>4, <1>5 DEF Alone, SameRun, Undisturbed
<1>. QED BY <1>1, <1>6 DEF Settled, Verdict

\* Its source is done: it takes the next one, or it ends.
LEMMA AloneNext ==
  ASSUME IInv, NEW p \in Running, Alone(p), Good(p), OnlyOwnFiles(p),
         NEW r, SameRun(r, p), run'[p] = NextFile(r),
         Outcome(run[p].opts, Source(p)) = "done",
         LET out == OutFile(run[p].opts, Source(p))
         IN  run[p].opts.compile /\ out \notin TACFilesRemoved(run[p].opts, Source(p)) =>
               out \in DOMAIN files' /\ files'[out] = Content(Source(p), Form(run[p].opts))
  PROVE  Settled(p)
<1> DEFINE opts == run[p].opts
           n == run[p].file
<1>1. n \in Nat /\ n >= 1 /\ Source(p) = opts.files[n]
  BY SourcesOf
<1>2. opts.compile => Built(files', opts, n - 1, n)
  BY EarlierOutputs
<1>3. opts.compile => Built(files', opts, n, n) /\ Built(files', opts, n, n + 1)
  <2> SUFFICES ASSUME opts.compile
               PROVE  Built(files', opts, n, n) /\ Built(files', opts, n, n + 1)
    OBVIOUS
  <2>1. LET out == OutFile(opts, opts.files[n])
        IN  out \notin TACFilesRemoved(opts, opts.files[n]) =>
              out \in DOMAIN files' /\ files'[out] = Content(opts.files[n], Form(opts))
    BY <1>1
  <2>2. Built(files', opts, n - 1, n)
    BY <1>2
  <2> HIDE DEF opts, n
  <2>. QED BY <1>1, <2>1, <2>2, BuiltNext
<1>4. SoFar(opts, n)
  <2>1. SoFar(opts, n - 1)
    BY DEF Alone
  <2>2. \A j \in 1 .. n : j \in 1 .. n - 1 \/ j = n
    BY <1>1
  <2>. QED BY <1>1, <2>1, <2>2 DEF SoFar
<1>5. CASE r.file + 1 \in DOMAIN r.opts.files
  <2>1. /\ run'[p].at = "preprocess" /\ run'[p].file = n + 1 /\ run'[p].opts = opts
        /\ run'[p].swapped = run[p].swapped /\ run'[p].conflict = run[p].conflict
    BY <1>5, WaitingFields DEF NextFile, SameRun
  <2>2. p \in Running'
    BY <2>1 DEF Running, Idle
  <2>3. Running' = {p}
    BY <2>2, StillAlone
  <2>4. (n + 1) - 1 = n
    BY <1>1
  <2>5. Learnt(run'[p], Source(p)')
    BY <2>1 DEF Learnt, HasRead, HasTAC, HasASM
  <2>6. Alone(p)'
    BY <1>3, <1>4, <2>1, <2>3, <2>4, <2>5 DEF Alone, Undisturbed
  <2>. QED BY <2>1, <2>6 DEF Settled, Verdict
<1>6. CASE r.file + 1 \notin DOMAIN r.opts.files
  <2>1. run'[p].at = "exited" /\ run'[p].status = 0 /\ n + 1 \notin DOMAIN opts.files
    BY <1>6 DEF NextFile, SameRun, Ended, Waiting
  <2>2. EndsDone(p)
    BY <1>3, <1>4, <2>1 DEF EndsDone
  <2>. QED BY <2>1, <2>2 DEF Settled, Verdict, Running, Idle
<1>. QED BY <1>5, <1>6

\* It ends with an error.
LEMMA AloneFails ==
  ASSUME IInv, NEW p \in Running, Alone(p), OnlyOwnFiles(p),
         NEW status, run'[p] = Ended(status),
         Outcome(run[p].opts, Source(p)) # "done",
         status % 256 = StatusOf(Outcome(run[p].opts, Source(p)))
  PROVE  Settled(p)
<1>1. run'[p].at = "exited" /\ run'[p].status = status % 256
  BY DEF Ended, Waiting
<1>2. SoFar(run[p].opts, run[p].file - 1)
  BY DEF Alone
<1>3. run[p].opts.compile => Built(files', run[p].opts, run[p].file - 1, run[p].file)
  BY EarlierOutputs
<1>4. EndsFailing(p)
  BY <1>1, <1>2, <1>3 DEF EndsFailing
<1>. QED BY <1>1, <1>4 DEF Settled, Verdict, Running, Idle

-----------------------------------------------------------------------------
(* Each step of a process that is alone.                                   *)

LEMMA OnlyNames ==
  ASSUME NEW p, \A path : path \notin NamesMade(run[p].opts, Source(p)) => Unchanged(path)
  PROVE  OnlyOwnFiles(p)
BY DEF OnlyOwnFiles

\* What a process that is alone relies on is there.
LEMMA ReliesAlone ==
  ASSUME IInv, NEW p \in Running, Alone(p)
  PROVE  LET r == run[p]
             s == Source(p)
         IN  /\ DOMAIN r = DOMAIN Waiting
             /\ r.at = "parse" => Exists(Temp) /\ files[Temp].source = s
             /\ r.at \in HasRead => Last(r.parsed) = s
             /\ r.at = "clang" => Exists(ASMFile(s)) /\ files[ASMFile(s)].source = s
             /\ r.at \in {"remove asm", "remove tac"} =>
                  /\ OutFile(r.opts, s) \in DOMAIN files
                  /\ files[OutFile(r.opts, s)] = Content(s, Form(r.opts))
<1>1. Undisturbed(run[p]) /\ Relies(p) /\ ProcessOK(run[p])
  BY DEF Alone, IInv, Processed, Running
<1>2. run[p].at \in HasRead => run[p].parsed[run[p].file] = Source(p)
  BY <1>1 DEF Relies, Undisturbed
<1>3. run[p].at = "parse" => Exists(Temp) /\ files[Temp].source = Source(p)
  BY <1>1 DEF Relies, Undisturbed
<1>4. run[p].at \in HasRead => Last(run[p].parsed) = Source(p)
  BY <1>2, LastRead
<1>5. run[p].at = "clang" =>
        Exists(ASMFile(Source(p))) /\ files[ASMFile(Source(p))].source = Source(p)
  BY <1>1, <1>2 DEF Relies, Undisturbed, HasRead, Content
<1>6. run[p].at \in {"remove asm", "remove tac"} =>
        LET out == OutFile(run[p].opts, Source(p))
        IN  out \in DOMAIN files /\ files[out] = Content(Source(p), Form(run[p].opts))
  BY <1>1, <1>2 DEF Relies, Undisturbed, HasRead, Exists
<1>. QED BY <1>1, <1>3, <1>4, <1>5, <1>6 DEF ProcessOK

LEMMA MovedAlong ==
  ASSUME IInv, NEW p \in Running, NEW place, run'[p] = At(run[p], place)
  PROVE  SameRun(run'[p], p) /\ run'[p].at = place /\ SameRun(run[p], p)
<1>1. DOMAIN run[p] = DOMAIN Waiting
  BY DEF IInv, Processed, ProcessOK, Running
<1>. QED BY <1>1, WaitingFields DEF SameRun, At

LEMMA PreprocessAlone ==
  ASSUME IInv, NEW p \in Running, Alone(p), Good(p), RunPreprocessor(p)
  PROVE  Settled(p)
<1>1. /\ run'[p] = At(run[p], "parse") /\ Preprocessable(Source(p))
      /\ \A path : path # Temp => Unchanged(path)
  BY WrittenOnly, FrameOfTemp DEF RunPreprocessor
<1>2. SameRun(run'[p], p) /\ run'[p].at = "parse"
  BY <1>1, MovedAlong
<1>3. Learnt(run'[p], Source(p)) /\ run'[p].at \notin Idle
  BY <1>1, <1>2 DEF Learnt, HasRead, HasTAC, HasASM, Idle
<1>4. OnlyOwnFiles(p)
  BY <1>1 DEF OnlyOwnFiles
<1>. QED BY <1>2, <1>3, <1>4, AlonePlace

LEMMA PreprocessFailsAlone ==
  ASSUME IInv, NEW p \in Running, Alone(p), PreprocessorFails(p)
  PROVE  Settled(p)
<1>1. run'[p] = Ended(Failure) /\ OnlyOwnFiles(p)
  <2>1. CASE Becomes(p, Ended(Failure)) /\ files' = files
    BY <2>1, FilesKept, FrameOfNames DEF OnlyOwnFiles
  <2>2. CASE ReplacesTemp(p, Ended(Failure)) /\ files' = Without({Temp})
    <3>1. \A path : path # Temp => Unchanged(path)
      BY <2>2, WithoutOnly
    <3>. QED BY <2>2, <3>1, FrameOfTemp DEF OnlyOwnFiles
  <2>. QED BY <2>1, <2>2 DEF PreprocessorFails
<1>2. Outcome(run[p].opts, Source(p)) = "clang fails"
  BY DEF PreprocessorFails, Outcome
<1>3. Failure % 256 = StatusOf("clang fails")
  BY DEF Failure, System, StatusOf
<1>. QED BY <1>1, <1>2, <1>3, AloneFails

LEMMA ParseAlone ==
  ASSUME IInv, NEW p \in Running, Alone(p), Good(p), Parse(p)
  PROVE  Settled(p)
<1> DEFINE opts == run[p].opts
           s == Source(p)
           parsed == [run[p] EXCEPT !.parsed = Append(@, files[Temp].source)]
<1>1. /\ run[p].at = "parse" /\ files' = files /\ Exists(Temp) /\ files[Temp].source = s
      /\ DOMAIN run[p] = DOMAIN Waiting
  BY ReliesAlone DEF Parse
<1>2. Preprocessable(s)
  BY <1>1 DEF Alone, Learnt
<1>3. OnlyOwnFiles(p) /\ DOMAIN run = Processes /\ p \in Processes
  BY <1>1, FilesKept DEF OnlyOwnFiles, IInv, Processed, Running
<1>4. SameRun(parsed, p)
  BY <1>1, WaitingFields DEF SameRun
<1>5. CASE Kind[s] = "malformed" \/ (Kind[s] = "ill-typed" /\ opts.compile)
  <2>1. run'[p] = Ended(1)
    BY <1>1, <1>3, <1>5, Parsing, Understanding DEF Becomes
  <2>2. Outcome(opts, s) = "rejected"
    BY <1>2, <1>5 DEF Outcome
  <2>3. 1 % 256 = StatusOf("rejected")
    BY DEF StatusOf
  <2>. QED BY <1>3, <2>1, <2>2, <2>3, AloneFails
<1>6. CASE Kind[s] = "throwing"
  <2>1. run'[p] = Ended(Aborted)
    BY <1>1, <1>3, <1>6, Parsing, Understanding DEF Becomes
  <2>2. Outcome(opts, s) = "aborted"
    BY <1>2, <1>6 DEF Outcome
  <2>3. Aborted % 256 = StatusOf("aborted")
    BY DEF StatusOf, Aborted
  <2>. QED BY <1>3, <2>1, <2>2, <2>3, AloneFails
<1>7. CASE Analyzed(s) /\ opts.compile
  <2>1. run'[p] = At(parsed, "tac")
    BY <1>1, <1>3, <1>7, Parsing, Understanding DEF Becomes, Analyzed
  <2> HIDE DEF parsed
  <2>2. SameRun(run'[p], p) /\ run'[p].at = "tac"
    BY <1>4, <2>1, WaitingFields DEF SameRun, At
  <2>3. Learnt(run'[p], s) /\ run'[p].at \notin Idle
    BY <1>2, <1>7, <2>2 DEF Learnt, HasRead, HasTAC, HasASM, Idle, SameRun
  <2>. QED BY <1>3, <2>2, <2>3, AlonePlace
<1>8. CASE Kind[s] \notin {"malformed", "throwing"} /\ ~opts.compile
  <2>1. run'[p] = NextFile(parsed)
    BY <1>1, <1>3, <1>8, Parsing, Understanding DEF Becomes
  <2>2. Outcome(opts, s) = "done"
    BY <1>2, <1>8 DEF Outcome
  <2> HIDE DEF parsed
  <2>. QED BY <1>3, <1>4, <1>8, <2>1, <2>2, AloneNext
<1>. QED BY <1>5, <1>6, <1>7, <1>8 DEF Analyzed

LEMMA TACAlone ==
  ASSUME IInv, NEW p \in Running, Alone(p), Good(p), GenerateTAC(p)
  PROVE  Settled(p)
<1> DEFINE opts == run[p].opts
           s == Source(p)
<1>1. /\ run[p].at = "tac" /\ TACFile(s) \in NamesMade(opts, s)
      /\ Last(run[p].parsed) = s
  BY ReliesAlone DEF GenerateTAC, NamesMade, HasRead
<1>2. Preprocessable(s) /\ Analyzed(s) /\ opts.compile
  BY <1>1 DEF Alone, Learnt, HasRead
<1>3. CASE Kind[s] = "untranslatable"
  <2>1. run'[p] = Ended(Aborted) /\ OnlyOwnFiles(p)
    BY <1>1, <1>3, FilesKept, NamesOnly, OnlyNames DEF GenerateTAC
  <2>2. Outcome(opts, s) = "aborted"
    BY <1>2, <1>3 DEF Outcome
  <2>3. Aborted % 256 = StatusOf("aborted")
    BY DEF StatusOf, Aborted
  <2>. QED BY <2>1, <2>2, <2>3, AloneFails
<1>4. CASE Kind[s] # "untranslatable" /\ TACFile(s) \in Unwritable
  <2>1. run'[p] = Ended(1) /\ OnlyOwnFiles(p)
    BY <1>1, <1>4, FilesKept, NamesOnly, OnlyNames DEF GenerateTAC
  <2>2. Outcome(opts, s) = "rejected"
    BY <1>2, <1>4 DEF Outcome, Analyzed
  <2>3. 1 % 256 = StatusOf("rejected")
    BY DEF StatusOf
  <2>. QED BY <2>1, <2>2, <2>3, AloneFails
<1>5. CASE Kind[s] # "untranslatable" /\ TACFile(s) \notin Unwritable
  <2>1. \A path : path \notin NamesMade(opts, s) => Unchanged(path)
    BY <1>1, <1>5, WrittenOnly DEF GenerateTAC
  <2>2. run'[p] = At(run[p], "asm") /\ OnlyOwnFiles(p)
    BY <1>1, <1>5, <2>1, NamesOnly, OnlyNames DEF GenerateTAC
  <2>3. SameRun(run'[p], p) /\ run'[p].at = "asm"
    BY <2>2, MovedAlong
  <2>4. Learnt(run'[p], s) /\ run'[p].at \notin Idle
    BY <1>2, <1>5, <2>3 DEF Learnt, HasRead, HasTAC, HasASM, Idle, SameRun
  <2>. QED BY <2>2, <2>3, <2>4, AlonePlace
<1>. QED BY <1>3, <1>4, <1>5

LEMMA ASMAlone ==
  ASSUME IInv, NEW p \in Running, Alone(p), Good(p), GenerateASM(p)
  PROVE  Settled(p)
<1> DEFINE opts == run[p].opts
           s == Source(p)
<1>1. /\ run[p].at = "asm" /\ ASMFile(s) \in NamesMade(opts, s)
      /\ Last(run[p].parsed) = s
  BY ReliesAlone DEF GenerateASM, NamesMade, HasRead
<1>2. /\ Preprocessable(s) /\ Analyzed(s) /\ opts.compile
      /\ Kind[s] # "untranslatable" /\ TACFile(s) \notin Unwritable
  BY <1>1 DEF Alone, Learnt, HasRead, HasTAC
<1>3. CASE Kind[s] = "exhausting"
  <2>1. run'[p] = Ended(Aborted) /\ OnlyOwnFiles(p)
    BY <1>1, <1>3, FilesKept, NamesOnly, OnlyNames DEF GenerateASM
  <2>2. Outcome(opts, s) = "aborted"
    BY <1>2, <1>3 DEF Outcome, Analyzed
  <2>3. Aborted % 256 = StatusOf("aborted")
    BY DEF StatusOf, Aborted
  <2>. QED BY <2>1, <2>2, <2>3, AloneFails
<1>4. CASE Kind[s] # "exhausting" /\ ASMFile(s) \in Unwritable
  <2>1. run'[p] = Ended(1) /\ OnlyOwnFiles(p)
    BY <1>1, <1>4, FilesKept, NamesOnly, OnlyNames DEF GenerateASM
  <2>2. Outcome(opts, s) = "rejected"
    BY <1>2, <1>4 DEF Outcome, Analyzed
  <2>3. 1 % 256 = StatusOf("rejected")
    BY DEF StatusOf
  <2>. QED BY <2>1, <2>2, <2>3, AloneFails
<1>5. CASE Kind[s] # "exhausting" /\ ASMFile(s) \notin Unwritable
  <2>1. \A path : path \notin NamesMade(opts, s) => Unchanged(path)
    BY <1>1, <1>5, WrittenOnly DEF GenerateASM
  <2>2. run'[p] = At(run[p], "clang") /\ OnlyOwnFiles(p)
    BY <1>1, <1>5, <2>1, NamesOnly, OnlyNames DEF GenerateASM
  <2>3. SameRun(run'[p], p) /\ run'[p].at = "clang"
    BY <2>2, MovedAlong
  <2>4. Learnt(run'[p], s) /\ run'[p].at \notin Idle
    BY <1>2, <1>5, <2>3 DEF Learnt, HasRead, HasTAC, HasASM, Idle, SameRun
  <2>. QED BY <2>2, <2>3, <2>4, AlonePlace
<1>. QED BY <1>3, <1>4, <1>5

\* The output is made; the assembly and then the TAC files are next.
LEMMA RemovingAlone ==
  ASSUME IInv, NEW p \in Running, Alone(p), Good(p), OnlyOwnFiles(p),
         run[p].at \in HasASM, Outcome(run[p].opts, Source(p)) = "done",
         NEW place \in {"remove asm", "remove tac"}, run'[p] = At(run[p], place)
  PROVE  Settled(p)
<1>1. SameRun(run'[p], p) /\ run'[p].at = place
  BY MovedAlong
<1>2. Learnt(run[p], Source(p))
  BY DEF Alone
<1>3. Learnt(run'[p], Source(p)) /\ run'[p].at \notin Idle
  BY <1>1, <1>2 DEF Learnt, HasRead, HasTAC, HasASM, Idle, SameRun
<1>. QED BY <1>1, <1>3, AlonePlace

LEMMA CleanedAlone ==
  ASSUME IInv, NEW p \in Running, Alone(p), Good(p), OnlyOwnFiles(p),
         run[p].at \in HasASM, Outcome(run[p].opts, Source(p)) = "done",
         run'[p] = Cleaned(run[p]),
         LET out == OutFile(run[p].opts, Source(p))
         IN  out \in DOMAIN files' /\ files'[out] = Content(Source(p), Form(run[p].opts))
  PROVE  Settled(p)
<1>1. CASE run[p].opts.keep_tac
  <2>1. run'[p] = NextFile(run[p])
    BY <1>1 DEF Cleaned
  <2>2. SameRun(run[p], p)
    BY DEF SameRun, IInv, Processed, ProcessOK, Running
  <2>. QED BY <2>1, <2>2, AloneNext
<1>2. CASE ~run[p].opts.keep_tac
  BY <1>2, RemovingAlone DEF Cleaned
<1>. QED BY <1>1, <1>2

LEMMA ClangAlone ==
  ASSUME IInv, NEW p \in Running, Alone(p), Good(p), RunClang(p)
  PROVE  Settled(p)
<1> DEFINE opts == run[p].opts
           s == Source(p)
           out == OutFile(opts, s)
<1>1. /\ run[p].at = "clang" /\ files[ASMFile(s)].source = s
      /\ out \in NamesMade(opts, s) /\ run[p].at \in HasASM
  BY ReliesAlone DEF RunClang, NamesMade, HasASM
<1>2. Learnt(run[p], s)
  BY DEF Alone
<1>3. Outcome(opts, s) = "done"
  BY <1>1, <1>2 DEF Learnt, HasRead, HasTAC, HasASM, Analyzed, RunClang, ClangSucceeds, Outcome
<1>4. files' = Written(out, Content(s, Form(opts)))
  BY <1>1 DEF RunClang, Form
<1>5. /\ out \in DOMAIN files' /\ files'[out] = Content(s, Form(opts))
      /\ \A path : path \notin NamesMade(opts, s) => Unchanged(path)
  <2> DEFINE made == Content(s, Form(opts))
  <2> HIDE DEF made, out
  <2>. QED BY <1>1, <1>4, WrittenOnly DEF made
<1>6. run'[p] = Linked(run[p]) /\ OnlyOwnFiles(p)
  BY <1>5, NamesOnly, OnlyNames DEF RunClang
<1>7. CASE opts.keep_asm
  BY <1>1, <1>3, <1>5, <1>6, <1>7, CleanedAlone DEF Linked
<1>8. CASE ~opts.keep_asm
  BY <1>1, <1>3, <1>6, <1>8, RemovingAlone DEF Linked
<1>. QED BY <1>7, <1>8

LEMMA ClangFailsAlone ==
  ASSUME IInv, NEW p \in Running, Alone(p), ClangFails(p)
  PROVE  Settled(p)
<1> DEFINE opts == run[p].opts
           s == Source(p)
           out == OutFile(opts, s)
<1>1. /\ run[p].at = "clang" /\ files[ASMFile(s)].source = s /\ Exists(ASMFile(s))
      /\ out \in NamesMade(opts, s) /\ run[p].at \in HasASM
  BY ReliesAlone DEF ClangFails, NamesMade, HasASM
<1>2. Learnt(run[p], s)
  BY DEF Alone
<1>3. Outcome(opts, s) = "clang fails"
  <2>1. \/ out \in Unwritable \/ Kind[s] = "unencodable"
        \/ ~opts.compile_only /\ Kind[s] # "program"
    BY <1>1 DEF ClangFails, ClangSucceeds
  <2>2. Kind[s] \in {"program", "part", "unencodable"}
    BY <1>1, <1>2, KindAssumption
       DEF Learnt, HasRead, HasTAC, HasASM, Analyzed, Preprocessable, SourceKinds
  <2>. QED BY <1>1, <1>2, <2>1, <2>2 DEF Learnt, HasRead, HasTAC, HasASM, Analyzed, Outcome
<1>4. \A path : path \notin NamesMade(opts, s) => Unchanged(path)
  BY <1>1, FilesKept, WithoutOnly DEF ClangFails
<1>5. run'[p] = Ended(Failure) /\ OnlyOwnFiles(p)
  BY <1>4, NamesOnly, OnlyNames DEF ClangFails
<1>6. Failure % 256 = StatusOf("clang fails")
  BY DEF Failure, System, StatusOf
<1>. QED BY <1>3, <1>5, <1>6, AloneFails

LEMMA RemoveASMAlone ==
  ASSUME IInv, NEW p \in Running, Alone(p), Good(p), RemoveASM(p)
  PROVE  Settled(p)
<1> DEFINE opts == run[p].opts
           s == Source(p)
           out == OutFile(opts, s)
<1>1. /\ run[p].at \in HasASM /\ ASMFile(s) \in NamesMade(opts, s)
      /\ out \in DOMAIN files /\ files[out] = Content(s, Form(opts)) /\ out # ASMFile(s)
  BY ReliesAlone, NamesOfSource DEF RemoveASM, HasASM, NamesMade
<1>2. Outcome(opts, s) = "done"
  BY DEF Alone, Learnt, RemoveASM
<1>3. \A path : path \notin {ASMFile(s)} => Unchanged(path)
  BY WithoutOnly DEF RemoveASM
<1>4. out \in DOMAIN files' /\ files'[out] = Content(s, Form(opts))
  <2>1. Unchanged(out)
    BY <1>1, <1>3
  <2>. QED BY <1>1, <2>1 DEF Unchanged
<1>5. \A path : path \notin NamesMade(opts, s) => Unchanged(path)
  BY <1>1, <1>3
<1>6. run'[p] = Cleaned(run[p]) /\ OnlyOwnFiles(p)
  BY <1>5, NamesOnly, OnlyNames DEF RemoveASM
<1>. QED BY <1>1, <1>2, <1>4, <1>6, CleanedAlone

LEMMA RemoveTACAlone ==
  ASSUME IInv, NEW p \in Running, Alone(p), Good(p), RemoveTAC(p)
  PROVE  Settled(p)
<1> DEFINE opts == run[p].opts
           s == Source(p)
           out == OutFile(opts, s)
<1>1. out \in DOMAIN files /\ files[out] = Content(s, Form(opts)) /\ SameRun(run[p], p)
  BY ReliesAlone DEF RemoveTAC, SameRun
<1>2. Outcome(opts, s) = "done"
  BY DEF Alone, Learnt, RemoveTAC
<1>3. \A path : path \notin TACFilesRemoved(opts, s) => Unchanged(path)
  BY WithoutOnly DEF RemoveTAC
<1>4. out \notin TACFilesRemoved(opts, s) =>
        out \in DOMAIN files' /\ files'[out] = Content(s, Form(opts))
  BY <1>1, <1>3 DEF Unchanged
<1>5. \A path : path \notin NamesMade(opts, s) => Unchanged(path)
  BY <1>3 DEF NamesMade
<1>6. run'[p] = NextFile(run[p]) /\ OnlyOwnFiles(p)
  BY <1>5, NamesOnly, OnlyNames DEF RemoveTAC
<1>. QED BY <1>1, <1>2, <1>4, <1>6, AloneNext

LEMMA StepAlone ==
  ASSUME IInv, NEW p \in Running, Alone(p), Good(p), Step(p)
  PROVE  Settled(p)
BY PreprocessAlone, PreprocessFailsAlone, ParseAlone, TACAlone, ASMAlone, ClangAlone,
   ClangFailsAlone, RemoveASMAlone, RemoveTACAlone DEF Step

\* Nobody comes to have the directory for itself in the middle of its run.
LEMMA AloneBefore ==
  ASSUME IInv, NEW q \in Running, Step(q), Good(q), NEW p \in Running'
  PROVE  p \in Running /\ run'[p].alone = run[p].alone
<1>1. p \in Processes /\ q \in Processes /\ DOMAIN run = Processes /\ p \in Running
  BY DEF Running, IInv, Processed, Good, Frame, SameButRecord
<1>2. DOMAIN run[p] = DOMAIN Waiting
  BY <1>1 DEF IInv, Processed, ProcessOK
<1>3. CASE p # q
  <2>1. CASE \E r : Becomes(q, r)
    BY <1>1, <1>3, <2>1 DEF Becomes
  <2>2. CASE \E r : ReplacesTemp(q, r)
    BY <1>1, <1>2, <1>3, <2>2, WaitingFields DEF ReplacesTemp
  <2>. QED BY <1>1, <2>1, <2>2 DEF Step, RunPreprocessor, PreprocessorFails, Parse, GenerateTAC,
              GenerateASM, RunClang, ClangFails, RemoveASM, RemoveTAC
<1>4. CASE p = q
  <2>1. \A place : At(run[p], place).alone = run[p].alone
    BY <1>2, WaitingFields DEF At
  <2>2. ASSUME NEW r, DOMAIN r = DOMAIN Waiting, run'[p] = NextFile(r)
        PROVE  run'[p].alone = r.alone
    <3>1. run'[p].at # "exited"
      BY <1>1 DEF Running, Idle
    <3>. QED BY <2>2, <3>1, WaitingFields DEF NextFile, Ended, Waiting
  <2>3. \A status : run'[p] # Ended(status)
    BY DEF Running, Idle, Ended, Waiting
  <2> DEFINE parsed == [run[p] EXCEPT !.parsed = Append(@, files[Temp].source)]
  <2>4. /\ DOMAIN parsed = DOMAIN Waiting /\ parsed.alone = run[p].alone
        /\ \A place : At(parsed, place).alone = run[p].alone
    BY <1>2, WaitingFields DEF At
  <2>5. CASE Parse(p)
    <3>1. \/ run'[p] = At(parsed, "tac")
          \/ run'[p] = NextFile(parsed)
          \/ \E status : run'[p] = Ended(status)
      BY <1>1, <2>5, Parsing, Understanding DEF Becomes
    <3> HIDE DEF parsed
    <3>. QED BY <1>1, <2>2, <2>3, <2>4, <3>1
  <2>6. CASE ~Parse(p)
    <3>1. \/ \E place : run'[p] = At(run[p], place)
          \/ run'[p] = NextFile(run[p])
          \/ \E status : run'[p] = Ended(status)
      BY <1>1, <1>4, <2>6 DEF Step, RunPreprocessor, PreprocessorFails, GenerateTAC,
         GenerateASM, RunClang, ClangFails, RemoveASM, RemoveTAC, Becomes, ReplacesTemp,
         Linked, Cleaned
    <3>. QED BY <1>1, <1>2, <2>1, <2>2, <2>3, <3>1
  <2>. QED BY <1>1, <2>5, <2>6
<1>. QED BY <1>3, <1>4

LEMMA StartAlone ==
  ASSUME IInv, AloneInv, NEW q \in Processes, NEW arguments \in Arguments,
         StartMain(q, arguments)
  PROVE  /\ AloneInv'
         /\ \A p \in Running : run'[p].at = run[p].at
<1> DEFINE opts == ParseCommandLine(arguments)
           started == [Waiting EXCEPT !.at = "preprocess", !.file = 1, !.opts = opts,
                         !.alone = (Running = {}), !.before = IF Running = {} THEN files ELSE <<>>,
                         !.conflict = \E p \in Running : Meets(p, opts)]
<1>1. q \notin Running /\ files' = files /\ DOMAIN run = Processes
  BY DEF StartMain, Running, Idle, IInv, Processed
<1>2. \A p \in Processes : DOMAIN run[p] = DOMAIN Waiting
  BY DEF IInv, Processed, ProcessOK
<1>3. CASE opts.awaits_output \/ 1 \notin DOMAIN opts.files
  <2>1. run'[q].at = "exited" /\ \A p \in Processes \ {q} : run'[p] = run[p]
    BY <1>1, <1>3 DEF StartMain, Becomes, Ended, Waiting
  <2>2. Running' = Running
    BY <1>1, <2>1 DEF Running, Idle
  <2>3. \A p \in Running : run'[p] = run[p]
    BY <1>1, <2>1 DEF Running
  <2>4. ASSUME NEW p \in Running, run'[p].alone PROVE Alone(p)'
    <3>1. Alone(p) /\ run'[p] = run[p]
      BY <2>3, <2>4 DEF AloneInv
    <3>2. Source(p)' = Source(p)
      BY <3>1 DEF Source
    <3>. QED BY <1>1, <2>2, <3>1, <3>2 DEF Alone
  <2>. QED BY <2>2, <2>3, <2>4 DEF AloneInv
<1>4. CASE ~(opts.awaits_output \/ 1 \notin DOMAIN opts.files)
  <2>1. run' = [p \in Processes |->
                  IF p = q THEN started
                  ELSE IF p \in Running
                  THEN [run[p] EXCEPT !.alone = FALSE, !.before = <<>>,
                                      !.conflict = @ \/ Meets(p, opts)]
                  ELSE run[p]]
    BY <1>4 DEF StartMain
  <2>2. run'[q] = started
    BY <2>1
  <2>3. /\ started.at = "preprocess" /\ started.file = 1 /\ started.opts = opts
        /\ started.alone = (Running = {}) /\ started.swapped = {}
        /\ started.conflict = (\E p \in Running : Meets(p, opts))
    BY WaitingFields DEF Waiting
  <2> HIDE DEF started
  <2>4. \A p \in Running : run'[p].at = run[p].at /\ run'[p].alone = FALSE
    BY <1>1, <1>2, <2>1, WaitingFields DEF Running
  <2>5. \A p \in Processes \ (Running \cup {q}) : run'[p] = run[p]
    BY <2>1
  <2>6. Running' = Running \cup {q}
    BY <1>1, <2>2, <2>3, <2>4, <2>5 DEF Running, Idle
  <2>7. ASSUME run'[q].alone PROVE Alone(q)'
    <3>1. Running = {} /\ Running' = {q}
      BY <2>2, <2>3, <2>6, <2>7
    <3>2. run'[q].file - 1 = 0 /\ 1 .. 0 = {}
      BY <2>2, <2>3
    <3>3. Undisturbed(run'[q])
      BY <2>2, <2>3, <3>1 DEF Undisturbed
    <3>4. Learnt(run'[q], Source(q)')
      BY <2>2, <2>3 DEF Learnt, HasRead, HasTAC, HasASM
    <3>5. SoFar(run'[q].opts, 0) /\ Built(files', run'[q].opts, 0, run'[q].file)
      BY <3>2 DEF SoFar, Built
    <3>. QED BY <3>1, <3>2, <3>3, <3>4, <3>5 DEF Alone
  <2>. QED BY <2>4, <2>6, <2>7 DEF AloneInv
<1>. QED BY <1>3, <1>4

\* Each step, of whatever process, and how a process that is alone may end in it.
LEMMA NextAlone ==
  ASSUME IInv, AloneInv, [Next]_vars
  PROVE  /\ AloneInv'
         /\ \A p \in Running : run[p].alone => Verdict(p)
<1>1. ASSUME NEW q \in Processes, NEW arguments \in Arguments, StartMain(q, arguments)
      PROVE  AloneInv' /\ \A p \in Running : run[p].alone => Verdict(p)
  <2>1. AloneInv' /\ \A p \in Running : run'[p].at = run[p].at
    BY <1>1, StartAlone
  <2>. QED BY <2>1 DEF Verdict, Running, Idle
<1>2. ASSUME NEW q \in Processes, Step(q)
      PROVE  AloneInv' /\ \A p \in Running : run[p].alone => Verdict(p)
  <2>1. q \in Running /\ Good(q)
    BY <1>2, StepGood
  <2>2. ASSUME NEW p \in Running, run[p].alone PROVE p = q /\ Settled(p)
    <3>1. Alone(p)
      BY <2>2 DEF AloneInv
    <3>2. p = q
      BY <2>1, <3>1 DEF Alone
    <3>. QED BY <1>2, <2>1, <3>1, <3>2, StepAlone
  <2>3. ASSUME NEW p \in Running', run'[p].alone PROVE Alone(p)'
    <3>1. p \in Running /\ run[p].alone
      BY <1>2, <2>1, <2>3, AloneBefore
    <3>. QED BY <2>2, <2>3, <3>1 DEF Settled
  <2>. QED BY <2>2, <2>3 DEF AloneInv, Settled
<1>3. ASSUME NEW q \in Processes, Killed(q)
      PROVE  AloneInv' /\ \A p \in Running : run[p].alone => Verdict(p)
  <2>1. /\ q \in Running /\ files' = files /\ DOMAIN run = Processes
        /\ run'[q].at = "killed" /\ \A p \in Processes \ {q} : run'[p] = run[p]
    BY <1>3 DEF Killed, Becomes, At, Waiting, IInv, Processed
  <2>2. Running' = Running \ {q}
    BY <2>1 DEF Running, Idle
  <2>3. \A p \in Running' : ~run'[p].alone
    <3> SUFFICES ASSUME NEW p \in Running', run'[p].alone PROVE FALSE
      OBVIOUS
    <3>1. p \in Running /\ p # q /\ run'[p] = run[p]
      BY <2>1, <2>2 DEF Running
    <3>2. Running = {p}
      BY <3>1 DEF AloneInv, Alone
    <3>. QED BY <2>1, <3>1, <3>2
  <2>4. \A p \in Running : run'[p].at # "exited"
    BY <2>1 DEF Running, Idle
  <2>. QED BY <2>3, <2>4 DEF AloneInv, Verdict
<1>4. CASE UNCHANGED vars
  <2>1. files' = files /\ run' = run
    BY <1>4 DEF vars
  <2>2. AloneInv'
    BY <2>1 DEF AloneInv, Alone, Running, Source
  <2>. QED BY <2>1, <2>2 DEF Verdict, Running, Idle
<1>. QED BY <1>1, <1>2, <1>3, <1>4 DEF Next

-----------------------------------------------------------------------------
(* How it ended tells which of its sources were completed.                 *)

LEMMA AllCompleted ==
  ASSUME NEW opts, DOMAIN opts.files = 1 .. Len(opts.files), Len(opts.files) \in Nat,
         NEW n \in DOMAIN opts.files, n + 1 \notin DOMAIN opts.files, SoFar(opts, n)
  PROVE  Completed(opts) = 1 .. n /\ Stopped(opts) = {}
<1>1. DOMAIN opts.files = 1 .. n /\ n \in Nat
  OBVIOUS
<1>2. \A i \in 1 .. n : 1 .. i \subseteq 1 .. n
  BY <1>1
<1>3. Completed(opts) = 1 .. n
  BY <1>1, <1>2 DEF Completed, SoFar
<1>. QED BY <1>1, <1>3 DEF Stopped

LEMMA CompletedBefore ==
  ASSUME NEW opts, DOMAIN opts.files = 1 .. Len(opts.files), Len(opts.files) \in Nat,
         NEW n \in DOMAIN opts.files, SoFar(opts, n - 1),
         Outcome(opts, opts.files[n]) # "done"
  PROVE  Completed(opts) = 1 .. n - 1 /\ Stopped(opts) = {n}
<1>1. n \in Nat /\ n >= 1 /\ 1 .. n - 1 \subseteq DOMAIN opts.files
  OBVIOUS
<1>2. \A i \in 1 .. n - 1 : i \in Completed(opts)
  <2>1. \A i \in 1 .. n - 1 : 1 .. i \subseteq 1 .. n - 1
    BY <1>1
  <2>. QED BY <1>1, <2>1 DEF Completed, SoFar
<1>3. ASSUME NEW i \in Completed(opts) PROVE i \in 1 .. n - 1
  <2>1. i \in 1 .. Len(opts.files) /\ n \notin 1 .. i
    BY DEF Completed
  <2>. QED BY <1>1, <2>1
<1>4. Completed(opts) = 1 .. n - 1
  BY <1>2, <1>3
<1> HIDE DEF Completed
<1>5. \A i \in DOMAIN opts.files :
        (i \notin 1 .. n - 1 /\ i - 1 \in (1 .. n - 1) \cup {0}) <=> i = n
  BY <1>1
<1>. QED BY <1>4, <1>5 DEF Stopped

\* The sources up to the last one it looked at, from which on nothing is touched.
LEMMA TouchedIs ==
  ASSUME NEW opts, NEW n \in Nat, NEW i \in 1 .. n,
         Completed(opts) \cup Stopped(opts) = 1 .. n
  PROVE  TouchedLater(opts, i) = Touched(opts, i, n)
<1>1. {k \in Completed(opts) \cup Stopped(opts) : k > i} = i + 1 .. n
  OBVIOUS
<1>. QED BY <1>1 DEF TouchedLater, Touched

LEMMA EndingAlone ==
  ASSUME IInv, AloneInv, [Next]_vars, NEW p \in Processes, EndsAlone(p)
  PROVE  /\ run[p].opts.compile => BuildsAll(p)
         /\ run'[p].status = IF FoundByItself(run[p].opts, "rejected") THEN 1
                             ELSE IF FoundByItself(run[p].opts, "aborted") THEN Aborted
                             ELSE 0
<1> DEFINE opts == run[p].opts
           n == run[p].file
           outcome == Outcome(opts, Source(p))
<1>1. p \in Running /\ (EndsDone(p) \/ EndsFailing(p))
  BY NextAlone DEF EndsAlone, Verdict
<1>2. /\ DOMAIN opts.files = 1 .. Len(opts.files) /\ Len(opts.files) \in Nat
      /\ n \in DOMAIN opts.files /\ n \in Nat /\ Source(p) = opts.files[n]
  BY <1>1, SourcesOf
<1>3. ASSUME NEW m \in {n - 1, n}, Completed(opts) = 1 .. m,
             Completed(opts) \cup Stopped(opts) = 1 .. n,
             opts.compile, Built(files', opts, m, n)
      PROVE  BuildsAll(p)
  <2>1. \A i \in 1 .. m : i \in 1 .. n
    BY <1>2
  <2>2. \A i \in 1 .. m : TouchedLater(opts, i) = Touched(opts, i, n)
    BY <1>2, <1>3, <2>1, TouchedIs
  <2>. QED BY <1>3, <2>2 DEF Built, BuildsAll
<1>4. CASE EndsDone(p)
  <2>1. n + 1 \notin DOMAIN opts.files /\ SoFar(opts, n) /\ run'[p].status = 0
        /\ (opts.compile => Built(files', opts, n, n))
    BY <1>4 DEF EndsDone
  <2>2. Completed(opts) = 1 .. n /\ Stopped(opts) = {}
    BY <1>2, <2>1, AllCompleted
  <2>. QED BY <1>3, <2>1, <2>2 DEF FoundByItself
<1>5. CASE EndsFailing(p)
  <2>1. /\ SoFar(opts, n - 1) /\ outcome # "done" /\ run'[p].status = StatusOf(outcome)
        /\ opts.compile => Built(files', opts, n - 1, n)
    BY <1>5 DEF EndsFailing
  <2>2. Completed(opts) = 1 .. n - 1 /\ Stopped(opts) = {n}
    BY <1>2, <2>1, CompletedBefore
  <2>3. Completed(opts) \cup Stopped(opts) = 1 .. n
    BY <1>2, <2>2
  <2>4. /\ FoundByItself(opts, "rejected") <=> outcome = "rejected"
        /\ FoundByItself(opts, "aborted") <=> outcome = "aborted"
    BY <1>2, <2>2 DEF FoundByItself
  <2>. QED BY <1>3, <2>1, <2>2, <2>3, <2>4 DEF StatusOf
<1>. QED BY <1>1, <1>4, <1>5

LEMMA InitiallyAlone == Init => AloneInv
<1>1. Init => Running = {}
  BY DEF Init, Running, Idle, Waiting
<1>. QED BY <1>1 DEF AloneInv

(* A process that has the directory for itself, on whatever earlier and    *)
(* killed ones left there, ends with the output of every source up to the  *)
(* first that fails, made from that source; of what later sources of the   *)
(* same command line overwrite or remove nothing is said.                  *)
THEOREM RunsBuild == Spec => SequentialRunsBuild
<1>1. Init => IInv /\ AloneInv
  BY Initially, InitiallyAlone
<1>2. IInv /\ AloneInv /\ [Next]_vars => IInv' /\ AloneInv'
  BY StepInv, NextAlone
<1>3. IInv /\ AloneInv /\ [Next]_vars =>
        [\A p \in Processes : EndsAlone(p) /\ run[p].opts.compile => BuildsAll(p)]_vars
  BY EndingAlone
<1>. QED BY <1>1, <1>2, <1>3, PTL DEF Spec, SequentialRunsBuild

(* For any sources, of any kinds, and any options: the status of a process *)
(* that has the directory for itself is 1 if mlcc reported an error in the *)
(* first source that failed, that of an abort if an exception ended it     *)
(* there, and 0 also if a clang process failed.                            *)
THEOREM StatusOfErrors == Spec => StatusTellsOnlyOwnErrors
<1>1. Init => IInv /\ AloneInv
  BY Initially, InitiallyAlone
<1>2. IInv /\ AloneInv /\ [Next]_vars => IInv' /\ AloneInv'
  BY StepInv, NextAlone
<1>3. IInv /\ AloneInv /\ [Next]_vars =>
        [\A p \in Processes : EndsAlone(p) =>
           run'[p].status = IF FoundByItself(run[p].opts, "rejected") THEN 1
                            ELSE IF FoundByItself(run[p].opts, "aborted") THEN Aborted
                            ELSE 0]_vars
  BY EndingAlone
<1>. QED BY <1>1, <1>2, <1>3, PTL DEF Spec, StatusTellsOnlyOwnErrors
=============================================================================
