--------------------------- MODULE CompilerProcess ---------------------------
(***************************************************************************)
(* Processes running the compiler in one directory: main and the parts of  *)
(* Driver::CompileFile that touch the file system.  For each source file a *)
(* process runs clang -E, compiles what that left in the one temporary     *)
(* file, runs clang on the assembly and removes what it need not keep.     *)
(* Steps of different processes interleave between any two accesses to     *)
(* the file system, and a process may be killed anywhere.                  *)
(*                                                                         *)
(* A path is the sequence of the parts of its name between the dots, so    *)
(* a.tac.txt is <<"a", "tac", "txt">>.  A file holds the form in which it  *)
(* is and the source it was made from.  Writing a file is one step.        *)
(***************************************************************************)
EXTENDS Integers, SequencesExt

CONSTANTS
  Processes,     \* the processes, each of which runs once
  Arguments,     \* the command lines
  Kind,          \* what each existing source file is, see SourceKinds
  Unwritable     \* paths that cannot be opened for writing

\* A program has a main and links by itself, a part has none.  The other kinds
\* name where a source fails first: clang -E fails on a broken one, the parser
\* reports an error in a malformed one, the constructor of a specifier or a
\* declarator throws in the parser on a throwing one (int int x;), the analysis
\* reports an error in an ill-typed one, the translation to TAC throws on an
\* untranslatable one (while (x[0]);), the code generator throws on an exhausting
\* one, and clang cannot assemble what is made of an unencodable one (!1.5).
SourceKinds == {"program", "part", "broken", "malformed", "throwing", "ill-typed",
                "untranslatable", "exhausting", "unencodable"}

ASSUME KindAssumption ==
  \A source \in DOMAIN Kind : Kind[source] \in SourceKinds /\ Len(source) > 1

NoPath == <<>>
Temp   == <<"tmp_preprocessed", "c">>
Aborted == 134     \* what the shell reports of a process that called abort

VARIABLES
  files,         \* the file system: what the file of a path holds
  run            \* the processes

vars == <<files, run>>

Content(source, form) == [source |-> source, form |-> form]
Exists(path)        == path \in DOMAIN files
Written(path, c)    == [x \in DOMAIN files \cup {path} |-> IF x = path THEN c ELSE files[x]]
Without(paths)      == Restrict(files, DOMAIN files \ paths)

\* Driver::ReplaceExtension and path::replace_extension agree on these names.
ReplaceExtension(path, extension) ==
  (IF Len(path) > 1 THEN Front(path) ELSE path) \o extension

-----------------------------------------------------------------------------
(* The command line.  After -o any argument is the output's name.          *)
NoOptions == [compile |-> TRUE, keep_asm |-> FALSE, keep_tac |-> FALSE, compile_only |-> FALSE,
              output_file |-> NoPath, files |-> <<>>, awaits_output |-> FALSE]

ParseArgument(opts, arg) ==
  IF opts.awaits_output THEN [opts EXCEPT !.output_file = arg, !.awaits_output = FALSE]
  ELSE CASE arg = <<"--print-ast-only">> -> [opts EXCEPT !.compile = FALSE]
         [] arg = <<"--keep-asm">>       -> [opts EXCEPT !.keep_asm = TRUE]
         [] arg = <<"--keep-tac">>       -> [opts EXCEPT !.keep_tac = TRUE]
         [] arg = <<"-c">>               -> [opts EXCEPT !.compile_only = TRUE]
         [] arg = <<"-o">>               -> [opts EXCEPT !.awaits_output = TRUE]
         [] OTHER                        -> [opts EXCEPT !.files = Append(@, arg)]

ParseCommandLine(arguments) == FoldLeft(ParseArgument, NoOptions, arguments)

\* The names of the files made from a source.
TACFile(source) == ReplaceExtension(source, <<"tac", "txt">>)
ASMFile(source) == ReplaceExtension(source, <<"s">>)

\* The path main goes on with after it has named the output: replace_extension
\* changes the path itself.
PathAfterOutput(opts, source) ==
  LET path == ASMFile(source)
  IN  IF opts.output_file # NoPath THEN path
      ELSE ReplaceExtension(path, IF opts.compile_only THEN <<"o">> ELSE <<>>)

OutFile(opts, source) ==
  IF opts.output_file # NoPath THEN opts.output_file ELSE PathAfterOutput(opts, source)

\* Mutant: the TAC file is removed under the name the driver gave it.
TACFileOfSource(opts, source) == {TACFile(source)}

\* The paths the end of the loop removes: the extension of the path left by
\* naming the output is replaced, and then once more.
TACFilesRemoved(opts, source) ==
  LET tac_file == ReplaceExtension(PathAfterOutput(opts, source), <<"tac", "txt">>)
  IN  {tac_file, ReplaceExtension(tac_file, <<"tac_optimized", "txt">>)}

\* All paths a process may touch besides Temp.
NamesMade(opts, source) ==
  {TACFile(source), ASMFile(source), OutFile(opts, source)} \cup TACFilesRemoved(opts, source)

NamesUsed(opts) ==
  UNION {{opts.files[i]} \cup NamesMade(opts, opts.files[i]) : i \in DOMAIN opts.files}

\* The sources are arguments, and nobody asks for an output in place of a source,
\* of the assembly it is made of or of the file in the directory for temporary ones.
ASSUME ArgumentsAssumption ==
  \A arguments \in Arguments :
    LET opts == ParseCommandLine(arguments)
    IN  /\ opts.files \in Seq(Range(arguments))
        /\ \A i \in DOMAIN opts.files :
             /\ NamesMade(opts, opts.files[i]) \cap (DOMAIN Kind \cup {Temp}) = {}
             /\ OutFile(opts, opts.files[i]) # ASMFile(opts.files[i])

-----------------------------------------------------------------------------
(* A process: where it is, its options, the file it is at, the sources it  *)
(* read from Temp one after the other, and its status.  The rest only      *)
(* records what else happened while it ran: the file system at its start,  *)
(* whether it had that for itself, whether another running process uses    *)
(* the same names, and at which files another one replaced Temp.           *)
Waiting == [at |-> "waiting", opts |-> NoOptions, file |-> 0, parsed |-> <<>>, status |-> 0,
            before |-> <<>>, alone |-> TRUE, conflict |-> FALSE, swapped |-> {}]
Idle    == {"waiting", "exited", "killed"}
Running == {p \in Processes : run[p].at \notin Idle}

Source(p)     == run[p].opts.files[run[p].file]
Becomes(p, r) == run' = [run EXCEPT ![p] = r]
At(r, place)  == [r EXCEPT !.at = place]

\* Mutant: every status but 0 is an error.
EndedWithSign(status) ==
  [Waiting EXCEPT !.at = "exited", !.status = IF status = 0 THEN 0 ELSE 1]

\* A process ends with the low eight bits of the status it returns.
Ended(status) == [Waiting EXCEPT !.at = "exited", !.status = status % 256]

\* The status of std::system for a command that ended with this code.
System(code) == code * 256
Failure == System(1)

NextFile(r) == IF r.file + 1 \in DOMAIN r.opts.files
               THEN [r EXCEPT !.at = "preprocess", !.file = @ + 1]
               ELSE Ended(0)

\* After clang the assembly is removed, then the TAC files, unless they are kept.
Cleaned(r) == IF r.opts.keep_tac THEN NextFile(r) ELSE At(r, "remove tac")
Linked(r)  == IF r.opts.keep_asm THEN Cleaned(r) ELSE At(r, "remove asm")

Preprocessable(source) == source \in DOMAIN Kind /\ Kind[source] # "broken"

Meets(p, opts) == NamesUsed(opts) \cap NamesUsed(run[p].opts) # {}

Init ==
  /\ files = [source \in DOMAIN Kind |-> Content(source, "C")]
  /\ run = [p \in Processes |-> Waiting]

\* main parses the command line before it does anything else.
StartMain(p, arguments) ==
  LET opts    == ParseCommandLine(arguments)
      started == [Waiting EXCEPT !.at = "preprocess", !.file = 1, !.opts = opts,
                    !.alone = (Running = {}), !.before = IF Running = {} THEN files ELSE <<>>,
                    !.conflict = \E q \in Running : Meets(q, opts)]
  IN  /\ run[p].at = "waiting"
      /\ IF opts.awaits_output \/ 1 \notin DOMAIN opts.files
         THEN Becomes(p, Ended(1))
         ELSE run' = [q \in Processes |->
                IF q = p THEN started
                ELSE IF q \in Running
                THEN [run[q] EXCEPT !.alone = FALSE, !.before = <<>>,
                                    !.conflict = @ \/ Meets(q, opts)]
                ELSE run[q]]
      /\ files' = files

\* Every other process about to read Temp will find what p did to it.
ReplacesTemp(p, r) ==
  run' = [q \in Processes |->
            IF q = p THEN r
            ELSE IF run[q].at = "parse" THEN [run[q] EXCEPT !.swapped = @ \cup {run[q].file}]
            ELSE run[q]]

\* Mutant: a file that is there already is not made again.
PreprocessesOnce(p) ==
  /\ run[p].at = "preprocess"
  /\ Preprocessable(Source(p))
  /\ files' = IF Exists(Temp) THEN files ELSE Written(Temp, Content(Source(p), "preprocessed"))
  /\ ReplacesTemp(p, At(run[p], "parse"))

\* clang -E puts its output in place only when it is complete.
RunPreprocessor(p) ==
  /\ run[p].at = "preprocess"
  /\ Preprocessable(Source(p))
  /\ files' = Written(Temp, Content(Source(p), "preprocessed"))
  /\ ReplacesTemp(p, At(run[p], "parse"))

\* A failing clang leaves the output as it was or removes it.
PreprocessorFails(p) ==
  /\ run[p].at = "preprocess"
  /\ ~Preprocessable(Source(p))
  /\ \/ Becomes(p, Ended(Failure)) /\ files' = files
     \/ ReplacesTemp(p, Ended(Failure)) /\ files' = Without({Temp})

\* An exception of the parser is caught by nobody, and the analysis is only run
\* where code is to be made.
Understood(opts, kind) ==
  CASE kind = "malformed"                   -> "rejected"
    [] kind = "throwing"                    -> "aborted"
    [] kind = "ill-typed" /\ opts.compile   -> "rejected"
    [] OTHER                                -> "understood"

(* Scan, Parse and AnalyzeSemantics read Temp and nothing else; where it   *)
(* is missing there is no translation unit to parse.                       *)
Parse(p) ==
  LET parsed == [run[p] EXCEPT !.parsed = Append(@, files[Temp].source)]
      result == IF Exists(Temp) THEN Understood(run[p].opts, Kind[files[Temp].source])
                ELSE "rejected"
  IN  /\ run[p].at = "parse"
      /\ Becomes(p, CASE result = "rejected"   -> Ended(1)
                      [] result = "aborted"    -> Ended(Aborted)
                      [] result = "understood" -> IF run[p].opts.compile THEN At(parsed, "tac")
                                                  ELSE NextFile(parsed))
      /\ files' = files

\* The TACVisitor throws before the file is opened.
GenerateTAC(p) ==
  LET tac_file       == TACFile(Source(p))
      untranslatable == Kind[Last(run[p].parsed)] = "untranslatable"
  IN  /\ run[p].at = "tac"
      /\ IF untranslatable \/ tac_file \in Unwritable
         THEN Becomes(p, Ended(IF untranslatable THEN Aborted ELSE 1)) /\ files' = files
         ELSE /\ files' = Written(tac_file, Content(Last(run[p].parsed), "TAC"))
              /\ Becomes(p, At(run[p], "asm"))

\* The IRBuilder, too, throws before the file is opened.
GenerateASM(p) ==
  LET asm_file  == ASMFile(Source(p))
      exhausted == Kind[Last(run[p].parsed)] = "exhausting"
  IN  /\ run[p].at = "asm"
      /\ IF exhausted \/ asm_file \in Unwritable
         THEN Becomes(p, Ended(IF exhausted THEN Aborted ELSE 1)) /\ files' = files
         ELSE /\ files' = Written(asm_file, Content(Last(run[p].parsed), "assembly"))
              /\ Becomes(p, At(run[p], "clang"))

ClangSucceeds(p) ==
  LET asm_file == ASMFile(Source(p))
  IN  /\ Exists(asm_file) /\ OutFile(run[p].opts, Source(p)) \notin Unwritable
      /\ Kind[files[asm_file].source] # "unencodable"
      /\ run[p].opts.compile_only \/ Kind[files[asm_file].source] = "program"

RunClang(p) ==
  /\ run[p].at = "clang" /\ ClangSucceeds(p)
  /\ files' = Written(OutFile(run[p].opts, Source(p)),
                      Content(files[ASMFile(Source(p))].source,
                              IF run[p].opts.compile_only THEN "object" ELSE "program"))
  /\ Becomes(p, Linked(run[p]))

ClangFails(p) ==
  /\ run[p].at = "clang" /\ ~ClangSucceeds(p)
  /\ files' \in {files, Without({OutFile(run[p].opts, Source(p))} \ Unwritable)}
  /\ Becomes(p, Ended(Failure))

RemoveASM(p) ==
  /\ run[p].at = "remove asm"
  /\ files' = Without({ASMFile(Source(p))})
  /\ Becomes(p, Cleaned(run[p]))

\* Mutant: the path is removed before its extension is replaced.
RemoveOutput(p) ==
  /\ run[p].at = "remove tac"
  /\ files' = Without({PathAfterOutput(run[p].opts, Source(p))})
  /\ Becomes(p, NextFile(run[p]))

RemoveTAC(p) ==
  /\ run[p].at = "remove tac"
  /\ files' = Without(TACFilesRemoved(run[p].opts, Source(p)))
  /\ Becomes(p, NextFile(run[p]))

\* A signal may end a process between any two steps.
Killed(p) ==
  /\ p \in Running
  /\ Becomes(p, At(Waiting, "killed"))
  /\ files' = files

Step(p) == \/ RunPreprocessor(p) \/ PreprocessorFails(p) \/ Parse(p)
           \/ GenerateTAC(p) \/ GenerateASM(p)
           \/ RunClang(p) \/ ClangFails(p) \/ RemoveASM(p) \/ RemoveTAC(p)

Next == \E p \in Processes :
  \/ \E arguments \in Arguments : StartMain(p, arguments)
  \/ Step(p)
  \/ Killed(p)

Spec == Init /\ [][Next]_vars

-----------------------------------------------------------------------------
(* What a run is for.  How it ends with one source, when nothing else runs. *)
Outcome(opts, s) ==
  IF ~Preprocessable(s)                THEN "clang fails"
  ELSE IF Kind[s] = "malformed"        THEN "rejected"
  ELSE IF Kind[s] = "throwing"         THEN "aborted"
  ELSE IF ~opts.compile                THEN "done"
  ELSE IF Kind[s] = "ill-typed"        THEN "rejected"
  ELSE IF Kind[s] = "untranslatable"   THEN "aborted"
  ELSE IF TACFile(s) \in Unwritable    THEN "rejected"
  ELSE IF Kind[s] = "exhausting"       THEN "aborted"
  ELSE IF ASMFile(s) \in Unwritable    THEN "rejected"
  ELSE IF \/ OutFile(opts, s) \in Unwritable
          \/ Kind[s] = "unencodable"
          \/ Kind[s] = "part" /\ ~opts.compile_only
       THEN "clang fails"              ELSE "done"

\* The kinds of sources for which no TAC file is opened.
NoTAC == {"malformed", "throwing", "ill-typed", "untranslatable"}

\* The sources before the first that fails, and that one.
Completed(opts) == {i \in DOMAIN opts.files : \A j \in 1 .. i : Outcome(opts, opts.files[j]) = "done"}
Stopped(opts)   == {i \in DOMAIN opts.files \ Completed(opts) : i - 1 \in Completed(opts) \cup {0}}

EndsAlone(p) == run[p].alone /\ p \in Running /\ run'[p].at = "exited"
Form(opts)   == IF opts.compile_only THEN "object" ELSE "program"

\* The paths that may be removed or made anew after source i has its output.
TouchedLater(opts, i) ==
  TACFilesRemoved(opts, opts.files[i])
    \cup UNION {NamesMade(opts, opts.files[j]) :
                j \in {k \in Completed(opts) \cup Stopped(opts) : k > i}}

BuildsAll(p) ==
  LET opts   == run[p].opts
      out(i) == OutFile(opts, opts.files[i])
  IN  \A i \in Completed(opts) : out(i) \notin TouchedLater(opts, i) =>
        /\ out(i) \in DOMAIN files'
        /\ files'[out(i)] = Content(opts.files[i], Form(opts))

(* A process that had the directory for itself, whatever earlier and       *)
(* killed processes left there, has made the output of every source up to  *)
(* the first that fails, each from its own source.  Of several sources     *)
(* with one output (-o) the last is left, and of an output that has the    *)
(* name of a file made or removed later nothing is said.                   *)
SequentialRunsBuild ==
  [][\A p \in Processes : EndsAlone(p) /\ run[p].opts.compile => BuildsAll(p)]_vars

FoundByItself(opts, outcome) ==
  \E i \in Stopped(opts) : Outcome(opts, opts.files[i]) = outcome

(* The status of a process that had the directory for itself tells of an   *)
(* error exactly if mlcc itself found it: 1 if it reported one in the      *)
(* first source that failed, that of an abort if an exception ended it,    *)
(* and 0 all the same when it was one of the clang processes that failed.  *)
StatusTellsOnlyOwnErrors ==
  [][\A p \in Processes : EndsAlone(p) =>
       run'[p].status = IF FoundByItself(run[p].opts, "rejected") THEN 1
                        ELSE IF FoundByItself(run[p].opts, "aborted") THEN Aborted
                        ELSE 0]_vars

\* Without -c and -o, the TAC file is looked for one dot too early.
NameCutTwice(opts, s) == ~opts.compile_only /\ opts.output_file = NoPath /\ Len(s) > 2
TACOf(opts, s) == IF NameCutTwice(opts, s) THEN TACFile(Front(s)) ELSE TACFile(s)

(* A process that had the directory for itself leaves the files that were  *)
(* there, what it was told to keep, and what a failing source had come to; *)
(* but of a source with two dots in its name it leaves the TAC file, and   *)
(* removes the one of the source named up to the first dot.                *)
LeavesExactlyWhatIsKept ==
  [][\A p \in Processes : EndsAlone(p) /\ run[p].opts.compile =>
       LET opts    == run[p].opts
           done    == {opts.files[i] : i \in Completed(opts)}
           failed  == {opts.files[i] : i \in Stopped(opts)}
           outputs == {OutFile(opts, s) : s \in done \cup failed} \cup {Temp}
           made    == {ASMFile(s) : s \in done} \cup {TACFile(s) : s \in done}
           removed == (IF opts.keep_asm THEN {} ELSE {ASMFile(s) : s \in done})
                      \cup (IF opts.keep_tac THEN {} ELSE {TACOf(opts, s) : s \in done})
           left    == {ASMFile(s) : s \in {t \in failed : Preprocessable(t) /\ Outcome(opts, t) = "clang fails"}}
                      \cup {TACFile(s) : s \in {t \in failed : /\ Preprocessable(t) /\ Kind[t] \notin NoTAC
                                                             /\ TACFile(t) \notin Unwritable}}
       IN  /\ DOMAIN files' \ outputs = (((DOMAIN run[p].before \cup made) \ removed) \cup left) \ outputs
           /\ \A x \in DOMAIN run[p].before \ (outputs \cup made \cup left \cup removed) :
                files'[x] = run[p].before[x]]_vars

(* Processes that run at the same time on different names disturb each     *)
(* other only through Temp: what a process makes is of the file it read,   *)
(* and that is its own unless another one replaced Temp since its own      *)
(* preprocessor ran.                                                       *)
MixUpsOnlyThroughTemp ==
  \A p \in Running : run[p].at \in {"asm", "clang", "remove asm", "remove tac"} /\ ~run[p].conflict =>
    LET read == run[p].parsed[run[p].file]
        holds(path, form) == Exists(path) /\ files[path] = Content(read, form)
    IN  /\ run[p].at = "clang" => holds(ASMFile(Source(p)), "assembly")
        /\ run[p].at \in {"remove asm", "remove tac"} => holds(OutFile(run[p].opts, Source(p)), Form(run[p].opts))
        /\ run[p].file \notin run[p].swapped => read = Source(p)
=============================================================================
