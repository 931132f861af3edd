----------------------------- MODULE ProgramCache -----------------------------
(***************************************************************************)
(* The compiled programs of the MP-SPDZ directory of a host, shared by all *)
(* its processes (programhandler.py).  A program is found compiled by the  *)
(* hash of its text, of the libraries it imports and of the domain of its  *)
(* protocol.  Between the hash, the check of the files, the copies and the *)
(* compiler, programs may be edited and other processes compile.           *)
(*                                                                         *)
(* A file of that directory is opened, which empties it, and written       *)
(* later.  In between it is there and torn, and it stays so if the writer  *)
(* fails or is killed.  What is read of a torn file is torn.  The files of *)
(* the working directory change in one step.                               *)
(*                                                                         *)
(* The compiler is external: it reads the source and the libraries of the  *)
(* directory, then writes the schedule and the bytecode in some order, and *)
(* may fail at any time; what it writes depends on what it read and on the *)
(* options only.  A text is its version.                                   *)
(***************************************************************************)
EXTENDS Naturals, Optional

CONSTANTS
  Procs,
  Configs,     \* the protocols and moduli a process may be configured with
  Domain,      \* domain of the protocol of each configuration
  MaxFileEdits,    \* bound: how often program and libraries are edited
  MaxTurns,    \* bound: how many programs are compiled or found compiled
  Torn         \* what is in a file that was opened and not written to its end

FileVersion == 0 .. MaxFileEdits
Hash == [text : FileVersion, library : FileVersion, domain : {Domain[c] : c \in Configs}]
Code == [text : FileVersion \cup {Torn}, library : FileVersion \cup {Torn}, config : Configs]
Output == {"Schedules", "Bytecode"}

ASSUME CacheAssumption ==
  /\ MaxFileEdits \in Nat
  /\ None # Torn /\ {None, Torn} \cap (FileVersion \cup Code \cup Output \cup {"Source", "Dependencies"}) = {}

VARIABLES
  program, library,  \* versions in the working directory
  Source,            \* Programs/Source: the text under each hash
  Dependencies,      \* version of the libraries copied to the compiler
  compiled,          \* for each output folder and hash, what it was compiled from
  work,              \* what each process is at
  turns,
  disturbed          \* history: what happened under each hash that may leave an output torn

cacheVars == <<program, library, Source, Dependencies, compiled, work, turns, disturbed>>

NoFiles == [o \in Output |-> None]
Idle == [step |-> "idle", config |-> None, temp |-> None, hash |-> None, code |-> None,
         open |-> None, todo |-> {}, workdir |-> NoFiles]

CacheInit ==
  /\ program = 0 /\ library = 0
  /\ Source = [h \in Hash |-> None] /\ Dependencies = None
  /\ compiled = [o \in Output |-> [h \in Hash |-> None]]
  /\ work = [p \in Procs |-> Idle]
  /\ turns = 0
  /\ disturbed = [h \in Hash |-> {}]

EditProgram ==
  /\ program + library < MaxFileEdits /\ program' = program + 1
  /\ UNCHANGED <<library, Source, Dependencies, compiled, work, turns, disturbed>>

EditLibrary ==
  /\ program + library < MaxFileEdits /\ library' = library + 1
  /\ UNCHANGED <<program, Source, Dependencies, compiled, work, turns, disturbed>>

\* The text with the substitutions goes to a temporary file of its own.
perform_substitution(p, c) ==
  /\ work[p].step = "idle"
  /\ turns < MaxTurns /\ turns' = turns + 1
  /\ work' = [work EXCEPT ![p] = [Idle EXCEPT !.step = "hash", !.config = c, !.temp = program]]
  /\ UNCHANGED <<program, library, Source, Dependencies, compiled, disturbed>>

\* Of the configuration only the domain counts, not the modulus.
HashOf(text, lib, c) == [text |-> text, library |-> lib, domain |-> Domain[c]]

get_hash(p) ==
  /\ work[p].step = "hash"
  /\ work' = [work EXCEPT ![p].step = "check", ![p].hash = HashOf(work[p].temp, library, work[p].config)]
  /\ UNCHANGED <<program, library, Source, Dependencies, compiled, turns, disturbed>>

(***************************************************************************)
(* Files of the MP-SPDZ directory                                          *)
(***************************************************************************)

\* Another process has the file open.  The folder of the libraries is the same for all
\* programs.
Shared(p, f) ==
  \E q \in Procs \ {p} : work[q].open = f /\ (f = "Dependencies" \/ work[q].hash = work[p].hash)

\* What a file may hold when its writer is done.  Another writer may have emptied it
\* meanwhile, or have left some other content of which the end is still there.
Written(old, new, shared) == {new} \cup (IF shared \/ old \notin {Torn, new} THEN {Torn} ELSE {})

\* A process is at a compilation, from the check of the files to the end of the compiler.
Compiling(p, h) == work[p].hash = h /\ work[p].step \in {"copying", "copied", "importing", "ready", "writing"}

\* History: a process goes on with the files of a program that another one compiles; and a
\* process ends for this reason while it has an output open.
Overlaps(p) ==
  disturbed' = [disturbed EXCEPT ![work[p].hash] =
                  IF \E q \in Procs \ {p} : Compiling(q, work[p].hash) THEN @ \cup {"overlap"} ELSE @]
Leaves(p, reason) ==
  disturbed' = IF work[p].open \in Output THEN [disturbed EXCEPT ![work[p].hash] = @ \cup {reason}] ELSE disturbed

(***************************************************************************)
(* Check, copies and compiler                                              *)
(***************************************************************************)

\* Mutant: the schedule stands for all files.
no_schedule(h) == IF Source[h] = None \/ compiled["Schedules"][h] = None THEN {"update"} ELSE {"found"}

\* The source, the schedule and every tape it names have to be there, torn or not.  Of torn
\* bytecode some tapes may not be there.  A torn schedule may name too few tapes, which is
\* an exception, or tapes that are not there.
check_program_update(h) ==
  LET schedule == compiled["Schedules"][h]
      tapes    == compiled["Bytecode"][h]
  IN  IF Source[h] = None \/ schedule = None THEN {"update"}
      ELSE (IF tapes = None THEN {} ELSE {"found"})
           \cup (IF tapes \in {None, Torn} \/ schedule = Torn THEN {"update"} ELSE {})
           \cup (IF schedule = Torn THEN {"raised"} ELSE {})

FoundCompiled(p) ==
  /\ work[p].step = "check" /\ "found" \in check_program_update(work[p].hash)
  /\ work' = [work EXCEPT ![p].step = "compiled", ![p].temp = None]
  /\ Overlaps(p)
  /\ UNCHANGED <<program, library, Source, Dependencies, compiled, turns>>

\* Nothing catches this exception, and nothing is cleaned up.
CheckRaises(p) ==
  /\ work[p].step = "check" /\ "raised" \in check_program_update(work[p].hash)
  /\ work' = [work EXCEPT ![p] = Idle]
  /\ UNCHANGED <<program, library, Source, Dependencies, compiled, turns, disturbed>>

OpenSource(p) ==
  /\ work[p].step = "check" /\ "update" \in check_program_update(work[p].hash)
  /\ Source' = [Source EXCEPT ![work[p].hash] = Torn]
  /\ work' = [work EXCEPT ![p].step = "copying", ![p].open = "Source"]
  /\ Overlaps(p)
  /\ UNCHANGED <<program, library, Dependencies, compiled, turns>>

CopySource(p) ==
  /\ work[p].step = "copying"
  /\ \E t \in Written(Source[work[p].hash], work[p].temp, Shared(p, "Source")) :
       Source' = [Source EXCEPT ![work[p].hash] = t]
  /\ work' = [work EXCEPT ![p].step = "copied", ![p].open = None, ![p].temp = None]
  /\ UNCHANGED <<program, library, Dependencies, compiled, turns, disturbed>>

OpenDependencies(p) ==
  /\ work[p].step = "copied"
  /\ Dependencies' = Torn
  /\ work' = [work EXCEPT ![p].step = "importing", ![p].open = "Dependencies"]
  /\ UNCHANGED <<program, library, Source, compiled, turns, disturbed>>

CopyDependencies(p) ==
  /\ work[p].step = "importing"
  /\ Dependencies' \in Written(Dependencies, library, Shared(p, "Dependencies"))
  /\ work' = [work EXCEPT ![p].step = "ready", ![p].open = None]
  /\ UNCHANGED <<program, library, Source, compiled, turns, disturbed>>

StartCompiler(p) ==
  /\ work[p].step = "ready"
  /\ work' = [work EXCEPT ![p].step = "writing", ![p].todo = Output,
                ![p].code = [text |-> Source[work[p].hash], library |-> Dependencies, config |-> work[p].config]]
  /\ UNCHANGED <<program, library, Source, Dependencies, compiled, turns, disturbed>>

OpenOutput(p, o) ==
  /\ work[p].step = "writing" /\ work[p].open = None /\ o \in work[p].todo
  /\ compiled' = [compiled EXCEPT ![o][work[p].hash] = Torn]
  /\ work' = [work EXCEPT ![p].open = o]
  /\ UNCHANGED <<program, library, Source, Dependencies, turns, disturbed>>

WriteOutput(p, o) ==
  LET last == work[p].todo = {o} IN
  /\ work[p].step = "writing" /\ work[p].open = o
  /\ \E c \in Written(compiled[o][work[p].hash], work[p].code, Shared(p, o)) :
       compiled' = [compiled EXCEPT ![o][work[p].hash] = c]
  /\ work' = [work EXCEPT ![p].open = None, ![p].todo = work[p].todo \ {o},
                         ![p].step = IF last THEN "compiled" ELSE "writing",
                         ![p].code = IF last THEN None ELSE work[p].code]
  /\ UNCHANGED <<program, library, Source, Dependencies, turns, disturbed>>

\* delete_hashes returns without a schedule, raises if it is torn, and otherwise looks for
\* the files at the directory's path with another absolute path appended, where none is.
delete_hashes(h) == UNCHANGED <<Source, compiled>>

\* A copy, the compiler or an upload fails; the exception ends the computation.
exit_after_error(p) ==
  /\ work[p].step \in {"copying", "copied", "importing", "ready", "writing", "compiled"}
  /\ delete_hashes(work[p].hash)
  /\ work' = [work EXCEPT ![p] = Idle]
  /\ Leaves(p, "failed")
  /\ UNCHANGED <<program, library, Dependencies, turns>>

\* The schedule first, then the tapes it names, to the work directory of the process.
upload_compiled_program(p, o) ==
  /\ work[p].step = "compiled" /\ work[p].workdir[o] = None
  /\ o = "Bytecode" => work[p].workdir["Schedules"] # None
  /\ work' = [work EXCEPT ![p].workdir[o] = compiled[o][work[p].hash],
                          ![p].step = IF o = "Bytecode" THEN "uploaded" ELSE "compiled"]
  /\ UNCHANGED <<program, library, Source, Dependencies, compiled, turns, disturbed>>

\* The computation is over, or the process is killed and the compiler with it.
EndOfWork(p) ==
  /\ work[p].step # "idle"
  /\ work' = [work EXCEPT ![p] = Idle]
  /\ Leaves(p, "killed")
  /\ UNCHANGED <<program, library, Source, Dependencies, compiled, turns>>

CompileStep(p) ==
  \/ get_hash(p) \/ FoundCompiled(p) \/ CheckRaises(p) \/ OpenSource(p) \/ CopySource(p)
  \/ OpenDependencies(p) \/ CopyDependencies(p) \/ StartCompiler(p)
  \/ \E o \in Output : OpenOutput(p, o) \/ WriteOutput(p, o)
EditFiles == EditProgram \/ EditLibrary

CacheNext ==
  \/ EditFiles
  \/ \E p \in Procs : \/ \E c \in Configs : perform_substitution(p, c)
                      \/ CompileStep(p) \/ exit_after_error(p) \/ EndOfWork(p)
                      \/ \E o \in Output : upload_compiled_program(p, o)

CacheSpec == CacheInit /\ [][CacheNext]_cacheVars

(***************************************************************************)
(* Properties                                                              *)
(***************************************************************************)

\* Nothing happened under a hash that the check of its files cannot see.
Undisturbed(h) == disturbed[h] = {}

\* A process runs a program of which it has all files, each to its end, compiled from the
\* very text it hashed and for the domain of its protocol, whatever others edit, copy and
\* compile and wherever compilations failed or were killed - unless one of this hash ended
\* while it wrote an output, or met another process with the files of the same hash.  Of
\* libraries and modulus nothing is said: the first are shared by all programs, and the
\* second is not part of the hash (programhandler.py:42-79, 173-186, 210-219).
UploadedIsWholeAndOfItsText ==
  \A p \in Procs : work[p].step = "uploaded" /\ Undisturbed(work[p].hash) =>
    \A o \in Output :
      LET code == work[p].workdir[o] IN
      code \notin {None, Torn} /\ code.text = work[p].hash.text /\ Domain[code.config] = work[p].hash.domain
===============================================================================
