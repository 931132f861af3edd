--------------------------- MODULE ProgramAnalysis ---------------------------
(***************************************************************************)
(* What the program handler finds out about a program before it is         *)
(* compiled: the timers it uses, with numbers for those that only have a   *)
(* name (determine_program_timers), and the libraries it imports, which go *)
(* into its hash and to the compiler (get_dependencies_for_program).       *)
(***************************************************************************)
EXTENDS Naturals, FiniteSets, Optional

Sets == INSTANCE FiniteSetsExt

CONSTANTS
  File,        \* the files of the folder of dependencies
  Name,        \* names of timers
  Number,      \* numbers of timers given in a program
  MaxLines,    \* bound: lines about timers
  MaxRounds    \* bound: rounds of the search that are followed

ASSUME AnalysisAssumption ==
  IsFiniteSet(File) /\ Number \subseteq Nat /\ MaxLines \in Nat /\ MaxRounds \in Nat

VARIABLES
  imports,       \* the files each file imports, the program's under "program"
  new_files,     \* the files whose imports are read in this round
  dependencies,  \* the files found so far
  rounds,
  lines,         \* the lines of the program that are about timers
  timers         \* the result for them

searchVars == <<imports, new_files, dependencies, rounds>>
timerVars == <<lines, timers>>

(***************************************************************************)
(* Dependencies                                                            *)
(***************************************************************************)

SearchInit ==
  /\ imports \in [{"program"} \cup File -> SUBSET File]
  /\ new_files = {"program"} /\ dependencies = {} /\ rounds = 0

Imports(files) == UNION {imports[f] : f \in files}

\* Mutant: what a later round finds takes the place of what was found before.
OnlyNew(found) == found

try_add(found) == dependencies \cup found

\* All imports of a round are new files of the next, those seen before included, so
\* that a circle of imports keeps the loop going for ever.
Round ==
  /\ new_files # {} /\ rounds < MaxRounds
  /\ new_files' = Imports(new_files)
  /\ dependencies' = try_add(Imports(new_files))
  /\ rounds' = rounds + 1
  /\ UNCHANGED imports

SearchSpec == SearchInit /\ [][Round]_searchVars

(***************************************************************************)
(* Timers                                                                  *)
(***************************************************************************)

\* #neon_timer with a number or a name, start_timer with a number or a name.
Line == [kind : {"label", "start"}, timer : Number \cup Name]

TimerInit == lines \in UNION {[1 .. k -> Line] : k \in 0 .. MaxLines} /\ timers = None

Used(ls) == {ls[i].timer : i \in {j \in DOMAIN ls : ls[j].timer \in Number}}
Autotimers(ls) == {i \in DOMAIN ls : ls[i].kind = "start" /\ ls[i].timer \in Name}

\* Mutant: counted from the number of timers used.
AfterCount(ls) == Cardinality(Used(ls)) + 1

auto_start(ls) == IF Used(ls) = {} THEN 1 ELSE Sets!Max(Used(ls)) + 1

\* The label of the last line that gives one, or the name itself.
Label(ls, t) ==
  LET given == {i \in DOMAIN ls : ls[i].kind = "label" /\ ls[i].timer = t}
  IN  IF given = {} THEN t ELSE <<t, Sets!Max(given)>>

\* Every start of a named timer takes the next number, in the order of the lines.
number(ls, i) == auto_start(ls) + Cardinality({j \in Autotimers(ls) : j < i})

\* The last number is substituted, and every number has the label of its timer.
determine_program_timers ==
  /\ timers = None
  /\ LET auto == Autotimers(lines)
         last(n) == Sets!Max({i \in auto : lines[i].timer = n})
         labelled == {i \in DOMAIN lines : lines[i].kind = "label" /\ lines[i].timer \in Number}
     IN  timers' =
           [substitution |-> [n \in {lines[i].timer : i \in auto} |-> number(lines, last(n))],
            names |-> [k \in {lines[i].timer : i \in labelled} \cup {number(lines, i) : i \in auto} |->
                         Label(lines, IF \E i \in auto : number(lines, i) = k
                                      THEN lines[CHOOSE i \in auto : number(lines, i) = k].timer
                                      ELSE k)]]
  /\ UNCHANGED lines

TimerSpec == TimerInit /\ [][determine_program_timers]_timerVars

(***************************************************************************)
(* Properties                                                              *)
(***************************************************************************)

\* The least set that has the given files and everything its files import.
Closure(files) ==
  {f \in File : \A closed \in SUBSET File :
                  files \subseteq closed /\ Imports(closed) \subseteq closed => f \in closed}

Importable == Closure(imports["program"])
Circular   == \E f \in Importable : f \in Closure(imports[f])

\* The search ends with exactly the files the program imports, directly or not, and
\* only a circle of imports keeps it from ending after as many rounds as there are
\* files on a path (programhandler.py:413-432).
DependenciesAreComplete ==
  /\ new_files = {} => dependencies = Importable
  /\ rounds > Cardinality(File) /\ new_files # {} => Circular

\* A named timer gets a number of its own that the program uses nowhere else, the same
\* for all its starts and stops, and the report shows it under its label
\* (programhandler.py:299-319).
NamedTimersAreFresh ==
  timers # None =>
    /\ \A n \in DOMAIN timers.substitution :
         /\ timers.substitution[n] \notin Used(lines)
         /\ \A m \in DOMAIN timers.substitution \ {n} : timers.substitution[m] # timers.substitution[n]
         /\ timers.names[timers.substitution[n]] = Label(lines, n)
    /\ DOMAIN timers.substitution = {n \in Name : \E i \in DOMAIN lines : lines[i].kind = "start" /\ lines[i].timer = n}
    /\ \A k \in Used(lines) : k \in DOMAIN timers.names => timers.names[k] = Label(lines, k)
==============================================================================
