---------------------------- MODULE KernelProofs -----------------------------
(***************************************************************************)
(* Theorems about the parts that share no state, each with variables of    *)
(* its own: the compiled programs of a host, for any number of processes,  *)
(* configurations and edits; the exchange with the backend, for any number *)
(* of experiments, edits, pushes, jobs and faults; the download of its     *)
(* reports; the pools of the collaboration, for any graph; the analysis of *)
(* a program before its compilation, for any imports; the laps of its      *)
(* timers, for any readings; the demultiplexers, for any length and index. *)
(***************************************************************************)
EXTENDS PoolColoring, ProgramAnalysis, ProgramCache, ExperimentExchange, ReportDownload, LapData, Demux, EventLogProofs

(***************************************************************************)
(* The compiled programs of a host, whatever fails or is killed.           *)
(***************************************************************************)
CacheFile == Output \cup {"Source", "Dependencies"}
Step == {"idle", "hash", "check", "copying", "copied", "importing", "ready", "writing", "compiled", "uploaded"}
Work == [step : Step, config : Configs \cup {None}, temp : FileVersion \cup {None}, hash : Hash \cup {None},
         code : Code \cup {None}, open : CacheFile \cup {None}, todo : SUBSET Output,
         workdir : [Output -> Code \cup {None, Torn}]]

CacheTypeOK ==
  /\ program \in Nat /\ library \in Nat /\ program + library <= MaxFileEdits
  /\ Source \in [Hash -> FileVersion \cup {None, Torn}] /\ Dependencies \in FileVersion \cup {None, Torn}
  /\ compiled \in [Output -> [Hash -> Code \cup {None, Torn}]]
  /\ work \in [Procs -> Work]
  /\ disturbed \in [Hash -> SUBSET {"failed", "killed", "overlap"}]

\* What may be found under a hash, besides what is torn.
CodeOf(h) == {code \in Code : code.text = h.text /\ Domain[code.config] = h.domain}

\* A text is under no hash but its own, and what was compiled from it too, as long as
\* nothing disturbed the hash.
SourcesOfHash == \A h \in Hash : Source[h] \in {None, h.text, Torn}
OutputsOfHash == \A h \in Hash : Undisturbed(h) => \A o \in Output : compiled[o][h] \in CodeOf(h) \cup {None, Torn}

\* A process brings files under this hash; or goes on with those it found or brought.
Brings(w, h) == w.hash = h /\ w.step \in {"copying", "copied", "importing", "ready", "writing"}
Uses(w, h)   == Brings(w, h) \/ (w.hash = h /\ w.step = "compiled")

\* Who brings the files of a hash is alone with them, and only who writes leaves torn ones.
Alone == \A h \in Hash : Undisturbed(h) =>
           \A p \in Procs : \A q \in Procs \ {p} : Brings(work[p], h) => ~Uses(work[q], h)
Writes(w, h, o) == w.hash = h /\ w.open = o
TornHasWriter == \A h \in Hash : Undisturbed(h) =>
                   \A o \in Output : compiled[o][h] = Torn => \E p \in Procs : Writes(work[p], h, o)

\* What a process knows of its own work, and of the files that are never taken away.
Hashed(w)   == w.hash \in Hash /\ w.hash.domain = Domain[w.config]
Opened(w) == /\ w.open = "Source" <=> w.step = "copying"
             /\ w.open = "Dependencies" <=> w.step = "importing"
             /\ w.open \in Output => w.step = "writing" /\ w.open \in w.todo
AtWork(w) ==
  /\ w.step # "idle" => w.config \in Configs
  /\ w.step \in {"hash", "check", "copying"} => w.temp \in FileVersion
  /\ w.step \in Step \ {"idle", "hash"} => Hashed(w)
  /\ w.step \in {"check", "copying"} => w.temp = w.hash.text
  /\ Opened(w)
  /\ w.step \in Step \ {"idle", "hash", "check", "uploaded"} => Source[w.hash] # None
  /\ w.step = "ready" => Dependencies # None
  /\ w.step = "writing" => w.code \in Code
  /\ w.step \notin {"compiled", "uploaded"} => w.workdir = NoFiles

\* What it knows of the files of its hash, as long as nothing disturbed it.
Whole(w, outputs) == \A o \in outputs : compiled[o][w.hash] \in CodeOf(w.hash)
AtFiles(w) ==
  /\ w.step = "copying" => Source[w.hash] = Torn
  /\ w.step \in {"copied", "importing", "ready"} => Source[w.hash] = w.hash.text
  /\ w.step = "writing" => /\ w.code \in CodeOf(w.hash) /\ Whole(w, Output \ w.todo)
                           /\ w.open \in Output => compiled[w.open][w.hash] = Torn
  /\ w.step = "compiled" => Whole(w, Output) /\ \A o \in Output : w.workdir[o] \in CodeOf(w.hash) \cup {None}
  /\ w.step = "uploaded" => \A o \in Output : w.workdir[o] \in CodeOf(w.hash)
Sees(w) == w.hash \in Hash /\ Undisturbed(w.hash) => AtFiles(w)
Working == \A p \in Procs : AtWork(work[p]) /\ Sees(work[p])

CacheInv == CacheTypeOK /\ SourcesOfHash /\ OutputsOfHash /\ Alone /\ TornHasWriter /\ Working

(***************************************************************************)
(* Proofs                                                                  *)
(***************************************************************************)

\* A step of a process changes its own record, the files of its own hash, and takes no
\* file away.
Becomes(p, w) == /\ work' \in [Procs -> Work] /\ work'[p] = w
                 /\ \A q \in Procs \ {p} : work'[q] = work[q]
NothingLost == /\ \A h \in Hash : Source[h] # None => Source'[h] # None
               /\ Dependencies # None => Dependencies' # None
Still(h) == disturbed'[h] = {}
Remembered == \A h \in Hash : Still(h) => Undisturbed(h)
SameFiles(h) == Source'[h] = Source[h] /\ \A o \in Output : compiled'[o][h] = compiled[o][h]
Elsewhere(p) == \A h \in Hash \ {work[p].hash} : SameFiles(h)

\* If it changes the files of its hash, it leaves them as they may be and nobody uses them.
OwnFiles(p, h) ==
  /\ Source'[h] \in {h.text, Torn} \cup {Source[h]}
  /\ Still(h) => \A o \in Output : compiled'[o][h] \in CodeOf(h) \cup {None, Torn}
  /\ Still(h) => \A q \in Procs \ {p} : ~Uses(work[q], h)
Changes(p) == LET h == work[p].hash IN h \in Hash => SameFiles(h) \/ OwnFiles(p, h)

\* It brings or uses files only if it did so before, or if the others allow it.
TakesTurn(p, w) ==
  \A h \in Hash : Still(h) =>
    /\ Brings(w, h) => Brings(work[p], h) \/ \A q \in Procs \ {p} : ~Uses(work[q], h)
    /\ Uses(w, h) => Uses(work[p], h) \/ \A q \in Procs \ {p} : ~Brings(work[q], h)

\* What is torn it writes itself, or it was torn before by another.
LeavesTorn(p, w) ==
  \A h \in Hash : Still(h) => \A o \in Output :
    compiled'[o][h] = Torn => Writes(w, h, o) \/ (compiled[o][h] = Torn /\ ~Writes(work[p], h, o))

LEMMA BecomesRecord ==
  ASSUME CacheTypeOK, NEW p \in Procs, NEW w \in Work, work' = [work EXCEPT ![p] = w]
  PROVE  Becomes(p, w)
  BY DEF CacheTypeOK, Becomes

LEMMA StaysAlone ==
  ASSUME CacheInv, Remembered, NEW p \in Procs, NEW w, Becomes(p, w), TakesTurn(p, w)
  PROVE  Alone'
<1> SUFFICES ASSUME NEW h \in Hash, Still(h), NEW r \in Procs, NEW q \in Procs \ {r}, Brings(work[r], h)'
             PROVE  ~Uses(work[q], h)'
  BY DEF Alone, Still, Undisturbed
<1>1. /\ \A i \in Procs : \A j \in Procs \ {i} : Brings(work[i], h) => ~Uses(work[j], h)
      /\ work'[p] = w /\ \A i \in Procs \ {p} : work'[i] = work[i]
      /\ Brings(w, h) => Brings(work[p], h) \/ \A i \in Procs \ {p} : ~Uses(work[i], h)
      /\ Uses(w, h) => Uses(work[p], h) \/ \A i \in Procs \ {p} : ~Brings(work[i], h)
  BY DEF CacheInv, Alone, Remembered, Becomes, TakesTurn, Still, Undisturbed
<1>2. Brings(work'[r], h)
  BY DEF Brings
<1>3. ~Uses(work'[q], h)
  <2>1. CASE r = p
    BY <1>1, <1>2, <2>1 DEF Uses
  <2>2. CASE q = p
    BY <1>1, <1>2, <2>2
  <2>3. CASE r # p /\ q # p
    BY <1>1, <1>2, <2>3
  <2>4. QED
    BY <2>1, <2>2, <2>3
<1>4. QED
  BY <1>3 DEF Uses, Brings

LEMMA TornStaysWritten ==
  ASSUME CacheInv, Remembered, NEW p \in Procs, NEW w, Becomes(p, w), LeavesTorn(p, w)
  PROVE  TornHasWriter'
<1> SUFFICES ASSUME NEW h \in Hash, Still(h), NEW o \in Output, compiled'[o][h] = Torn
             PROVE  \E q \in Procs : Writes(work'[q], h, o)
  BY DEF TornHasWriter, Writes, Still, Undisturbed
<1>1. CASE Writes(w, h, o)
  BY <1>1 DEF Becomes
<1>2. CASE compiled[o][h] = Torn /\ ~Writes(work[p], h, o)
  <2>1. PICK q \in Procs : Writes(work[q], h, o)
    BY <1>2 DEF CacheInv, TornHasWriter, Remembered, Still, Undisturbed
  <2>2. QED
    BY <1>2, <2>1 DEF Becomes
<1>3. QED
  BY <1>1, <1>2 DEF LeavesTorn, Still, Undisturbed

\* The others go on as they were.
LEMMA OthersGoOn ==
  ASSUME CacheInv, NothingLost, Remembered, NEW p \in Procs, NEW w, Becomes(p, w), Elsewhere(p), Changes(p),
         NEW q \in Procs \ {p}
  PROVE  AtWork(work[q])' /\ Sees(work[q])'
<1> DEFINE h == work[q].hash
<1>1. AtWork(work[q]) /\ Sees(work[q]) /\ work[q] \in Work /\ work'[q] = work[q]
  BY DEF CacheInv, Working, CacheTypeOK, Becomes
<1>2. AtWork(work[q])'
  <2>1. work[q].step \in Step \ {"idle", "hash"} => h \in Hash
    BY <1>1 DEF AtWork, Hashed
  <2>2. work[q].step \in Step \ {"idle", "hash", "check", "uploaded"} => Source'[h] # None
    BY <1>1, <2>1 DEF AtWork, NothingLost
  <2>3. work[q].step = "ready" => Dependencies' # None
    BY <1>1 DEF AtWork, NothingLost
  <2>4. QED
    BY <1>1, <2>2, <2>3 DEF AtWork, Hashed, Opened
<1>3. Sees(work[q])'
  <2> SUFFICES ASSUME h \in Hash, Still(h) PROVE AtFiles(work[q])'
    BY <1>1 DEF Sees, Undisturbed, Still
  <2>1. AtFiles(work[q])
    BY <1>1 DEF Sees, Remembered, Still, Undisturbed
  <2>2. CASE SameFiles(h)
    BY <1>1, <2>1, <2>2 DEF AtFiles, Whole, SameFiles
  <2>3. CASE ~SameFiles(h)
    <3>1. work[p].hash = h
      BY <2>3 DEF Elsewhere
    <3>2. OwnFiles(p, h)
      BY <2>3, <3>1 DEF Changes
    <3>3. ~Uses(work[q], h)
      BY <3>2 DEF OwnFiles, Undisturbed, Still
    <3>4. QED
      BY <1>1, <2>1, <3>3 DEF Uses, Brings, AtFiles
  <2>4. QED
    BY <2>2, <2>3
<1>4. QED
  BY <1>2, <1>3

LEMMA ProcessStep ==
  ASSUME CacheInv, CacheTypeOK', NothingLost, Remembered, NEW p \in Procs, NEW w, Becomes(p, w), Elsewhere(p),
         Changes(p), TakesTurn(p, w), LeavesTorn(p, w), AtWork(work[p])', Sees(work[p])'
  PROVE  CacheInv'
<1>1. SourcesOfHash'
  <2> SUFFICES ASSUME NEW h \in Hash PROVE Source'[h] \in {None, h.text, Torn}
    BY DEF SourcesOfHash
  <2>1. Source[h] \in {None, h.text, Torn}
    BY DEF CacheInv, SourcesOfHash
  <2>2. QED
    BY <2>1 DEF Elsewhere, Changes, SameFiles, OwnFiles, Still, Undisturbed
<1>2. OutputsOfHash'
  <2> SUFFICES ASSUME NEW h \in Hash, Still(h), NEW o \in Output
               PROVE  compiled'[o][h] \in CodeOf(h) \cup {None, Torn}
    BY DEF OutputsOfHash, CodeOf, Still, Undisturbed
  <2>1. compiled[o][h] \in CodeOf(h) \cup {None, Torn}
    BY DEF CacheInv, OutputsOfHash, Remembered, Still, Undisturbed
  <2>2. CASE SameFiles(h)
    BY <2>1, <2>2 DEF SameFiles
  <2>3. CASE ~SameFiles(h)
    <3>1. h = work[p].hash
      BY <2>3 DEF Elsewhere
    <3>2. OwnFiles(p, h)
      BY <2>3, <3>1 DEF Changes
    <3>3. QED
      BY <3>2 DEF OwnFiles, Undisturbed, Still
  <2>4. QED
    BY <2>2, <2>3
<1>3. Working'
  BY OthersGoOn DEF Working
<1>4. QED
  BY <1>1, <1>2, <1>3, StaysAlone, TornStaysWritten DEF CacheInv

\* A step that leaves source and outputs as they are, and nothing torn behind.
LeavesOpen(p, w) == \A h \in Hash : Still(h) => \A o \in Output : ~Writes(work[p], h, o)

LEMMA QuietStep ==
  ASSUME CacheInv, NEW p \in Procs, NEW w, Becomes(p, w), UNCHANGED <<program, library, Source, compiled>>,
         Dependencies' \in FileVersion \cup {None, Torn}, Dependencies # None => Dependencies' # None,
         disturbed' \in [Hash -> SUBSET {"failed", "killed", "overlap"}], Remembered,
         LeavesOpen(p, w), TakesTurn(p, w), AtWork(work[p])', Sees(work[p])'
  PROVE  CacheInv'
<1>1. CacheTypeOK' /\ NothingLost
  BY DEF CacheInv, CacheTypeOK, NothingLost, Becomes
<1>2. Elsewhere(p) /\ Changes(p)
  BY DEF Elsewhere, Changes, SameFiles
<1>3. LeavesTorn(p, w)
  BY DEF LeavesTorn, LeavesOpen, Still, Undisturbed
<1>4. QED
  BY <1>1, <1>2, <1>3, ProcessStep

LEMMA CacheInit1 == CacheInit => CacheInv
<1> SUFFICES ASSUME CacheInit PROVE CacheInv
  OBVIOUS
<1>1. 0 \in Nat /\ 0 + 0 <= MaxFileEdits /\ 0 \in FileVersion
  BY CacheAssumption DEF FileVersion
<1>2. Idle \in Work
  BY DEF Idle, Work, NoFiles, Step, Output
<1>3. CacheTypeOK
  BY <1>1, <1>2 DEF CacheInit, CacheTypeOK
<1>4. SourcesOfHash /\ OutputsOfHash /\ Alone
  BY DEF CacheInit, SourcesOfHash, OutputsOfHash, Alone, Brings, Idle, Still, Undisturbed
<1>5. TornHasWriter
  BY CacheAssumption DEF CacheInit, TornHasWriter, Still, Undisturbed
<1>6. Working
  <2> SUFFICES ASSUME NEW p \in Procs PROVE AtWork(Idle) /\ Sees(Idle)
    BY DEF CacheInit, Working
  <2>1. AtWork(Idle)
    BY CacheAssumption DEF AtWork, Idle, Opened
  <2>2. Sees(Idle)
    BY DEF Sees, AtFiles, Idle, Still, Undisturbed
  <2>3. QED
    BY <2>1, <2>2
<1>7. QED
  BY <1>3, <1>4, <1>5, <1>6 DEF CacheInv

LEMMA Versions == ASSUME CacheTypeOK PROVE program \in FileVersion /\ library \in FileVersion
  BY CacheAssumption DEF CacheTypeOK, FileVersion

\* Whoever is not at the outputs has none open.
LEMMA NoneOpen ==
  ASSUME CacheInv, NEW p \in Procs, work[p].step # "writing" \/ work[p].open \notin Output, NEW w
  PROVE  LeavesOpen(p, w)
  BY DEF CacheInv, Working, AtWork, Opened, LeavesOpen, Writes, Still, Undisturbed

\* What a step has to do with that leaves the files as they are, the history too.
LEMMA PlainStep ==
  ASSUME CacheInv, NEW p \in Procs, work[p].step # "writing" \/ work[p].open \notin Output,
         NEW w \in Work, work' = [work EXCEPT ![p] = w],
         UNCHANGED <<program, library, Source, Dependencies, compiled, disturbed>>,
         w.step \notin {"copying", "copied", "importing", "ready", "writing", "compiled"}
           \/ (Brings(work[p], w.hash) /\ w.step # "compiled")
           \/ (Uses(work[p], w.hash) /\ w.step = "compiled"),
         AtWork(work[p])', Sees(work[p])'
  PROVE  CacheInv'
<1>1. Becomes(p, w) /\ work'[p] = w
  BY BecomesRecord DEF CacheInv, Becomes
<1>2. Remembered /\ disturbed' \in [Hash -> SUBSET {"failed", "killed", "overlap"}]
  BY DEF CacheInv, CacheTypeOK, Remembered, Undisturbed, Still
<1>3. TakesTurn(p, w)
  BY DEF TakesTurn, Brings, Uses, Still, Undisturbed
<1>4. Dependencies' \in FileVersion \cup {None, Torn}
  BY DEF CacheInv, CacheTypeOK
<1>5. QED
  BY <1>1, <1>2, <1>3, <1>4, NoneOpen, QuietStep

LEMMA GetHash ==
  ASSUME CacheInv, NEW p \in Procs, get_hash(p)
  PROVE  CacheInv'
<1> DEFINE h == HashOf(work[p].temp, library, work[p].config)
           w == [work[p] EXCEPT !.step = "check", !.hash = h]
<1>1. work[p] \in Work /\ AtWork(work[p]) /\ work[p].step = "hash"
  BY DEF CacheInv, CacheTypeOK, Working, get_hash
<1>2. h \in Hash /\ h.text = work[p].temp /\ h.domain = Domain[work[p].config]
  BY <1>1, Versions DEF AtWork, CacheInv, Hash, HashOf
<1> HIDE DEF h
<1>3. w \in Work
  BY <1>1, <1>2 DEF Work, Step
<1>4. work' = [work EXCEPT ![p] = w]
  BY <1>1 DEF get_hash, Work, CacheInv, CacheTypeOK, h
<1>5. /\ w.step = "check" /\ w.hash = h /\ w.temp = work[p].temp /\ w.config = work[p].config
      /\ w.workdir = work[p].workdir /\ w.open = work[p].open /\ work'[p] = w
  BY <1>1, <1>4 DEF Work, CacheInv, CacheTypeOK
<1>6. AtWork(work[p])'
  BY <1>1, <1>2, <1>5 DEF AtWork, Hashed, Opened
<1>7. Sees(work[p])'
  BY <1>5 DEF Sees, AtFiles, Still, Undisturbed
<1>8. UNCHANGED <<program, library, Source, Dependencies, compiled, disturbed>>
  BY DEF get_hash
<1>9. QED
  BY <1>1, <1>3, <1>4, <1>5, <1>6, <1>7, <1>8, PlainStep

LEMMA PerformSubstitution ==
  ASSUME CacheInv, NEW p \in Procs, NEW c \in Configs, perform_substitution(p, c)
  PROVE  CacheInv'
<1> DEFINE w == [Idle EXCEPT !.step = "hash", !.config = c, !.temp = program]
<1>1. w \in Work
  BY Versions DEF CacheInv, Work, Step, Idle, NoFiles, Output
<1>2. /\ w.step = "hash" /\ w.temp = program /\ w.config = c /\ w.workdir = NoFiles /\ w.open = None
      /\ work'[p] = w
  BY DEF Idle, perform_substitution, CacheInv, CacheTypeOK
<1>3. AtWork(work[p])'
  BY <1>2, Versions, CacheAssumption DEF AtWork, Opened, CacheInv
<1>4. Sees(work[p])'
  BY <1>2 DEF Sees, AtFiles, Still, Undisturbed
<1>5. /\ UNCHANGED <<program, library, Source, Dependencies, compiled, disturbed>>
      /\ work' = [work EXCEPT ![p] = w] /\ work[p].step # "writing"
  BY DEF perform_substitution
<1>6. QED
  BY <1>1, <1>2, <1>3, <1>4, <1>5, PlainStep

\* A process that ends with an output open leaves it torn, and that is remembered.
LEMMA Ends ==
  ASSUME CacheInv, NEW p \in Procs, CheckRaises(p) \/ exit_after_error(p) \/ EndOfWork(p)
  PROVE  CacheInv'
<1>1. Idle \in Work
  BY DEF Idle, Work, NoFiles, Step, Output
<1>2. Becomes(p, Idle)
  BY <1>1, BecomesRecord DEF CacheInv, CheckRaises, exit_after_error, EndOfWork
<1>3. UNCHANGED <<program, library, Source, Dependencies, compiled>>
  BY DEF CheckRaises, exit_after_error, EndOfWork, delete_hashes
<1>4. work[p] \in Work /\ AtWork(work[p])
  BY DEF CacheInv, CacheTypeOK, Working
<1>5. \/ disturbed' = disturbed /\ work[p].open \notin Output
      \/ \E r \in {"failed", "killed"} : disturbed' = [disturbed EXCEPT ![work[p].hash] = @ \cup {r}]
  BY <1>4 DEF CheckRaises, exit_after_error, EndOfWork, Leaves, AtWork, Opened
<1>6. disturbed \in [Hash -> SUBSET {"failed", "killed", "overlap"}]
  BY DEF CacheInv, CacheTypeOK
<1>7. Remembered /\ disturbed' \in [Hash -> SUBSET {"failed", "killed", "overlap"}]
  BY <1>5, <1>6 DEF Remembered, Undisturbed, Still
<1>8. LeavesOpen(p, Idle)
  BY <1>5, <1>6 DEF LeavesOpen, Writes, Undisturbed, Still
<1>9. TakesTurn(p, Idle)
  BY DEF TakesTurn, Brings, Uses, Idle, Still, Undisturbed
<1>10. AtWork(work[p])' /\ Sees(work[p])'
  <2>1. work'[p] = Idle
    BY <1>2 DEF Becomes
  <2>2. QED
    BY <2>1, CacheAssumption DEF AtWork, Sees, AtFiles, Idle, Opened, Still, Undisturbed
<1>11. Dependencies' \in FileVersion \cup {None, Torn} /\ Dependencies' = Dependencies
  BY <1>3 DEF CacheInv, CacheTypeOK
<1>12. QED
  BY <1>2, <1>3, <1>7, <1>8, <1>9, <1>10, <1>11, QuietStep

LEMMA OverlapsIsRemembered ==
  ASSUME CacheInv, NEW p \in Procs, work[p].hash \in Hash, Overlaps(p)
  PROVE  /\ Remembered /\ disturbed' \in [Hash -> SUBSET {"failed", "killed", "overlap"}]
         /\ Still(work[p].hash) => \A q \in Procs \ {p} : ~Brings(work[q], work[p].hash)
<1> DEFINE h == work[p].hash
<1>1. disturbed \in [Hash -> SUBSET {"failed", "killed", "overlap"}]
  BY DEF CacheInv, CacheTypeOK
<1>2. CASE \E q \in Procs \ {p} : Compiling(q, h)
  <2>1. disturbed' = [disturbed EXCEPT ![h] = @ \cup {"overlap"}]
    BY <1>2 DEF Overlaps
  <2>2. disturbed'[h] # {} /\ Remembered /\ disturbed' \in [Hash -> SUBSET {"failed", "killed", "overlap"}]
    BY <1>1, <2>1 DEF Remembered, Undisturbed, Still
  <2>3. QED
    BY <2>2 DEF Undisturbed, Still
<1>3. CASE ~\E q \in Procs \ {p} : Compiling(q, h)
  <2>1. disturbed' = [disturbed EXCEPT ![h] = @]
    BY <1>3 DEF Overlaps
  <2>2. disturbed' = disturbed
    BY <1>1, <2>1
  <2>3. QED
    BY <1>1, <1>3, <2>2 DEF Remembered, Undisturbed, Compiling, Brings, Still
<1>4. QED
  BY <1>2, <1>3

\* Code is neither missing nor torn.
LEMMA CodeIsWhole == \A h : \A code \in CodeOf(h) : code \in Code /\ code \notin {None, Torn}
  BY CacheAssumption DEF CodeOf

LEMMA FindCompiled ==
  ASSUME CacheInv, NEW p \in Procs, FoundCompiled(p)
  PROVE  CacheInv'
<1> DEFINE w == [work[p] EXCEPT !.step = "compiled", !.temp = None]
           h == work[p].hash
<1>1. work[p] \in Work /\ AtWork(work[p]) /\ work[p].step = "check"
  BY DEF CacheInv, CacheTypeOK, Working, FoundCompiled
<1>2. w \in Work
  BY <1>1 DEF Work, Step
<1>3. work' = [work EXCEPT ![p] = w]
  BY <1>1 DEF FoundCompiled, Work, CacheInv, CacheTypeOK
<1>4. Becomes(p, w)
  BY <1>2, <1>3, BecomesRecord DEF CacheInv
<1>5. /\ w.step = "compiled" /\ w.hash = h /\ w.config = work[p].config
      /\ w.workdir = work[p].workdir /\ w.open = work[p].open /\ work'[p] = w
  BY <1>1, <1>4 DEF Work, Becomes
<1>6. /\ UNCHANGED <<program, library, Source, Dependencies, compiled>>
      /\ Dependencies' \in FileVersion \cup {None, Torn}
  BY DEF FoundCompiled, CacheInv, CacheTypeOK
<1>7. h \in Hash /\ Hashed(work[p]) /\ work[p].workdir = NoFiles /\ work[p].config \in Configs
  BY <1>1 DEF AtWork, Hashed, Step
<1>8. /\ Remembered /\ disturbed' \in [Hash -> SUBSET {"failed", "killed", "overlap"}]
      /\ Still(h) => \A q \in Procs \ {p} : ~Brings(work[q], h)
  BY <1>7, OverlapsIsRemembered DEF FoundCompiled
<1>9. Source[h] # None /\ \A o \in Output : compiled[o][h] # None
  BY DEF FoundCompiled, check_program_update, Output
<1>10. TakesTurn(p, w)
  BY <1>5, <1>8 DEF TakesTurn, Brings, Uses, Still, Undisturbed
<1>11. AtWork(work[p])'
  BY <1>1, <1>5, <1>6, <1>7, <1>9 DEF AtWork, Hashed, Opened
<1>12. Sees(work[p])'
  <2> SUFFICES ASSUME Still(h) PROVE AtFiles(work[p])'
    BY <1>5 DEF Sees, Undisturbed, Still
  <2>1. \A q \in Procs : \A o \in Output : ~Writes(work[q], h, o)
    <3> SUFFICES ASSUME NEW q \in Procs, NEW o \in Output, Writes(work[q], h, o) PROVE FALSE
      OBVIOUS
    <3>1. work[q].step = "writing" /\ work[q].hash = h
      BY DEF CacheInv, Working, AtWork, Opened, Writes
    <3>2. QED
      BY <1>1, <1>8, <3>1 DEF Brings
  <2>2. ASSUME NEW o \in Output PROVE compiled[o][h] \in CodeOf(h)
    BY <1>7, <1>8, <1>9, <2>1 DEF CacheInv, Remembered, OutputsOfHash, TornHasWriter, Still, Undisturbed
  <2>3. QED
    BY <1>5, <1>6, <1>7, <2>2 DEF AtFiles, Whole, NoFiles
<1>13. LeavesOpen(p, w)
  BY <1>1, NoneOpen
<1>14. QED
  BY <1>4, <1>6, <1>8, <1>10, <1>11, <1>12, <1>13, QuietStep

\* Whoever uses the files of an undisturbed hash after their compilation has them all.
LEMMA UpdateIsAlone ==
  ASSUME CacheInv, NEW p \in Procs, NEW h \in Hash, Undisturbed(h), "update" \in check_program_update(h),
         NEW q \in Procs, ~Brings(work[q], h)
  PROVE  ~Uses(work[q], h)
<1> SUFFICES ASSUME work[q].hash = h, work[q].step = "compiled" PROVE FALSE
  BY DEF Uses
<1>1. AtWork(work[q]) /\ AtFiles(work[q])
  BY DEF CacheInv, Working, Sees, Still, Undisturbed
<1>2. Source[h] # None
  BY <1>1 DEF AtWork, Step
<1>3. \A o \in Output : compiled[o][h] \in CodeOf(h)
  BY <1>1 DEF AtFiles, Whole
<1>4. \A o \in Output : compiled[o][h] \notin {None, Torn}
  BY <1>3, CodeIsWhole
<1>5. QED
  BY <1>2, <1>4 DEF check_program_update, Output

LEMMA OpensSource ==
  ASSUME CacheInv, NEW p \in Procs, OpenSource(p)
  PROVE  CacheInv'
<1> DEFINE w == [work[p] EXCEPT !.step = "copying", !.open = "Source"]
           h == work[p].hash
<1>1. work[p] \in Work /\ AtWork(work[p]) /\ work[p].step = "check"
  BY DEF CacheInv, CacheTypeOK, Working, OpenSource
<1>2. w \in Work
  BY <1>1 DEF Work, Step, CacheFile
<1>3. work' = [work EXCEPT ![p] = w]
  BY <1>1 DEF OpenSource, Work, CacheInv, CacheTypeOK
<1>4. Becomes(p, w)
  BY <1>2, <1>3, BecomesRecord DEF CacheInv
<1>5. /\ w.step = "copying" /\ w.hash = h /\ w.config = work[p].config /\ w.temp = work[p].temp
      /\ w.workdir = work[p].workdir /\ w.open = "Source" /\ work'[p] = w
  BY <1>1, <1>4 DEF Work, Becomes
<1>6. h \in Hash /\ Hashed(work[p]) /\ work[p].workdir = NoFiles /\ work[p].config \in Configs
  BY <1>1 DEF AtWork, Hashed, Step
<1>7. /\ Remembered /\ disturbed' \in [Hash -> SUBSET {"failed", "killed", "overlap"}]
      /\ Still(h) => \A q \in Procs \ {p} : ~Brings(work[q], h)
  BY <1>6, OverlapsIsRemembered DEF OpenSource
<1>8. UNCHANGED <<program, library, Dependencies, compiled>> /\ Source' = [Source EXCEPT ![h] = Torn]
  BY DEF OpenSource
<1>9. /\ Source' \in [Hash -> FileVersion \cup {None, Torn}] /\ Source'[h] = Torn
      /\ \A g \in Hash \ {h} : Source'[g] = Source[g]
  BY <1>6, <1>8 DEF CacheInv, CacheTypeOK
<1>10. CacheTypeOK' /\ NothingLost
  BY <1>4, <1>7, <1>8, <1>9, CacheAssumption DEF CacheInv, CacheTypeOK, NothingLost, Becomes
<1>11. Still(h) => \A q \in Procs \ {p} : ~Uses(work[q], h)
  BY <1>6, <1>7, UpdateIsAlone DEF OpenSource, Remembered, Still, Undisturbed
<1>12. Elsewhere(p)
  BY <1>8, <1>9 DEF Elsewhere, SameFiles
<1>13. OwnFiles(p, h)
  <2>1. Still(h) => \A o \in Output : compiled'[o][h] \in CodeOf(h) \cup {None, Torn}
    BY <1>6, <1>7, <1>8 DEF CacheInv, OutputsOfHash, Remembered, Still, Undisturbed
  <2>2. QED
    BY <1>9, <1>11, <2>1 DEF OwnFiles, Undisturbed, Still
<1>14. Changes(p)
  BY <1>13 DEF Changes
<1>15. TakesTurn(p, w)
  BY <1>5, <1>7, <1>11 DEF TakesTurn, Brings, Uses, Still, Undisturbed
<1>16. LeavesTorn(p, w)
  BY <1>1, <1>8, NoneOpen DEF LeavesTorn, LeavesOpen, Still, Undisturbed
<1>17. AtWork(work[p])'
  BY <1>1, <1>5, <1>6, <1>9, CacheAssumption DEF AtWork, Hashed, Opened, Output
<1>18. Sees(work[p])'
  BY <1>5, <1>9 DEF Sees, AtFiles, Still, Undisturbed
<1>19. QED
  BY <1>4, <1>7, <1>10, <1>12, <1>14, <1>15, <1>16, <1>17, <1>18, ProcessStep

\* A process that copies or compiles is alone with the files of its hash.
LEMMA BringsAlone ==
  ASSUME CacheInv, NEW p \in Procs, NEW h \in Hash, Brings(work[p], h), Undisturbed(h)
  PROVE  \A q \in Procs \ {p} : ~Uses(work[q], h)
  BY DEF CacheInv, Alone

\* A file that nobody else has open holds what its writer wrote.
LEMMA NotShared ==
  ASSUME CacheInv, NEW p \in Procs, Brings(work[p], work[p].hash), work[p].hash \in Hash, Undisturbed(work[p].hash),
         NEW f \in Output \cup {"Source"}
  PROVE  ~Shared(p, f)
<1> SUFFICES ASSUME NEW q \in Procs \ {p}, work[q].open = f, work[q].hash = work[p].hash PROVE FALSE
  BY DEF Shared, Output
<1>1. Opened(work[q])
  BY DEF CacheInv, Working, AtWork
<1>2. Uses(work[q], work[p].hash)
  BY <1>1 DEF Opened, Uses, Brings
<1>3. QED
  BY <1>2, BringsAlone

LEMMA CopiesSource ==
  ASSUME CacheInv, NEW p \in Procs, CopySource(p)
  PROVE  CacheInv'
<1> DEFINE w == [work[p] EXCEPT !.step = "copied", !.open = None, !.temp = None]
           h == work[p].hash
<1>1. work[p] \in Work /\ AtWork(work[p]) /\ Sees(work[p]) /\ work[p].step = "copying"
  BY DEF CacheInv, CacheTypeOK, Working, CopySource
<1>2. w \in Work
  BY <1>1 DEF Work, Step
<1>3. work' = [work EXCEPT ![p] = w]
  BY <1>1 DEF CopySource, Work, CacheInv, CacheTypeOK
<1>4. Becomes(p, w)
  BY <1>2, <1>3, BecomesRecord DEF CacheInv
<1>5. /\ w.step = "copied" /\ w.hash = h /\ w.config = work[p].config
      /\ w.workdir = work[p].workdir /\ w.open = None /\ work'[p] = w
  BY <1>1, <1>4 DEF Work, Becomes
<1>6. /\ h \in Hash /\ Hashed(work[p]) /\ work[p].workdir = NoFiles /\ work[p].config \in Configs
      /\ work[p].temp = h.text /\ h.text \in FileVersion /\ Brings(work[p], h) /\ Source[h] # None
  BY <1>1 DEF AtWork, Hashed, Step, Brings
<1>7. UNCHANGED <<program, library, Dependencies, compiled, disturbed>>
  BY DEF CopySource
<1>8. PICK t \in Written(Source[h], work[p].temp, Shared(p, "Source")) : Source' = [Source EXCEPT ![h] = t]
  BY DEF CopySource
<1>9. t \in {h.text, Torn} /\ (Undisturbed(h) => t = h.text)
  <2>1. Undisturbed(h) => Source[h] = Torn /\ ~Shared(p, "Source")
    BY <1>1, <1>6, NotShared DEF Sees, AtFiles
  <2>2. QED
    BY <1>6, <1>8, <2>1 DEF Written
<1>10. /\ Source' \in [Hash -> FileVersion \cup {None, Torn}] /\ Source'[h] = t
       /\ \A g \in Hash \ {h} : Source'[g] = Source[g]
  BY <1>6, <1>8, <1>9 DEF CacheInv, CacheTypeOK
<1>11. CacheTypeOK' /\ NothingLost
  BY <1>4, <1>6, <1>7, <1>9, <1>10, CacheAssumption DEF CacheInv, CacheTypeOK, NothingLost, Becomes
<1>12. Remembered
  BY <1>7 DEF Remembered, Still, Undisturbed
<1>13. Elsewhere(p)
  BY <1>7, <1>10 DEF Elsewhere, SameFiles
<1>14. OwnFiles(p, h)
  BY <1>6, <1>7, <1>9, <1>10, BringsAlone DEF CacheInv, OutputsOfHash, OwnFiles, Still, Undisturbed
<1>15. Changes(p)
  BY <1>14 DEF Changes
<1>16. TakesTurn(p, w)
  BY <1>5, <1>6 DEF TakesTurn, Brings, Uses
<1>17. LeavesTorn(p, w)
  BY <1>1, <1>7, NoneOpen DEF LeavesTorn, LeavesOpen
<1>18. AtWork(work[p])'
  BY <1>5, <1>6, <1>11, CacheAssumption DEF AtWork, Hashed, Opened, NothingLost
<1>19. Sees(work[p])'
  BY <1>5, <1>7, <1>9, <1>10 DEF Sees, AtFiles, Undisturbed
<1>20. QED
  BY <1>4, <1>11, <1>12, <1>13, <1>15, <1>16, <1>17, <1>18, <1>19, ProcessStep

\* The two steps of the libraries: the folder is shared, and nothing is known of it.
LEMMA BringsDependencies ==
  ASSUME CacheInv, NEW p \in Procs, OpenDependencies(p) \/ CopyDependencies(p)
  PROVE  CacheInv'
<1> DEFINE opens == work[p].step = "copied"
           w == [work[p] EXCEPT !.step = IF opens THEN "importing" ELSE "ready",
                                !.open = IF opens THEN "Dependencies" ELSE None]
           h == work[p].hash
<1>1. /\ work[p] \in Work /\ AtWork(work[p]) /\ Sees(work[p])
      /\ work[p].step = IF opens THEN "copied" ELSE "importing"
  BY DEF CacheInv, CacheTypeOK, Working, OpenDependencies, CopyDependencies
<1>2. w \in Work
  BY <1>1 DEF Work, Step, CacheFile
<1>3. work' = [work EXCEPT ![p] = w]
  BY <1>1 DEF OpenDependencies, CopyDependencies, Work, CacheInv, CacheTypeOK
<1>4. Becomes(p, w)
  BY <1>2, <1>3, BecomesRecord DEF CacheInv
<1>5. /\ w.step = (IF opens THEN "importing" ELSE "ready") /\ w.hash = h /\ w.config = work[p].config
      /\ w.workdir = work[p].workdir /\ w.open = (IF opens THEN "Dependencies" ELSE None) /\ work'[p] = w
  BY <1>1, <1>4 DEF Work, Becomes
<1>6. /\ h \in Hash /\ Hashed(work[p]) /\ work[p].workdir = NoFiles /\ work[p].config \in Configs
      /\ Brings(work[p], h) /\ Source[h] # None
  BY <1>1 DEF AtWork, Hashed, Step, Brings
<1>7. UNCHANGED <<program, library, Source, compiled, disturbed>>
  BY DEF OpenDependencies, CopyDependencies
<1>8. Dependencies' \in FileVersion \cup {Torn}
  BY Versions DEF OpenDependencies, CopyDependencies, Written, CacheInv
<1>9. Remembered /\ disturbed' \in [Hash -> SUBSET {"failed", "killed", "overlap"}]
  BY <1>7 DEF CacheInv, CacheTypeOK, Remembered, Still, Undisturbed
<1>10. TakesTurn(p, w)
  BY <1>5, <1>6 DEF TakesTurn, Brings, Uses
<1>11. AtWork(work[p])'
  BY <1>5, <1>6, <1>7, <1>8, CacheAssumption DEF AtWork, Hashed, Opened, Output
<1>12. Sees(work[p])'
  BY <1>1, <1>5, <1>7 DEF Sees, AtFiles, Undisturbed
<1>13. QED
  BY <1>1, <1>4, <1>7, <1>8, <1>9, <1>10, <1>11, <1>12, NoneOpen, QuietStep, CacheAssumption

LEMMA StartsCompiler ==
  ASSUME CacheInv, NEW p \in Procs, StartCompiler(p)
  PROVE  CacheInv'
<1> DEFINE code == [text |-> Source[work[p].hash], library |-> Dependencies, config |-> work[p].config]
           w == [work[p] EXCEPT !.step = "writing", !.todo = Output, !.code = code]
           h == work[p].hash
<1>1. work[p] \in Work /\ AtWork(work[p]) /\ Sees(work[p]) /\ work[p].step = "ready"
  BY DEF CacheInv, CacheTypeOK, Working, StartCompiler
<1>2. /\ h \in Hash /\ Hashed(work[p]) /\ Source[h] # None /\ Dependencies # None
      /\ work[p].config \in Configs /\ work[p].workdir = NoFiles /\ Brings(work[p], h)
      /\ work[p].open \notin CacheFile
  BY <1>1 DEF AtWork, Hashed, Step, Brings, Opened, CacheFile
<1>3. code \in Code /\ (Source[h] = h.text => code \in CodeOf(h))
  BY <1>2 DEF CodeOf, Code, Hashed, CacheInv, CacheTypeOK
<1> HIDE DEF code
<1>4. w \in Work
  BY <1>1, <1>3 DEF Work, Step
<1>5. work' = [work EXCEPT ![p] = w]
  BY <1>1 DEF StartCompiler, Work, CacheInv, CacheTypeOK, code
<1>6. /\ w.step = "writing" /\ w.hash = h /\ w.config = work[p].config /\ w.todo = Output
      /\ w.code = code /\ w.workdir = work[p].workdir /\ w.open = work[p].open /\ work'[p] = w
  BY <1>1, <1>5 DEF Work, CacheInv, CacheTypeOK
<1>7. UNCHANGED <<program, library, Source, Dependencies, compiled, disturbed>>
  BY DEF StartCompiler
<1>8. AtWork(work[p])'
  BY <1>2, <1>3, <1>6, <1>7 DEF AtWork, Hashed, Opened, CacheFile
<1>9. Sees(work[p])'
  <2> SUFFICES ASSUME Undisturbed(h) PROVE AtFiles(work[p])'
    BY <1>6, <1>7 DEF Sees, Undisturbed
  <2>1. code \in CodeOf(h)
    BY <1>1, <1>2, <1>3 DEF Sees, AtFiles
  <2>2. QED
    BY <1>2, <1>6, <2>1 DEF AtFiles, Whole, CacheFile
<1>10. QED
  BY <1>1, <1>2, <1>4, <1>5, <1>6, <1>7, <1>8, <1>9, PlainStep DEF Brings

LEMMA OpensOutput ==
  ASSUME CacheInv, NEW p \in Procs, NEW o \in Output, OpenOutput(p, o)
  PROVE  CacheInv'
<1> DEFINE w == [work[p] EXCEPT !.open = o]
           h == work[p].hash
<1>1. /\ work[p] \in Work /\ AtWork(work[p]) /\ Sees(work[p]) /\ work[p].step = "writing"
      /\ o \in work[p].todo /\ work[p].open = None
  BY DEF CacheInv, CacheTypeOK, Working, OpenOutput
<1>2. w \in Work
  BY <1>1 DEF Work, CacheFile
<1>3. work' = [work EXCEPT ![p] = w]
  BY <1>1 DEF OpenOutput, Work, CacheInv, CacheTypeOK
<1>4. Becomes(p, w)
  BY <1>2, <1>3, BecomesRecord DEF CacheInv
<1>5. /\ w.step = "writing" /\ w.hash = h /\ w.config = work[p].config /\ w.todo = work[p].todo
      /\ w.code = work[p].code /\ w.workdir = work[p].workdir /\ w.open = o /\ work'[p] = w
  BY <1>1, <1>4 DEF Work, Becomes
<1>6. /\ h \in Hash /\ Hashed(work[p]) /\ work[p].workdir = NoFiles /\ work[p].config \in Configs
      /\ work[p].code \in Code /\ Brings(work[p], h) /\ Source[h] # None
  BY <1>1 DEF AtWork, Hashed, Step, Brings
<1>7. UNCHANGED <<program, library, Source, Dependencies, disturbed>>
  BY DEF OpenOutput
<1>8. /\ compiled' \in [Output -> [Hash -> Code \cup {None, Torn}]] /\ compiled'[o][h] = Torn
      /\ \A i \in Output : \A g \in Hash : (i # o \/ g # h) => compiled'[i][g] = compiled[i][g]
  BY <1>6 DEF OpenOutput, CacheInv, CacheTypeOK
<1>9. CacheTypeOK' /\ NothingLost
  BY <1>4, <1>7, <1>8 DEF CacheInv, CacheTypeOK, NothingLost, Becomes
<1>10. Remembered
  BY <1>7 DEF Remembered, Still, Undisturbed
<1>11. Elsewhere(p)
  BY <1>7, <1>8 DEF Elsewhere, SameFiles
<1>12. Changes(p)
  <2>1. ASSUME Undisturbed(h), NEW i \in Output PROVE compiled'[i][h] \in CodeOf(h) \cup {None, Torn}
    BY <1>6, <1>8, <2>1 DEF CacheInv, OutputsOfHash
  <2>2. OwnFiles(p, h)
    BY <1>6, <1>7, <2>1, BringsAlone DEF OwnFiles, Still, Undisturbed
  <2>3. QED
    BY <2>2 DEF Changes
<1>13. TakesTurn(p, w)
  BY <1>5, <1>6 DEF TakesTurn, Brings, Uses
<1>14. LeavesTorn(p, w)
  BY <1>1, <1>5, <1>8, CacheAssumption DEF LeavesTorn, Writes
<1>15. AtWork(work[p])'
  BY <1>1, <1>5, <1>6, <1>7 DEF AtWork, Hashed, Opened, Output
<1>16. Sees(work[p])'
  <2> SUFFICES ASSUME Undisturbed(h) PROVE AtFiles(work[p])'
    BY <1>5, <1>7 DEF Sees, Undisturbed
  <2>1. work[p].code \in CodeOf(h) /\ \A i \in Output \ work[p].todo : compiled[i][h] \in CodeOf(h)
    BY <1>1, <1>6 DEF Sees, AtFiles, Whole
  <2>2. QED
    BY <1>1, <1>5, <1>6, <1>8, <2>1 DEF AtFiles, Whole
<1>17. QED
  BY <1>4, <1>9, <1>10, <1>11, <1>12, <1>13, <1>14, <1>15, <1>16, ProcessStep

LEMMA WritesOutput ==
  ASSUME CacheInv, NEW p \in Procs, NEW o \in Output, WriteOutput(p, o)
  PROVE  CacheInv'
<1> DEFINE last == work[p].todo = {o}
           w == [work[p] EXCEPT !.open = None, !.todo = work[p].todo \ {o},
                                !.step = IF work[p].todo = {o} THEN "compiled" ELSE "writing",
                                !.code = IF work[p].todo = {o} THEN None ELSE work[p].code]
           h == work[p].hash
<1>1. /\ work[p] \in Work /\ AtWork(work[p]) /\ Sees(work[p]) /\ work[p].step = "writing"
      /\ work[p].open = o /\ o \in work[p].todo
  BY DEF CacheInv, CacheTypeOK, Working, WriteOutput, AtWork, Opened
<1>2. w \in Work
  BY <1>1 DEF Work, Step
<1>3. work' = [work EXCEPT ![p] = w]
  BY <1>1 DEF WriteOutput, Work, CacheInv, CacheTypeOK
<1>4. Becomes(p, w)
  BY <1>2, <1>3, BecomesRecord DEF CacheInv
<1>5. /\ w.hash = h /\ w.config = work[p].config /\ w.todo = work[p].todo \ {o} /\ w.open = None
      /\ w.step = (IF last THEN "compiled" ELSE "writing")
      /\ w.code = (IF last THEN None ELSE work[p].code)
      /\ w.workdir = work[p].workdir /\ work'[p] = w
  BY <1>1, <1>4 DEF Work, Becomes
<1>6. /\ h \in Hash /\ Hashed(work[p]) /\ work[p].workdir = NoFiles /\ work[p].config \in Configs
      /\ work[p].code \in Code /\ Brings(work[p], h) /\ Source[h] # None
  BY <1>1 DEF AtWork, Hashed, Step, Brings
<1>7. UNCHANGED <<program, library, Source, Dependencies, disturbed>>
  BY DEF WriteOutput
<1>8. PICK c \in Written(compiled[o][h], work[p].code, Shared(p, o)) : compiled' = [compiled EXCEPT ![o][h] = c]
  BY DEF WriteOutput
<1>9. c \in {work[p].code, Torn} /\ (Undisturbed(h) => c = work[p].code /\ c \in CodeOf(h))
  <2>1. Undisturbed(h) => compiled[o][h] = Torn /\ ~Shared(p, o) /\ work[p].code \in CodeOf(h)
    BY <1>1, <1>6, NotShared DEF Sees, AtFiles
  <2>2. QED
    BY <1>8, <2>1 DEF Written
<1>10. /\ compiled' \in [Output -> [Hash -> Code \cup {None, Torn}]] /\ compiled'[o][h] = c
       /\ \A i \in Output : \A g \in Hash : (i # o \/ g # h) => compiled'[i][g] = compiled[i][g]
  BY <1>6, <1>8, <1>9 DEF CacheInv, CacheTypeOK
<1>11. CacheTypeOK' /\ NothingLost
  BY <1>4, <1>7, <1>10 DEF CacheInv, CacheTypeOK, NothingLost, Becomes
<1>12. Remembered
  BY <1>7 DEF Remembered, Still, Undisturbed
<1>13. Elsewhere(p)
  BY <1>7, <1>10 DEF Elsewhere, SameFiles
<1>14. Changes(p)
  <2>1. ASSUME Undisturbed(h), NEW i \in Output PROVE compiled'[i][h] \in CodeOf(h) \cup {None, Torn}
    BY <1>6, <1>9, <1>10, <2>1 DEF CacheInv, OutputsOfHash
  <2>2. OwnFiles(p, h)
    BY <1>6, <1>7, <2>1, BringsAlone DEF OwnFiles, Still, Undisturbed
  <2>3. QED
    BY <2>2 DEF Changes
<1>15. TakesTurn(p, w)
  BY <1>5, <1>6 DEF TakesTurn, Brings, Uses
<1>16. LeavesTorn(p, w)
  <2> SUFFICES ASSUME NEW g \in Hash, Still(g), NEW i \in Output, compiled'[i][g] = Torn
               PROVE  compiled[i][g] = Torn /\ ~Writes(work[p], g, i)
    BY DEF LeavesTorn
  <2>1. ~(i = o /\ g = h)
    BY <1>7, <1>9, <1>10, CodeIsWhole DEF Still, Undisturbed
  <2>2. QED
    BY <1>1, <1>10, <2>1 DEF Writes
<1>17. AtWork(work[p])'
  BY <1>1, <1>5, <1>6, <1>7, CacheAssumption DEF AtWork, Hashed, Opened, Output
<1>18. Sees(work[p])'
  <2> SUFFICES ASSUME Undisturbed(h) PROVE AtFiles(work[p])'
    BY <1>5, <1>7 DEF Sees, Undisturbed
  <2>1. work[p].code \in CodeOf(h) /\ \A i \in Output \ work[p].todo : compiled[i][h] \in CodeOf(h)
    BY <1>1, <1>6 DEF Sees, AtFiles, Whole
  <2>2. \A i \in Output \ w.todo : compiled'[i][h] \in CodeOf(h)
    BY <1>5, <1>6, <1>9, <1>10, <2>1
  <2>3. CASE last
    BY <1>5, <1>6, <2>2, <2>3 DEF AtFiles, Whole, NoFiles
  <2>4. CASE ~last
    BY <1>5, <1>6, <2>1, <2>2, <2>4, CacheAssumption DEF AtFiles, Whole, Output
  <2>5. QED
    BY <2>3, <2>4
<1>19. QED
  BY <1>4, <1>11, <1>12, <1>13, <1>14, <1>15, <1>16, <1>17, <1>18, ProcessStep

LEMMA Uploads ==
  ASSUME CacheInv, NEW p \in Procs, NEW o \in Output, upload_compiled_program(p, o)
  PROVE  CacheInv'
<1> DEFINE code == compiled[o][work[p].hash]
           done == IF o = "Bytecode" THEN "uploaded" ELSE "compiled"
           w == [work[p] EXCEPT !.workdir = [work[p].workdir EXCEPT ![o] = code], !.step = done]
           h == work[p].hash
<1>1. work[p] \in Work /\ AtWork(work[p]) /\ Sees(work[p]) /\ work[p].step = "compiled"
  BY DEF CacheInv, CacheTypeOK, Working, upload_compiled_program
<1>2. /\ h \in Hash /\ Hashed(work[p]) /\ work[p].config \in Configs /\ Source[h] # None
      /\ Uses(work[p], h) /\ work[p].open \notin CacheFile
  BY <1>1 DEF AtWork, Hashed, Step, Uses, Opened, CacheFile
<1>3. code \in Code \cup {None, Torn}
  BY <1>2 DEF CacheInv, CacheTypeOK
<1>4. w \in Work
  BY <1>1, <1>3 DEF Work, Step
<1>5. work' = [work EXCEPT ![p] = w]
  BY <1>1 DEF upload_compiled_program, Work, CacheInv, CacheTypeOK
<1>6. /\ w.hash = h /\ w.config = work[p].config /\ w.step = done /\ w.open = work[p].open /\ work'[p] = w
      /\ w.workdir[o] = code /\ \A i \in Output \ {o} : w.workdir[i] = work[p].workdir[i]
  BY <1>1, <1>5 DEF Work, CacheInv, CacheTypeOK
<1>7. UNCHANGED <<program, library, Source, Dependencies, compiled, disturbed>>
  BY DEF upload_compiled_program
<1>8. AtWork(work[p])'
  BY <1>2, <1>6, <1>7 DEF AtWork, Hashed, Opened, CacheFile
<1>9. Sees(work[p])'
  <2> SUFFICES ASSUME Undisturbed(h) PROVE AtFiles(work[p])'
    BY <1>6, <1>7 DEF Sees, Undisturbed
  <2>1. \A i \in Output : compiled[i][h] \in CodeOf(h) /\ work[p].workdir[i] \in CodeOf(h) \cup {None}
    BY <1>1, <1>2 DEF Sees, AtFiles, Whole
  <2>2. \A i \in Output : w.workdir[i] \in CodeOf(h) \cup {None}
    BY <1>6, <2>1
  <2>3. o = "Bytecode" => \A i \in Output : w.workdir[i] \in CodeOf(h)
    BY <1>6, <2>1 DEF upload_compiled_program, Output
  <2>4. QED
    BY <1>6, <1>7, <2>1, <2>2, <2>3 DEF AtFiles, Whole
<1>10. \/ w.step \notin {"copying", "copied", "importing", "ready", "writing", "compiled"}
       \/ Uses(work[p], w.hash) /\ w.step = "compiled"
  BY <1>2, <1>6
<1>11. work[p].step # "writing"
  BY <1>1
<1> HIDE DEF w
<1>12. QED
  BY <1>4, <1>5, <1>7, <1>8, <1>9, <1>10, <1>11, PlainStep

\* Edits change no record and no file of the MP-SPDZ directory.
LEMMA EditKeepsCache ==
  ASSUME CacheInv, EditFiles \/ UNCHANGED cacheVars
  PROVE  CacheInv'
<1>1. UNCHANGED <<Source, Dependencies, compiled, work, disturbed>>
  BY DEF EditFiles, EditProgram, EditLibrary, cacheVars
<1>2. program' \in Nat /\ library' \in Nat /\ program' + library' <= MaxFileEdits
  BY CacheAssumption DEF EditFiles, EditProgram, EditLibrary, cacheVars, CacheInv, CacheTypeOK
<1>3. CacheTypeOK' /\ SourcesOfHash' /\ OutputsOfHash'
  BY <1>1, <1>2 DEF CacheInv, CacheTypeOK, SourcesOfHash, OutputsOfHash, Undisturbed
<1>4. Alone' /\ TornHasWriter'
  BY <1>1 DEF CacheInv, Alone, TornHasWriter, Undisturbed, Brings, Uses, Writes
<1>5. Working'
  <2> SUFFICES ASSUME NEW p \in Procs PROVE AtWork(work[p])' /\ Sees(work[p])'
    BY DEF Working
  <2>1. AtWork(work[p]) /\ Sees(work[p])
    BY DEF CacheInv, Working
  <2>2. AtWork(work[p])'
    BY <1>1, <2>1 DEF AtWork, Hashed, Opened
  <2>3. Sees(work[p])'
    BY <1>1, <2>1 DEF Sees, AtFiles, Whole, Undisturbed
  <2>4. QED
    BY <2>2, <2>3
<1>6. QED
  BY <1>3, <1>4, <1>5 DEF CacheInv

LEMMA CacheStep == CacheInv /\ [CacheNext]_cacheVars => CacheInv'
  BY PerformSubstitution, GetHash, FindCompiled, OpensSource, CopiesSource, BringsDependencies, StartsCompiler,
     OpensOutput, WritesOutput, Uploads, Ends, EditKeepsCache DEF CacheNext, CompileStep

\* What is found under a hash is of its text and for its domain, and who compiles is alone
\* with the files, until a compilation ends while it writes an output or meets another one
\* (programhandler.py:81-94, 173-186).
THEOREM CacheInvariant == CacheSpec => []CacheInv
<1>1. CacheInit => CacheInv
  BY CacheInit1
<1>2. CacheInv /\ [CacheNext]_cacheVars => CacheInv'
  BY CacheStep
<1>3. QED
  BY <1>1, <1>2, PTL DEF CacheSpec

\* A process runs a program of which it has all files, each to its end, compiled from the
\* very text it hashed and for the domain of its protocol, for any number of processes and
\* edits, unless a compilation of its hash ended while it wrote an output or met another
\* one (programhandler.py:42-79, 173-186, 210-219).
THEOREM CacheUploadsWhole == CacheSpec => []UploadedIsWholeAndOfItsText
<1>1. CacheInv => UploadedIsWholeAndOfItsText
  <2> SUFFICES ASSUME CacheInv, NEW p \in Procs, work[p].step = "uploaded", Undisturbed(work[p].hash),
                      NEW o \in Output
               PROVE  /\ work[p].workdir[o] \notin {None, Torn}
                      /\ work[p].workdir[o].text = work[p].hash.text
                      /\ Domain[work[p].workdir[o].config] = work[p].hash.domain
    BY DEF UploadedIsWholeAndOfItsText
  <2>1. AtWork(work[p]) /\ Sees(work[p])
    BY DEF CacheInv, Working
  <2>2. work[p].workdir[o] \in CodeOf(work[p].hash)
    BY <2>1 DEF AtWork, Hashed, Sees, AtFiles, Step
  <2>3. QED
    BY <2>2, CodeIsWhole DEF CodeOf
<1>2. QED
  BY <1>1, CacheInvariant, PTL

(***************************************************************************)
(* The exchange of experiments and reports.                                *)
(***************************************************************************)


Phase == {"idle", "passing", "returned", "aborted"}
JobStepName == {"none", "fetch", "put_hash", "download", "report_failure", "send", "send_error", "ended",
                "crashed"}
StateName == {"none", "new", "hashed", "compiled", "done", "failed"}
MaybeVersion == Version \cup {None}

PushRecord ==
  [phase : Phase, update : BOOLEAN, failed_only : BOOLEAN, pass : Nat, todo : SUBSET Post, next : SUBSET Post,
   dropped : SUBSET Specs, seen_failed : SUBSET Specs, updated : SUBSET Specs]
JobRecord ==
  [kind : {"get_hash", "compile", "run", None}, step : JobStepName, version : MaybeVersion,
   expected : MaybeVersion, code : MaybeVersion, attempt : Nat, stored : BOOLEAN,
   errored : BOOLEAN, refused : BOOLEAN, lost : BOOLEAN]
Experiment == [state : StateName, hash : MaybeVersion, reported : MaybeVersion]
ReportRecord == [spec : Specs, code : MaybeVersion, expected : MaybeVersion]

BackendType ==
  /\ experiments \in [Specs -> Experiment] /\ programs \in [Version -> MaybeVersion]
  /\ reports \in Seq(ReportRecord)
ExchangeTypeOK ==
  /\ version \in Version
  /\ BackendType
  /\ push \in PushRecord /\ job \in [Specs -> JobRecord]

(***************************************************************************)
(* The upload                                                              *)
(***************************************************************************)
Pending == push.todo \cup push.next

\* An experiment has one post under way.
OnePost ==
  /\ \A a, b \in push.todo : a.spec = b.spec => a = b
  /\ \A a, b \in push.next : a.spec = b.spec => a = b
  /\ \A a \in push.todo, b \in push.next : a.spec # b.spec

\* The post that orders to run a failed experiment again is the second one.
SecondPosts ==
  push.failed_only =>
    /\ ~push.update
    /\ \A post \in Pending : /\ post.force_update <=> post.spec \in push.seen_failed
                             /\ post.first_upload <=> ~post.force_update

\* What becomes of an experiment: its connection broke, its post is under way, or it was
\* answered.
Answered(e) ==
  experiments[e].state # "none" /\ (push.failed_only /\ e \in push.seen_failed => e \in push.updated)
Accounted ==
  push.phase \in {"passing", "returned"} =>
    \A e \in Specs : e \in push.dropped \/ (\E post \in Pending : post.spec = e) \/ Answered(e)

UploadInv ==
  /\ OnePost /\ SecondPosts /\ Accounted
  /\ push.failed_only => push.updated \subseteq push.seen_failed
  /\ push.phase = "passing" => push.pass < MaxPasses
  /\ push.phase = "returned" => push.todo = {} /\ (push.next # {} => push.pass = MaxPasses - 1)

(***************************************************************************)
(* The jobs                                                                *)
(***************************************************************************)

\* The code under a hash is of the version the hash stands for.
ProgramsOfHash == \A h \in Version : programs[h] \in {h, None}

\* A job brings a product only if its repository is of the expected hash, and leaves an
\* error or a refused one besides only if the answer to the product was lost.
JobInOrder(j) ==
  /\ j.step \notin Ended => j.version \in Version /\ (j.stored => j.lost)
  /\ j.step \notin Ended \cup {"send_error"} => ~j.errored /\ j.kind \in {"get_hash", "compile", "run"}
  /\ j.step \notin Ended => ~j.refused
  /\ j.step = "put_hash" => j.kind = "get_hash"
  /\ j.step = "download" => j.kind = "run" /\ j.expected = j.version
  /\ j.step = "send" => j.kind \in {"compile", "run"} /\ j.code = j.version /\ j.expected = j.version
  /\ j.step = "ended" /\ j.kind \in {"compile", "run"} =>
       (j.stored \/ j.errored \/ j.refused) /\ (j.stored /\ (j.errored \/ j.refused) => j.lost)

JobsInv ==
  /\ ProgramsOfHash /\ \A e \in Specs : JobInOrder(job[e])
  /\ \A k \in 1 .. Len(reports) : reports[k].code = reports[k].expected

ExchangeInv == ExchangeTypeOK /\ UploadInv /\ JobsInv

(***************************************************************************)
(* The download                                                            *)
(***************************************************************************)
DownloadTypeOK ==
  /\ arrived \in 0 .. MaxReports
  /\ folder \in [Report -> {None, "whole", "torn"}]
  /\ pull \in [phase : {"listed", "downloading", "returned", "aborted"}, listed : SUBSET Report,
               report_ids : SUBSET Report, open : SUBSET Report]
  /\ interrupted \subseteq Report

\* A file is torn while it is written, and stays so if the pull ends in between; it is
\* never written again.
FilesInOrder ==
  /\ \A i \in Report : folder[i] = "torn" <=> i \in interrupted \cup pull.open
  /\ pull.phase = "aborted" => pull.open \subseteq interrupted
  /\ pull.phase # "aborted" => pull.open \cap interrupted = {}
  /\ pull.phase \in {"listed", "returned"} => pull.open = {}

\* A report that was listed has a file or is still to be opened.
ListedInOrder ==
  /\ pull.phase = "downloading" =>
       /\ \A i \in pull.report_ids : folder[i] = None
       /\ \A i \in pull.listed : i \in pull.report_ids \/ folder[i] # None
  /\ pull.phase = "returned" => \A i \in pull.listed : folder[i] # None

DownloadInv == DownloadTypeOK /\ FilesInOrder /\ ListedInOrder

(***************************************************************************)
(* Proofs: the backend                                                     *)
(***************************************************************************)
Known(exps) == \A e \in Specs : experiments[e].state # "none" => exps[e].state # "none"

LEMMA TakesExperiment ==
  ASSUME experiments \in [Specs -> Experiment], NEW e \in Specs, NEW update \in BOOLEAN
  PROVE  /\ TakeExperiment(e, update) \in [Specs -> Experiment] /\ Known(TakeExperiment(e, update))
         /\ TakeExperiment(e, update)[e].state # "none"
  BY DEF TakeExperiment, Experiment, StateName, Known

LEMMA TakesHash ==
  ASSUME experiments \in [Specs -> Experiment], NEW e \in Specs, NEW h \in Version
  PROVE  TakeHash(e, h) \in [Specs -> Experiment] /\ Known(TakeHash(e, h))
<1> DEFINE state == IF experiments[e].reported = h THEN "done"
                    ELSE IF programs[h] # None THEN "compiled" ELSE "hashed"
<1>1. state \in StateName \ {"none"}
  BY DEF StateName
<1>2. TakeHash(e, h) = [experiments EXCEPT ![e].hash = h, ![e].state = state]
  BY DEF TakeHash
<1> HIDE DEF state
<1> DEFINE new == [experiments[e] EXCEPT !.hash = h, !.state = state]
<1>3. new \in Experiment /\ new.state # "none"
  BY <1>1 DEF Experiment, MaybeVersion
<1>4. TakeHash(e, h) = [experiments EXCEPT ![e] = new]
  BY <1>2 DEF Experiment
<1> HIDE DEF new
<1>5. QED
  BY <1>3, <1>4 DEF Known

LEMMA TakesProgram ==
  ASSUME experiments \in [Specs -> Experiment], NEW h \in Version
  PROVE  TakeProgram(h) \in [Specs -> Experiment] /\ Known(TakeProgram(h))
  BY DEF TakeProgram, Experiment, StateName, Known

LEMMA TakesReport ==
  ASSUME experiments \in [Specs -> Experiment], NEW e \in Specs, NEW h \in Version
  PROVE  TakeReport(e, h) \in [Specs -> Experiment] /\ Known(TakeReport(e, h))
  BY DEF TakeReport, Experiment, StateName, MaybeVersion, Known

LEMMA TakesError ==
  ASSUME experiments \in [Specs -> Experiment], NEW e \in Specs
  PROVE  TakeError(e) \in [Specs -> Experiment] /\ Known(TakeError(e))
  BY DEF TakeError, Experiment, StateName, MaybeVersion, Known

(***************************************************************************)
(* Proofs: the jobs                                                        *)
(***************************************************************************)

\* What happens to experiments an upload knows of leaves its account as it is.
LEMMA UploadKept ==
  ASSUME UploadInv, push' = push, Known(experiments')
  PROVE  UploadInv'
<1>1. OnePost' /\ SecondPosts'
  BY DEF UploadInv, OnePost, SecondPosts, Pending
<1>2. \A e \in Specs : Answered(e) => Answered(e)'
  BY DEF Answered, Known
<1>3. Accounted'
  BY <1>2 DEF UploadInv, Accounted, Pending
<1>4. QED
  BY <1>1, <1>3 DEF UploadInv

\* What a step of a job has to respect.
LEMMA JobBecomes ==
  ASSUME ExchangeInv, NEW e \in Specs, NEW j \in JobRecord, JobInOrder(j), job' = [job EXCEPT ![e] = j],
         UNCHANGED <<version, push>>, experiments' \in [Specs -> Experiment], Known(experiments'),
         programs' \in [Version -> MaybeVersion], \A h \in Version : programs'[h] \in {h, None},
         reports' \in Seq(ReportRecord), \A k \in 1 .. Len(reports') : reports'[k].code = reports'[k].expected
  PROVE  ExchangeInv'
<1>1. ExchangeTypeOK'
  BY DEF ExchangeInv, ExchangeTypeOK, BackendType
<1>2. UploadInv'
  BY UploadKept DEF ExchangeInv
<1>3. \A q \in Specs : JobInOrder(job'[q])
  BY DEF ExchangeInv, ExchangeTypeOK, JobsInv
<1>4. QED
  BY <1>1, <1>2, <1>3 DEF ExchangeInv, JobsInv, ProgramsOfHash

LEMMA JobBecomesAlone ==
  ASSUME ExchangeInv, NEW e \in Specs, NEW j \in JobRecord, JobInOrder(j), job' = [job EXCEPT ![e] = j],
         UNCHANGED <<version, push, programs, reports>>,
         experiments' \in [Specs -> Experiment], Known(experiments')
  PROVE  ExchangeInv'
<1>1. /\ programs \in [Version -> MaybeVersion] /\ \A h \in Version : programs[h] \in {h, None}
      /\ reports \in Seq(ReportRecord) /\ \A k \in 1 .. Len(reports) : reports[k].code = reports[k].expected
  BY DEF ExchangeInv, ExchangeTypeOK, BackendType, JobsInv, ProgramsOfHash
<1>2. QED
  BY <1>1, JobBecomes

\* What is kept of a job that goes on or ends.
LEMMA LeftOf ==
  ASSUME NEW j \in JobRecord, NEW step \in JobStepName
  PROVE  /\ Left(j, step) \in JobRecord /\ Left(j, step).step = step /\ Left(j, step).kind = j.kind
         /\ Left(j, step).stored = j.stored /\ Left(j, step).errored = j.errored
         /\ Left(j, step).refused = j.refused /\ Left(j, step).lost = j.lost
         /\ step \notin Ended => Left(j, step).version = j.version
<1>1. CASE step \in Ended
  BY <1>1 DEF Left, NoJob, JobRecord, JobStepName, MaybeVersion
<1>2. CASE step \notin Ended
  BY <1>2 DEF Left, JobRecord
<1>3. QED
  BY <1>1, <1>2

LEMMA JobFacts ==
  ASSUME ExchangeInv, NEW e \in Specs
  PROVE  /\ job[e] \in JobRecord /\ JobInOrder(job[e]) /\ experiments \in [Specs -> Experiment]
         /\ experiments[e] \in Experiment /\ experiments[e].hash \in MaybeVersion /\ version \in Version
         /\ programs \in [Version -> MaybeVersion] /\ \A h \in Version : programs[h] \in {h, None}
         /\ reports \in Seq(ReportRecord)
         /\ \A k \in 1 .. Len(reports) : reports[k].code = reports[k].expected
  BY DEF ExchangeInv, ExchangeTypeOK, BackendType, JobsInv, ProgramsOfHash, Experiment

LEMMA StartsJob == ASSUME ExchangeInv, NEW e \in Specs, StartJob(e) PROVE ExchangeInv'
<1>1. PICK kind \in {"get_hash", "compile", "run"} :
        job' = [job EXCEPT ![e] = [NoJob EXCEPT !.kind = kind, !.version = version, !.step = "fetch"]]
  BY DEF StartJob
<1> DEFINE j == [NoJob EXCEPT !.kind = kind, !.version = version, !.step = "fetch"]
<1>2. j \in JobRecord /\ JobInOrder(j)
  BY JobFacts DEF NoJob, JobRecord, JobStepName, MaybeVersion, JobInOrder, Ended
<1>3. UNCHANGED <<version, push, programs, reports, experiments>>
  BY DEF StartJob, JobOnly, backendVars, pushVars
<1>4. Known(experiments')
  BY <1>3 DEF Known
<1> HIDE DEF j
<1>5. QED
  BY <1>1, <1>2, <1>3, <1>4, JobFacts, JobBecomesAlone DEF j

LEMMA FetchesSpec == ASSUME ExchangeInv, NEW e \in Specs, FetchSpec(e) PROVE ExchangeInv'
<1> DEFINE next == IF job[e].kind = "get_hash" THEN "put_hash"
                   ELSE IF ~HashAgrees(e) THEN "send_error"
                   ELSE IF job[e].kind = "compile" THEN "send" ELSE "download"
           code == IF job[e].kind = "compile" THEN job[e].version ELSE None
           j == [job[e] EXCEPT !.expected = experiments[e].hash, !.code = code, !.step = next]
<1>1. job[e] \in JobRecord /\ JobInOrder(job[e]) /\ job[e].step = "fetch" /\ experiments[e].hash \in MaybeVersion
  BY JobFacts DEF FetchSpec, At
<1>2. job' = [job EXCEPT ![e] = j]
  BY <1>1 DEF FetchSpec, ExchangeInv, ExchangeTypeOK, JobRecord
<1>3. next \in JobStepName /\ code \in MaybeVersion
  BY <1>1 DEF JobStepName, MaybeVersion, JobRecord
<1>4. HashAgrees(e) <=> job[e].version = experiments[e].hash
  BY DEF HashAgrees, program_hash
<1>5. j \in JobRecord
  BY <1>1, <1>3 DEF JobRecord
<1>6. /\ j.step = next /\ j.code = code /\ j.expected = experiments[e].hash /\ j.kind = job[e].kind
      /\ j.version = job[e].version /\ j.errored = job[e].errored /\ j.stored = job[e].stored
      /\ j.refused = job[e].refused /\ j.lost = job[e].lost
  BY <1>1 DEF JobRecord
<1>7. JobInOrder(j)
  BY <1>1, <1>4, <1>6 DEF JobInOrder, Ended
<1>8. UNCHANGED <<version, push, programs, reports, experiments>>
  BY DEF FetchSpec, JobOnly, backendVars, pushVars
<1>9. Known(experiments')
  BY <1>8 DEF Known
<1> HIDE DEF j
<1>10. QED
  BY <1>2, <1>5, <1>7, <1>8, <1>9, JobFacts, JobBecomesAlone

LEMMA RaisesInOrder == ASSUME ExchangeInv, NEW e \in Specs, Raises(e) PROVE ExchangeInv'
<1> DEFINE j == Left(job[e], "send_error")
<1>1. job[e] \in JobRecord /\ JobInOrder(job[e]) /\ job[e].step \notin Ended
  BY JobFacts DEF Raises, Ended
<1>2. job' = [job EXCEPT ![e] = j]
  BY DEF Raises, Goto
<1>3. j \in JobRecord /\ JobInOrder(j)
  BY <1>1, LeftOf DEF JobStepName, JobInOrder, Ended
<1>4. experiments' = experiments \/ experiments' = TakeHash(e, job[e].version)
  BY DEF Raises, program_hash
<1>5. experiments' \in [Specs -> Experiment] /\ Known(experiments')
  <2>1. job[e].version \in Version
    BY <1>1 DEF JobInOrder
  <2>2. QED
    BY <1>4, <2>1, JobFacts, TakesHash DEF Known
<1>6. UNCHANGED <<version, push, programs, reports>>
  BY DEF Raises, pushVars
<1> HIDE DEF j
<1>7. QED
  BY <1>2, <1>3, <1>5, <1>6, JobBecomesAlone

LEMMA HashesProgram == ASSUME ExchangeInv, NEW e \in Specs, get_experiment_hash(e) PROVE ExchangeInv'
<1> DEFINE j == Left(job[e], "ended")
<1>1. job[e] \in JobRecord /\ JobInOrder(job[e]) /\ job[e].step = "put_hash"
  BY JobFacts DEF get_experiment_hash, At
<1>2. job' = [job EXCEPT ![e] = j]
  BY DEF get_experiment_hash, Goto
<1>3. j \in JobRecord /\ JobInOrder(j)
  BY <1>1, LeftOf DEF JobStepName, JobInOrder, Ended
<1>4. experiments' = experiments \/ experiments' = TakeHash(e, job[e].version)
  BY DEF get_experiment_hash, program_hash
<1>5. experiments' \in [Specs -> Experiment] /\ Known(experiments')
  <2>1. job[e].version \in Version
    BY <1>1 DEF JobInOrder, Ended
  <2>2. QED
    BY <1>4, <2>1, JobFacts, TakesHash DEF Known
<1>6. UNCHANGED <<version, push, programs, reports>>
  BY DEF get_experiment_hash, pushVars
<1> HIDE DEF j
<1>7. QED
  BY <1>2, <1>3, <1>5, <1>6, JobBecomesAlone

LEMMA RunsExperiment == ASSUME ExchangeInv, NEW e \in Specs, run_experiment(e) PROVE ExchangeInv'
<1> DEFINE code == programs[job[e].version]
<1>1. job[e] \in JobRecord /\ JobInOrder(job[e]) /\ job[e].step = "download"
  BY JobFacts DEF run_experiment, At
<1>2. job[e].version \in Version /\ job[e].kind = "run" /\ job[e].expected = job[e].version
  BY <1>1 DEF JobInOrder, Ended
<1>3. code \in MaybeVersion /\ (code # None => code = job[e].version)
  BY <1>2, JobFacts
<1>4. PICK outcome \in {"send", "report_failure"} :
        job' = [job EXCEPT ![e].code = code, ![e].step = IF code # None THEN outcome ELSE "send_error"]
  BY DEF run_experiment, program_hash
<1> DEFINE next == IF code # None THEN outcome ELSE "send_error"
           j == [job[e] EXCEPT !.code = code, !.step = next]
<1> HIDE DEF code
<1>5. j \in JobRecord
  BY <1>1, <1>3, <1>4 DEF JobRecord, JobStepName
<1>6. job' = [job EXCEPT ![e] = j]
  BY <1>1, <1>4 DEF ExchangeInv, ExchangeTypeOK, JobRecord
<1>7. /\ j.step = next /\ j.code = code /\ j.expected = job[e].expected /\ j.kind = job[e].kind
      /\ j.version = job[e].version /\ j.errored = job[e].errored /\ j.stored = job[e].stored
      /\ j.refused = job[e].refused /\ j.lost = job[e].lost
  BY <1>1 DEF JobRecord
<1>8. JobInOrder(j)
  BY <1>1, <1>2, <1>3, <1>7 DEF JobInOrder, Ended
<1>9. UNCHANGED <<version, push, programs, reports, experiments>>
  BY DEF run_experiment, JobOnly, backendVars, pushVars
<1>10. Known(experiments')
  BY <1>9 DEF Known
<1> HIDE DEF j
<1>11. QED
  BY <1>5, <1>6, <1>8, <1>9, <1>10, JobFacts, JobBecomesAlone

\* What is stored is of the hash it is stored under, and reported as what it is.
LEMMA StoresExpected ==
  ASSUME ExchangeInv, NEW e \in Specs, job[e].step = "send", Store(e)
  PROVE  /\ experiments' \in [Specs -> Experiment] /\ Known(experiments')
         /\ programs' \in [Version -> MaybeVersion] /\ \A h \in Version : programs'[h] \in {h, None}
         /\ reports' \in Seq(ReportRecord)
         /\ \A k \in 1 .. Len(reports') : reports'[k].code = reports'[k].expected
<1>1. /\ job[e].version \in Version /\ job[e].kind \in {"compile", "run"}
      /\ job[e].code = job[e].version /\ job[e].expected = job[e].version
  BY JobFacts DEF JobInOrder, Ended
<1>2. CASE job[e].kind = "compile"
  <2>1. /\ programs' = [programs EXCEPT ![job[e].version] = job[e].version]
        /\ experiments' = TakeProgram(job[e].version) /\ reports' = reports
    BY <1>1, <1>2 DEF Store, program_hash
  <2>2. programs' \in [Version -> MaybeVersion] /\ \A h \in Version : programs'[h] \in {h, None}
    BY <1>1, <2>1, JobFacts DEF MaybeVersion
  <2>3. experiments' \in [Specs -> Experiment] /\ Known(experiments')
    BY <1>1, <2>1, JobFacts, TakesProgram
  <2>4. QED
    BY <2>1, <2>2, <2>3, JobFacts
<1>3. CASE job[e].kind # "compile"
  <2> DEFINE answer == [spec |-> e, code |-> job[e].code, expected |-> job[e].expected]
  <2>1. reports' = Append(reports, answer) /\ experiments' = TakeReport(e, job[e].version) /\ programs' = programs
    BY <1>1, <1>3 DEF Store
  <2>2. answer \in ReportRecord /\ answer.code = answer.expected
    BY <1>1 DEF ReportRecord, MaybeVersion
  <2>3. experiments' \in [Specs -> Experiment] /\ Known(experiments')
    BY <1>1, <2>1, JobFacts, TakesReport
  <2> HIDE DEF answer
  <2>4. reports' \in Seq(ReportRecord)
    BY <2>1, <2>2, JobFacts
  <2>5. ASSUME NEW k \in 1 .. Len(reports') PROVE reports'[k].code = reports'[k].expected
    <3>1. reports \in Seq(ReportRecord) /\ \A i \in 1 .. Len(reports) : reports[i].code = reports[i].expected
      BY JobFacts
    <3>2. CASE k = Len(reports) + 1
      BY <2>1, <2>2, <3>1, <3>2
    <3>3. CASE k # Len(reports) + 1
      BY <2>1, <2>2, <3>1, <3>3
    <3>4. QED
      BY <3>2, <3>3
  <2>6. QED
    BY <2>1, <2>3, <2>4, <2>5, JobFacts
<1>4. QED
  BY <1>2, <1>3

LEMMA SendsWithRetry == ASSUME ExchangeInv, NEW e \in Specs, send_with_retry(e) PROVE ExchangeInv'
<1> DEFINE attempt == job[e].attempt + 1
           again == [job[e] EXCEPT !.attempt = attempt]
           stored == [job[e] EXCEPT !.stored = TRUE]
           more == job[e].attempt + 1 < MaxAttempts
           Repeats(next) == [again EXCEPT !.step = next]
           Unanswered(next) == [again EXCEPT !.step = next, !.stored = TRUE, !.lost = TRUE]
<1>1. job[e] \in JobRecord /\ JobInOrder(job[e]) /\ job[e].step = "send" /\ UNCHANGED <<version, push>>
  BY JobFacts DEF send_with_retry, At, pushVars
<1>2. /\ job[e].version \in Version /\ job[e].kind \in {"compile", "run"} /\ ~job[e].errored /\ ~job[e].refused
      /\ job[e].code = job[e].version /\ job[e].expected = job[e].version /\ (job[e].stored => job[e].lost)
  BY <1>1 DEF JobInOrder, Ended
<1>3. /\ \/ Store(e) /\ job' = [job EXCEPT ![e] = Left(stored, "ended")]
         \/ \E next \in {"send_error"} \cup (IF more THEN {"send"} ELSE {}) :
              \/ Store(e) /\ job' = [job EXCEPT ![e] = Unanswered(next)]
              \/ UNCHANGED backendVars /\ job' = [job EXCEPT ![e] = Repeats(next)]
  BY DEF send_with_retry
<1>4. attempt \in Nat
  BY <1>1 DEF JobRecord
<1> HIDE DEF attempt, more
<1>5. \/ Store(e) /\ job' = [job EXCEPT ![e] = Left(stored, "ended")]
      \/ \E next \in {"send", "send_error"} : Store(e) /\ job' = [job EXCEPT ![e] = Unanswered(next)]
      \/ \E next \in {"send", "send_error"} : UNCHANGED backendVars /\ job' = [job EXCEPT ![e] = Repeats(next)]
  BY <1>3
<1>6. CASE Store(e) /\ job' = [job EXCEPT ![e] = Left(stored, "ended")]
  <2> DEFINE j == Left(stored, "ended")
  <2>1. /\ stored \in JobRecord /\ stored.kind = job[e].kind /\ stored.stored = TRUE
        /\ stored.errored = job[e].errored /\ stored.refused = job[e].refused
    BY <1>1 DEF JobRecord
  <2> HIDE DEF stored
  <2>2. j \in JobRecord /\ JobInOrder(j)
    BY <1>2, <2>1, LeftOf DEF JobStepName, JobInOrder, Ended
  <2> HIDE DEF j
  <2>3. QED
    BY <1>1, <1>6, <2>2, StoresExpected, JobBecomes DEF j
<1>7. ASSUME NEW next \in {"send", "send_error"}, Store(e), job' = [job EXCEPT ![e] = Unanswered(next)]
      PROVE  ExchangeInv'
  <2> DEFINE j == Unanswered(next)
  <2>1. /\ j \in JobRecord /\ j.step = next /\ j.kind = job[e].kind /\ j.version = job[e].version
        /\ j.code = job[e].code /\ j.expected = job[e].expected /\ j.stored = TRUE /\ j.lost = TRUE
        /\ j.errored = job[e].errored /\ j.refused = job[e].refused
    BY <1>1, <1>4 DEF JobRecord, JobStepName
  <2> HIDE DEF j
  <2>2. JobInOrder(j)
    BY <1>2, <2>1 DEF JobInOrder, Ended
  <2>3. QED
    BY <1>1, <1>7, <2>1, <2>2, StoresExpected, JobBecomes DEF j
<1>8. ASSUME NEW next \in {"send", "send_error"}, UNCHANGED backendVars, job' = [job EXCEPT ![e] = Repeats(next)]
      PROVE  ExchangeInv'
  <2> DEFINE j == Repeats(next)
  <2>1. /\ j \in JobRecord /\ j.step = next /\ j.kind = job[e].kind /\ j.version = job[e].version
        /\ j.code = job[e].code /\ j.expected = job[e].expected /\ j.stored = job[e].stored
        /\ j.lost = job[e].lost /\ j.errored = job[e].errored /\ j.refused = job[e].refused
    BY <1>1, <1>4 DEF JobRecord, JobStepName
  <2> HIDE DEF j
  <2>2. JobInOrder(j)
    BY <1>2, <2>1 DEF JobInOrder, Ended
  <2>3. UNCHANGED <<programs, reports, experiments>> /\ Known(experiments')
    BY <1>8 DEF backendVars, Known
  <2>4. QED
    BY <1>1, <1>8, <2>1, <2>2, <2>3, JobFacts, JobBecomesAlone DEF j
<1>9. QED
  BY <1>5, <1>6, <1>7, <1>8

LEMMA SendsError == ASSUME ExchangeInv, NEW e \in Specs, send_error(e) PROVE ExchangeInv'
<1> DEFINE errored == [job[e] EXCEPT !.errored = TRUE]
           refused == [job[e] EXCEPT !.refused = TRUE]
<1>1. /\ job[e] \in JobRecord /\ JobInOrder(job[e]) /\ job[e].step \in {"report_failure", "send_error"}
      /\ UNCHANGED <<version, push, programs, reports>>
  BY JobFacts DEF send_error, pushVars
<1>2. job[e].version \in Version /\ (job[e].stored => job[e].lost) /\ ~job[e].refused
  BY <1>1 DEF JobInOrder, Ended
<1>3. /\ errored \in JobRecord /\ errored.kind = job[e].kind /\ errored.errored = TRUE
      /\ errored.stored = job[e].stored /\ errored.lost = job[e].lost /\ errored.refused = job[e].refused
      /\ errored.version = job[e].version
  BY <1>1 DEF JobRecord
<1>4. /\ refused \in JobRecord /\ refused.kind = job[e].kind /\ refused.refused = TRUE
      /\ refused.stored = job[e].stored /\ refused.lost = job[e].lost /\ refused.errored = job[e].errored
  BY <1>1 DEF JobRecord
<1>5. \E next \in {"send_error", "crashed"} :
        \/ experiments' = TakeError(e) /\ job' = [job EXCEPT ![e] = Left(errored, "ended")]
        \/ experiments' = experiments /\ job' = [job EXCEPT ![e] = Left(refused, "ended")]
        \/ experiments' = TakeError(e) /\ job' = [job EXCEPT ![e] = Left(errored, next)]
        \/ experiments' = experiments /\ job' = [job EXCEPT ![e] = Left(job[e], next)]
  BY DEF send_error, AfterError, RaisesTo
<1>6. experiments' \in [Specs -> Experiment] /\ Known(experiments')
  BY <1>5, JobFacts, TakesError DEF Known
<1> HIDE DEF errored, refused
<1>7. ASSUME NEW j \in {errored, refused}, job' = [job EXCEPT ![e] = Left(j, "ended")] PROVE ExchangeInv'
  <2>1. Left(j, "ended") \in JobRecord /\ JobInOrder(Left(j, "ended"))
    BY <1>2, <1>3, <1>4, LeftOf DEF JobStepName, JobInOrder, Ended
  <2>2. QED
    BY <1>1, <1>6, <1>7, <2>1, JobBecomesAlone
<1>8. ASSUME NEW j \in {errored, job[e]}, NEW next \in {"send_error", "crashed"},
             job' = [job EXCEPT ![e] = Left(j, next)]
      PROVE  ExchangeInv'
  <2>1. j \in JobRecord /\ j.version \in Version /\ (j.stored => j.lost) /\ ~j.refused
    BY <1>1, <1>2, <1>3
  <2>2. Left(j, next) \in JobRecord /\ JobInOrder(Left(j, next))
    BY <2>1, LeftOf DEF JobStepName, JobInOrder, Ended
  <2>3. QED
    BY <1>1, <1>6, <1>8, <2>2, JobBecomesAlone
<1>9. QED
  BY <1>5, <1>7, <1>8

LEMMA Crashes == ASSUME ExchangeInv, NEW e \in Specs, Crash(e) PROVE ExchangeInv'
<1> DEFINE j == Left(job[e], "crashed")
<1>1. job' = [job EXCEPT ![e] = j] /\ UNCHANGED <<version, push, programs, reports, experiments>>
  BY DEF Crash, Goto, backendVars, pushVars
<1>2. j \in JobRecord /\ JobInOrder(j)
  BY JobFacts, LeftOf DEF JobStepName, JobInOrder, Ended
<1>3. Known(experiments')
  BY <1>1 DEF Known
<1> HIDE DEF j
<1>4. QED
  BY <1>1, <1>2, <1>3, JobFacts, JobBecomesAlone

(***************************************************************************)
(* Proofs: the upload                                                      *)
(***************************************************************************)
LEMMA PushFacts ==
  ASSUME ExchangeInv
  PROVE  /\ push \in PushRecord /\ push.todo \subseteq Post /\ push.next \subseteq Post
         /\ push.update \in BOOLEAN /\ push.failed_only \in BOOLEAN /\ push.pass \in Nat
         /\ UploadInv /\ experiments \in [Specs -> Experiment]
  BY DEF ExchangeInv, ExchangeTypeOK, BackendType, PushRecord

\* What a step of the upload has to respect.
LEMMA UploadBecomes ==
  ASSUME ExchangeInv, UNCHANGED <<version, programs, reports, job>>, push' \in PushRecord,
         experiments' \in [Specs -> Experiment], UploadInv'
  PROVE  ExchangeInv'
  BY DEF ExchangeInv, ExchangeTypeOK, BackendType, JobsInv, ProgramsOfHash

\* A post that is answered, times out or is dropped touches the account of no
\* experiment but its own.
LEMMA PostAccounted ==
  ASSUME ExchangeInv, push.phase = "passing", NEW post \in push.todo, NEW new \in SUBSET Post,
         push' \in PushRecord, push'.phase = "passing", push'.update = push.update,
         push'.failed_only = push.failed_only, push'.pass = push.pass,
         push'.todo = push.todo \ {post}, push'.next = push.next \cup new,
         \A q \in new : q.spec = post.spec, \A a, b \in new : a = b,
         \A e \in Specs \ {post.spec} : /\ e \in push'.seen_failed <=> e \in push.seen_failed
                                        /\ e \in push'.updated <=> e \in push.updated,
         push.dropped \subseteq push'.dropped, Known(experiments'),
         push.failed_only => \A q \in new : /\ q.force_update <=> post.spec \in push'.seen_failed
                                            /\ q.first_upload <=> ~q.force_update,
         post.spec \in push'.dropped \/ new # {}
           \/ (/\ experiments'[post.spec].state # "none"
               /\ push.failed_only /\ post.spec \in push'.seen_failed => post.spec \in push'.updated),
         push.failed_only => (post.spec \in push'.updated => post.spec \in push'.seen_failed)
  PROVE  UploadInv'
<1>1. /\ UploadInv /\ push.todo \subseteq Post /\ push.next \subseteq Post /\ post.spec \in Specs
      /\ push'.updated \subseteq Specs
  BY PushFacts DEF Post, PushRecord
<1>2. \A q \in push.todo \ {post} : q.spec # post.spec /\ q.spec \in Specs
  BY <1>1 DEF UploadInv, OnePost, Post
<1>3. \A q \in push.next : q.spec # post.spec /\ q.spec \in Specs
  BY <1>1 DEF UploadInv, OnePost, Post
<1>4. OnePost'
  BY <1>1, <1>2, <1>3 DEF UploadInv, OnePost
<1>5. SecondPosts'
  <2>1. SUFFICES ASSUME push.failed_only, NEW q \in Pending'
                 PROVE  /\ q.force_update <=> q.spec \in push'.seen_failed
                        /\ q.first_upload <=> ~q.force_update
    BY <1>1 DEF UploadInv, SecondPosts
  <2>2. CASE q \in new
    BY <2>1, <2>2
  <2>3. CASE q \in (push.todo \ {post}) \cup push.next
    <3>1. q \in Pending /\ q.spec \in Specs \ {post.spec}
      BY <1>2, <1>3, <2>3 DEF Pending
    <3>2. /\ q.force_update <=> q.spec \in push.seen_failed
          /\ q.first_upload <=> ~q.force_update
      BY <1>1, <2>1, <3>1 DEF UploadInv, SecondPosts
    <3>3. QED
      BY <3>1, <3>2
  <2>4. QED
    BY <2>2, <2>3 DEF Pending
<1>6. Accounted'
  <2>1. SUFFICES ASSUME NEW e \in Specs
                 PROVE  (e \in push.dropped \/ (\E q \in Pending : q.spec = e) \/ Answered(e))'
    BY DEF Accounted
  <2>2. CASE e = post.spec
    <3>1. new # {} => \E q \in Pending' : q.spec = e
      BY <2>2 DEF Pending
    <3>2. QED
      BY <2>2, <3>1 DEF Answered
  <2>3. CASE e # post.spec
    <3>1. e \in push.dropped \/ (\E q \in Pending : q.spec = e) \/ Answered(e)
      BY <1>1 DEF UploadInv, Accounted
    <3>2. CASE e \in push.dropped
      BY <3>2
    <3>3. CASE \E q \in Pending : q.spec = e
      <4>1. PICK q \in Pending : q.spec = e
        BY <3>3
      <4>2. q \in Pending'
        BY <2>3, <4>1 DEF Pending
      <4>3. QED
        BY <4>1, <4>2
    <3>4. CASE Answered(e)
      BY <2>3, <3>4 DEF Answered, Known
    <3>5. QED
      BY <3>1, <3>2, <3>3, <3>4
  <2>4. QED
    BY <2>2, <2>3
<1>7. push.failed_only => push'.updated \subseteq push'.seen_failed
  BY <1>1 DEF UploadInv
<1>8. QED
  BY <1>1, <1>4, <1>5, <1>6, <1>7 DEF UploadInv

LEMMA UploadsSpec ==
  ASSUME ExchangeInv, NEW post \in push.todo, upload_spec(post)
  PROVE  ExchangeInv'
<1> DEFINE e == post.spec
           updates == push.update \/ post.force_update
           taken == experiments' = TakeExperiment(e, updates)
           retry == push.failed_only /\ experiments'[e].state = "failed"
           updated == IF updates THEN push.updated \cup {e} ELSE push.updated
           second == [spec |-> e, first_upload |-> FALSE, force_update |-> TRUE]
           answered == [push EXCEPT !.todo = push.todo \ {post}, !.updated = updated,
                          !.seen_failed = IF retry THEN push.seen_failed \cup {e} ELSE push.seen_failed,
                          !.next = IF retry /\ post.first_upload THEN push.next \cup {second} ELSE push.next]
           later == [push EXCEPT !.todo = push.todo \ {post}, !.updated = updated, !.next = push.next \cup {post}]
           lost == [push EXCEPT !.todo = push.todo \ {post}, !.updated = updated, !.dropped = push.dropped \cup {e}]
<1>1. /\ push \in PushRecord /\ UploadInv /\ post \in Post /\ e \in Specs /\ push.phase = "passing"
      /\ updates \in BOOLEAN /\ post.force_update \in BOOLEAN /\ post.first_upload \in BOOLEAN
      /\ UNCHANGED <<version, programs, reports, job>>
  BY PushFacts DEF Post, upload_spec, jobVars
<1>2. \/ taken /\ push' = answered
      \/ (taken \/ UNCHANGED experiments) /\ push' = later
      \/ (taken \/ UNCHANGED experiments) /\ push' = lost
      \/ UNCHANGED experiments /\ push' = [NoPush EXCEPT !.phase = "aborted"]
  BY <1>1 DEF upload_spec, Again, PushRecord
<1>3. experiments' \in [Specs -> Experiment] /\ Known(experiments') /\ (taken => experiments'[e].state # "none")
  <2>1. taken => experiments' \in [Specs -> Experiment] /\ Known(experiments') /\ experiments'[e].state # "none"
    BY <1>1, PushFacts, TakesExperiment
  <2>2. experiments' = experiments => experiments' \in [Specs -> Experiment] /\ Known(experiments')
    BY PushFacts DEF Known
  <2>3. QED
    BY <1>2, <2>1, <2>2
<1>4. push.failed_only =>
        /\ ~push.update
        /\ post.force_update <=> e \in push.seen_failed
        /\ post.first_upload <=> ~post.force_update
        /\ push.updated \subseteq push.seen_failed
  BY <1>1 DEF UploadInv, SecondPosts, Pending
<1>5. push.failed_only => (updates <=> e \in push.seen_failed)
  BY <1>4
<1>6. updated \subseteq Specs /\ (e \in updated <=> updates \/ e \in push.updated)
      /\ \A x \in Specs \ {e} : x \in updated <=> x \in push.updated
  BY <1>1 DEF PushRecord
<1>7. push.failed_only => (e \in updated => e \in push.seen_failed)
  BY <1>4, <1>5, <1>6
<1>8. second \in Post /\ second.spec = e /\ second.force_update = TRUE /\ second.first_upload = FALSE
  BY <1>1 DEF Post
<1> HIDE DEF e, updates, updated, taken, second
<1>9. CASE taken /\ push' = answered
  <2> DEFINE new == IF retry /\ post.first_upload THEN {second} ELSE {}
  <2>1. answered \in PushRecord
    BY <1>1, <1>6, <1>8 DEF PushRecord
  <2>2. /\ answered.phase = "passing" /\ answered.update = push.update
        /\ answered.failed_only = push.failed_only /\ answered.pass = push.pass
        /\ answered.todo = push.todo \ {post} /\ answered.next = push.next \cup new
        /\ answered.updated = updated /\ answered.dropped = push.dropped
        /\ answered.seen_failed = IF retry THEN push.seen_failed \cup {e} ELSE push.seen_failed
    BY <1>1 DEF PushRecord
  <2> DEFINE seen == answered.seen_failed
  <2>3. (\A x \in Specs \ {e} : x \in seen <=> x \in push.seen_failed) /\ (e \in push.seen_failed => e \in seen)
    BY <2>2
  <2>4. new \in SUBSET Post /\ (\A q \in new : q.spec = e /\ q.force_update /\ ~q.first_upload)
        /\ (new # {} => e \in seen) /\ \A a, b \in new : a = b
    BY <1>8, <2>2
  <2>5. new = {} => (push.failed_only /\ e \in seen => e \in updated)
    BY <1>4, <1>5, <1>6, <2>2
  <2>6. push.failed_only => (e \in updated => e \in seen)
    BY <1>7, <2>3
  <2>7. push.failed_only => \A q \in new : (q.force_update <=> e \in seen) /\ (q.first_upload <=> ~q.force_update)
    BY <2>4
  <2> HIDE DEF answered, new, seen
  <2>8. UploadInv'
    BY <1>1, <1>3, <1>6, <1>9, <2>1, <2>2, <2>3, <2>4, <2>5, <2>6, <2>7, PostAccounted DEF e, seen
  <2>9. QED
    BY <1>1, <1>3, <1>9, <2>1, <2>8, UploadBecomes
<1>10. CASE push' = later
  <2>1. later \in PushRecord
    BY <1>1, <1>6 DEF PushRecord
  <2>2. /\ later.phase = "passing" /\ later.update = push.update
        /\ later.failed_only = push.failed_only /\ later.pass = push.pass
        /\ later.todo = push.todo \ {post} /\ later.next = push.next \cup {post}
        /\ later.updated = updated /\ later.dropped = push.dropped /\ later.seen_failed = push.seen_failed
    BY <1>1 DEF PushRecord
  <2> DEFINE new == {post}
  <2>3. new \in SUBSET Post /\ new # {} /\ (\A q \in new : q = post) /\ \A a, b \in new : a = b
    BY <1>1
  <2>4. /\ \A q \in new : q.spec = e
        /\ push.failed_only => \A q \in new : (q.force_update <=> e \in push.seen_failed)
                                          /\ (q.first_upload <=> ~q.force_update)
    BY <1>4, <2>3 DEF e
  <2> HIDE DEF later, new
  <2>5. /\ later.next = push.next \cup new
        /\ \A x \in Specs \ {e} : /\ x \in later.seen_failed <=> x \in push.seen_failed
                                 /\ x \in later.updated <=> x \in push.updated
        /\ push.failed_only => (e \in later.updated => e \in later.seen_failed)
    BY <1>6, <1>7, <2>2 DEF new
  <2>6. UploadInv'
    BY <1>1, <1>3, <1>10, <2>1, <2>2, <2>3, <2>4, <2>5, PostAccounted DEF e
  <2>7. QED
    BY <1>1, <1>3, <1>10, <2>1, <2>6, UploadBecomes
<1>11. CASE push' = lost
  <2>1. lost \in PushRecord
    BY <1>1, <1>6 DEF PushRecord
  <2>2. /\ lost.phase = "passing" /\ lost.update = push.update
        /\ lost.failed_only = push.failed_only /\ lost.pass = push.pass
        /\ lost.todo = push.todo \ {post} /\ lost.next = push.next \cup {}
        /\ lost.updated = updated /\ lost.dropped = push.dropped \cup {e} /\ lost.seen_failed = push.seen_failed
    BY <1>1 DEF PushRecord
  <2> DEFINE new == {}
  <2> HIDE DEF lost
  <2>3. /\ \A x \in Specs \ {e} : /\ x \in lost.seen_failed <=> x \in push.seen_failed
                                 /\ x \in lost.updated <=> x \in push.updated
        /\ push.failed_only => (e \in lost.updated => e \in lost.seen_failed)
        /\ push.dropped \subseteq lost.dropped /\ e \in lost.dropped
    BY <1>6, <1>7, <2>2
  <2>4. /\ new \in SUBSET Post /\ lost.next = push.next \cup new /\ \A a, b \in new : a = b
        /\ \A q \in new : q.spec = e
        /\ push.failed_only => \A q \in new : (q.force_update <=> e \in lost.seen_failed)
                                          /\ (q.first_upload <=> ~q.force_update)
    BY <2>2
  <2> HIDE DEF new
  <2>5. UploadInv'
    BY <1>1, <1>3, <1>11, <2>1, <2>2, <2>3, <2>4, PostAccounted DEF e
  <2>6. QED
    BY <1>1, <1>3, <1>11, <2>1, <2>5, UploadBecomes
<1>12. CASE push' = [NoPush EXCEPT !.phase = "aborted"]
  <2>1. /\ push' \in PushRecord /\ push'.phase = "aborted" /\ push'.todo = {} /\ push'.next = {}
        /\ push'.failed_only = FALSE
    BY <1>12 DEF NoPush, PushRecord, Phase
  <2>2. UploadInv'
    BY <2>1 DEF UploadInv, OnePost, SecondPosts, Accounted
  <2>3. QED
    BY <1>1, <1>3, <2>1, <2>2, UploadBecomes
<1>13. QED
  BY <1>2, <1>9, <1>10, <1>11, <1>12

LEMMA UploadsExperiments == ASSUME ExchangeInv, upload_experiments PROVE ExchangeInv'
<1>1. PICK update \in BOOLEAN, failed_only \in BOOLEAN :
        /\ failed_only => update = FALSE
        /\ push' = [NoPush EXCEPT
             !.phase = "passing", !.pass = 1, !.update = update, !.failed_only = failed_only,
             !.todo = {[spec |-> e, first_upload |-> TRUE, force_update |-> update] : e \in Specs}]
  <2>1. PICK u \in BOOLEAN, failed_only \in BOOLEAN :
          push' = [NoPush EXCEPT
            !.phase = "passing", !.pass = 1, !.update = UpdateComputations(u, failed_only),
            !.failed_only = failed_only,
            !.todo = {[spec |-> e, first_upload |-> TRUE, force_update |-> UpdateComputations(u, failed_only)] :
                        e \in Specs}]
    BY Zenon DEF upload_experiments
  <2>2. UpdateComputations(u, failed_only) \in BOOLEAN
        /\ (failed_only => UpdateComputations(u, failed_only) = FALSE)
    BY DEF UpdateComputations
  <2>3. QED
    BY <2>1, <2>2, Zenon
<1> DEFINE ordered == {[spec |-> e, first_upload |-> TRUE, force_update |-> update] : e \in Specs}
<1>2. /\ ordered \subseteq Post
      /\ \A q \in ordered : q.first_upload = TRUE /\ q.force_update = update
      /\ \A a, b \in ordered : a.spec = b.spec => a = b
      /\ \A e \in Specs : \E q \in ordered : q.spec = e
  <2> DEFINE post(e) == [spec |-> e, first_upload |-> TRUE, force_update |-> update]
  <2>1. \A e \in Specs : post(e) \in Post /\ post(e).spec = e /\ post(e).first_upload = TRUE
                         /\ post(e).force_update = update
    BY DEF Post
  <2>2. \A q : q \in ordered <=> \E e \in Specs : q = post(e)
    OBVIOUS
  <2> HIDE DEF post, ordered
  <2>3. QED
    BY <2>1, <2>2
<1> HIDE DEF ordered
<1>3. /\ push' \in PushRecord /\ push'.phase = "passing" /\ push'.pass = 1 /\ push'.update = update
      /\ push'.failed_only = failed_only /\ push'.todo = ordered /\ push'.next = {}
      /\ push'.seen_failed = {} /\ push'.updated = {}
  BY <1>1, <1>2 DEF NoPush, PushRecord, Phase, ordered
<1>4. OnePost'
  BY <1>2, <1>3 DEF OnePost
<1>5. SecondPosts'
  BY <1>1, <1>2, <1>3 DEF SecondPosts, Pending
<1>6. Accounted'
  BY <1>2, <1>3 DEF Accounted, Pending
<1>7. UploadInv'
  BY <1>3, <1>4, <1>5, <1>6, ExchangeAssumption DEF UploadInv
<1>8. UNCHANGED <<version, experiments, programs, reports, job>>
  BY DEF upload_experiments, backendVars, jobVars
<1>9. QED
  BY <1>3, <1>7, <1>8, PushFacts, UploadBecomes

LEMMA PassesOn == ASSUME ExchangeInv, NextPass PROVE ExchangeInv'
<1>1. /\ push \in PushRecord /\ UploadInv /\ push.phase = "passing" /\ push.todo = {}
      /\ push.pass \in Nat /\ push.pass < MaxPasses /\ MaxPasses \in Nat
      /\ UNCHANGED <<version, experiments, programs, reports, job>>
  BY PushFacts, ExchangeAssumption DEF NextPass, UploadInv, backendVars, jobVars
<1>2. CASE push.next # {} /\ push.pass + 1 < MaxPasses
  <2>1. push' = [push EXCEPT !.todo = push.next, !.next = {}, !.pass = push.pass + 1]
    BY <1>2 DEF NextPass
  <2>2. push.pass + 1 \in Nat
    BY <1>1
  <2>3. /\ push' \in PushRecord /\ push'.phase = "passing" /\ push'.pass = push.pass + 1
        /\ push'.update = push.update /\ push'.failed_only = push.failed_only
        /\ push'.todo = push.next /\ push'.next = {} /\ push'.seen_failed = push.seen_failed
        /\ push'.updated = push.updated /\ push'.dropped = push.dropped
    BY <1>1, <2>1, <2>2 DEF PushRecord
  <2>4. Pending' = Pending
    BY <1>1, <2>3 DEF Pending
  <2>5. OnePost' /\ SecondPosts'
    BY <1>1, <2>3, <2>4 DEF UploadInv, OnePost, SecondPosts
  <2>6. Accounted'
    BY <1>1, <2>3, <2>4 DEF UploadInv, Accounted, Answered
  <2>7. UploadInv'
    BY <1>1, <1>2, <2>3, <2>5, <2>6 DEF UploadInv
  <2>8. QED
    BY <1>1, <2>3, <2>7, PushFacts, UploadBecomes
<1>3. CASE ~(push.next # {} /\ push.pass + 1 < MaxPasses)
  <2>1. push' = [push EXCEPT !.phase = "returned"]
    BY <1>3 DEF NextPass
  <2>2. /\ push' \in PushRecord /\ push'.phase = "returned" /\ push'.pass = push.pass
        /\ push'.update = push.update /\ push'.failed_only = push.failed_only
        /\ push'.todo = push.todo /\ push'.next = push.next /\ push'.seen_failed = push.seen_failed
        /\ push'.updated = push.updated /\ push'.dropped = push.dropped
    BY <1>1, <2>1 DEF PushRecord, Phase
  <2>3. OnePost' /\ SecondPosts'
    BY <1>1, <2>2 DEF UploadInv, OnePost, SecondPosts, Pending
  <2>4. Accounted'
    BY <1>1, <2>2 DEF UploadInv, Accounted, Answered, Pending
  <2>5. push.next # {} => push.pass = MaxPasses - 1
    BY <1>1, <1>3
  <2>6. UploadInv'
    BY <1>1, <2>2, <2>3, <2>4, <2>5 DEF UploadInv
  <2>7. QED
    BY <1>1, <2>2, <2>6, PushFacts, UploadBecomes
<1>4. QED
  BY <1>2, <1>3

(***************************************************************************)
(* Theorems                                                                *)
(***************************************************************************)
LEMMA ExchangeInitial == ASSUME ExchangeInit PROVE ExchangeInv
<1>1. 0 \in Version /\ None \in MaybeVersion
  BY ExchangeAssumption DEF Version, MaybeVersion
<1>2. NoPush \in PushRecord /\ NoPush.phase = "idle" /\ NoPush.todo = {} /\ NoPush.next = {}
      /\ NoPush.failed_only = FALSE
  BY DEF NoPush, PushRecord, Phase
<1>3. NoJob \in JobRecord /\ NoJob.step = "none"
  BY <1>1 DEF NoJob, JobRecord, JobStepName
<1>4. experiments \in [Specs -> Experiment]
  BY <1>1 DEF ExchangeInit, Experiment, StateName
<1>5. ExchangeTypeOK
  BY <1>1, <1>2, <1>3, <1>4 DEF ExchangeInit, ExchangeTypeOK, BackendType
<1>6. UploadInv
  BY <1>2 DEF ExchangeInit, UploadInv, OnePost, SecondPosts, Accounted, Pending
<1>7. JobsInv
  BY <1>3 DEF ExchangeInit, JobsInv, ProgramsOfHash, JobInOrder, Ended
<1>8. QED
  BY <1>5, <1>6, <1>7 DEF ExchangeInv

LEMMA StandsStill ==
  ASSUME ExchangeInv, UNCHANGED <<experiments, programs, reports, push, job>>, version' \in Version
  PROVE  ExchangeInv'
<1>1. UploadInv'
  BY UploadKept DEF ExchangeInv, Known
<1>2. QED
  BY <1>1 DEF ExchangeInv, ExchangeTypeOK, BackendType, JobsInv, ProgramsOfHash

LEMMA ExchangeStep == ASSUME ExchangeInv, [ExchangeNext]_exchangeVars PROVE ExchangeInv'
<1>1. CASE Edit
  <2>1. version' \in Version
    BY <1>1, ExchangeAssumption DEF Edit, ExchangeInv, ExchangeTypeOK, Version
  <2>2. QED
    BY <1>1, <2>1, StandsStill DEF Edit, backendVars, pushVars, jobVars
<1>2. CASE UNCHANGED exchangeVars
  BY <1>2, StandsStill, PushFacts DEF exchangeVars, backendVars, pushVars, jobVars, ExchangeInv, ExchangeTypeOK
<1>3. ASSUME NEW e \in Specs, JobStep(e) PROVE ExchangeInv'
  BY <1>3, StartsJob, FetchesSpec, RaisesInOrder, HashesProgram, RunsExperiment, SendsWithRetry, SendsError, Crashes
     DEF JobStep
<1>4. QED
  BY <1>1, <1>2, <1>3, UploadsExperiments, PassesOn, UploadsSpec DEF ExchangeNext

\* The account of an upload and the jobs stay in order, whatever times out, breaks,
\* crashes or is edited.
THEOREM ExchangeInvariant == ExchangeSpec => []ExchangeInv
<1>1. ExchangeInit => ExchangeInv
  BY ExchangeInitial
<1>2. ExchangeInv /\ [ExchangeNext]_exchangeVars => ExchangeInv'
  BY ExchangeStep
<1>3. QED
  BY <1>1, <1>2, PTL DEF ExchangeSpec

\* An upload that returns has reached the backend with what it did not give up, and
\* orders failed experiments only to run again (script_utils.py:46-89).
THEOREM ExchangeUploadsAsAsked == ExchangeSpec => []UploadsAsAsked
<1>1. ExchangeInv => UploadsAsAsked
  <2> SUFFICES ASSUME UploadInv PROVE UploadsAsAsked
    BY DEF ExchangeInv
  <2>1. ASSUME push.phase = "returned", NEW e \in Specs \ (push.dropped \cup {post.spec : post \in push.next})
        PROVE  Answered(e)
    <3>1. push.todo = {}
      BY <2>1 DEF UploadInv
    <3>2. e \notin push.dropped /\ ~ \E post \in Pending : post.spec = e
      BY <2>1, <3>1 DEF Pending
    <3>3. QED
      BY <2>1, <3>2 DEF UploadInv, Accounted
  <2>2. QED
    BY <2>1 DEF UploadsAsAsked, UploadInv, Answered
<1>2. QED
  BY <1>1, ExchangeInvariant, PTL

\* A report that reaches the backend was computed by the code its experiment's hash
\* stands for (internal_cli.py:115, 239).
THEOREM ExchangeReportsOfExpectedProgram == ExchangeSpec => []ReportsOfExpectedProgram
<1>1. ExchangeInv => ReportsOfExpectedProgram
  BY DEF ExchangeInv, ExchangeTypeOK, BackendType, JobsInv, ReportsOfExpectedProgram
<1>2. QED
  BY <1>1, ExchangeInvariant, PTL

\* A compilation or a run that ends leaves its product or an error, unless the backend
\* refused the post of the error, and more than one of these only if an answer was lost,
\* for any number of jobs and faults (internal_cli.py:112-143, 254-284, 440-446).
THEOREM ExchangeProductOrError == ExchangeSpec => []ProductOrError
<1>1. ExchangeInv => ProductOrError
  BY DEF ExchangeInv, JobsInv, JobInOrder, ProductOrError
<1>2. QED
  BY <1>1, ExchangeInvariant, PTL

LEMMA DownloadInitial == ASSUME DownloadInit PROVE DownloadInv
<1>1. DownloadTypeOK
  BY DownloadAssumption DEF DownloadInit, DownloadTypeOK
<1>2. FilesInOrder /\ ListedInOrder
  BY DownloadAssumption DEF DownloadInit, FilesInOrder, ListedInOrder
<1>3. QED
  BY <1>1, <1>2 DEF DownloadInv

LEMMA DownloadStep ==
  ASSUME DownloadInv, [DownloadNext]_downloadVars
  PROVE  DownloadInv'
<1> DEFINE Pull == [phase : {"listed", "downloading", "returned", "aborted"}, listed : SUBSET Report,
                    report_ids : SUBSET Report, open : SUBSET Report]
<1>1. /\ pull \in Pull /\ folder \in [Report -> {None, "whole", "torn"}] /\ interrupted \subseteq Report
      /\ arrived \in 0 .. MaxReports /\ MaxReports \in Nat /\ None # "whole" /\ None # "torn"
      /\ FilesInOrder /\ ListedInOrder
  BY DownloadAssumption DEF DownloadInv, DownloadTypeOK
<1>2. CASE ReportArrives
  <2>1. arrived' \in 0 .. MaxReports /\ UNCHANGED <<folder, pull, interrupted>>
    BY <1>1, <1>2 DEF ReportArrives
  <2>2. QED
    BY <2>1 DEF DownloadInv, DownloadTypeOK, FilesInOrder, ListedInOrder
<1>3. CASE fetch_report_ids
  <2>1. /\ pull.phase \in {"returned", "aborted"} /\ UNCHANGED <<arrived, folder, interrupted>>
        /\ pull' = [phase |-> "listed", listed |-> 1 .. arrived, report_ids |-> {}, open |-> {}]
    BY <1>3 DEF fetch_report_ids
  <2>2. 1 .. arrived \subseteq Report
    BY <1>1 DEF Report
  <2>3. pull' \in Pull /\ pull'.phase = "listed" /\ pull'.open = {}
    BY <2>1, <2>2
  <2>4. interrupted \cup pull.open = interrupted
    BY <1>1, <2>1 DEF FilesInOrder
  <2>5. FilesInOrder' /\ ListedInOrder'
    BY <1>1, <2>1, <2>3, <2>4 DEF FilesInOrder, ListedInOrder
  <2>6. QED
    BY <1>1, <2>1, <2>3, <2>5 DEF DownloadInv, DownloadTypeOK
<1>4. CASE FilterReports
  <2>1. /\ pull.phase = "listed" /\ UNCHANGED <<arrived, folder, interrupted>>
        /\ pull' = [pull EXCEPT !.phase = "downloading",
                                !.report_ids = filter_already_existent_reports(pull.listed)]
    BY <1>4 DEF FilterReports
  <2>2. /\ pull' \in Pull /\ pull'.phase = "downloading" /\ pull'.open = pull.open /\ pull'.listed = pull.listed
        /\ pull'.report_ids = {i \in pull.listed : folder[i] = None}
    BY <1>1, <2>1 DEF filter_already_existent_reports, Files
  <2>3. FilesInOrder' /\ ListedInOrder'
    BY <1>1, <2>1, <2>2 DEF FilesInOrder, ListedInOrder
  <2>4. QED
    BY <1>1, <2>1, <2>2, <2>3 DEF DownloadInv, DownloadTypeOK
<1>5. CASE AbortPull
  <2>1. /\ pull' = [pull EXCEPT !.phase = "aborted"] /\ UNCHANGED <<arrived, folder>>
        /\ pull.phase \in {"listed", "downloading"} /\ interrupted' = interrupted \cup pull.open
    BY <1>5 DEF AbortPull
  <2>2. pull' \in Pull /\ pull'.phase = "aborted" /\ pull'.open = pull.open /\ interrupted' \subseteq Report
    BY <1>1, <2>1
  <2>3. FilesInOrder' /\ ListedInOrder'
    BY <1>1, <2>1, <2>2 DEF FilesInOrder, ListedInOrder
  <2>4. QED
    BY <1>1, <2>1, <2>2, <2>3 DEF DownloadInv, DownloadTypeOK
<1>6. CASE ReturnPull
  <2>1. /\ pull' = [pull EXCEPT !.phase = "returned"] /\ UNCHANGED <<arrived, folder, interrupted>>
        /\ pull.phase = "downloading" /\ pull.report_ids = {} /\ pull.open = {}
    BY <1>6 DEF ReturnPull
  <2>2. pull' \in Pull /\ pull'.phase = "returned" /\ pull'.open = {} /\ pull'.listed = pull.listed
    BY <1>1, <2>1
  <2>3. FilesInOrder' /\ ListedInOrder'
    BY <1>1, <2>1, <2>2 DEF FilesInOrder, ListedInOrder
  <2>4. QED
    BY <1>1, <2>1, <2>2, <2>3 DEF DownloadInv, DownloadTypeOK
<1>7. ASSUME NEW i \in Report, OpenReport(i) PROVE DownloadInv'
  <2>1. /\ pull.phase = "downloading" /\ i \in pull.report_ids /\ UNCHANGED <<arrived, interrupted>>
        /\ pull' = [pull EXCEPT !.report_ids = pull.report_ids \ {i}, !.open = pull.open \cup {i}]
        /\ folder' = [folder EXCEPT ![i] = "torn"]
    BY <1>1, <1>7 DEF OpenReport
  <2>2. /\ pull' \in Pull /\ pull'.phase = "downloading" /\ pull'.open = pull.open \cup {i}
        /\ pull'.listed = pull.listed /\ pull'.report_ids = pull.report_ids \ {i}
    BY <1>1, <2>1
  <2>3. /\ folder' \in [Report -> {None, "whole", "torn"}] /\ folder'[i] = "torn"
        /\ \A j \in Report \ {i} : folder'[j] = folder[j]
    BY <1>1, <2>1
  <2>4. folder[i] = None /\ i \notin interrupted
    BY <1>1, <2>1 DEF ListedInOrder, FilesInOrder
  <2>5. FilesInOrder'
    BY <1>1, <2>1, <2>2, <2>3, <2>4 DEF FilesInOrder
  <2>6. ListedInOrder'
    BY <1>1, <2>1, <2>2, <2>3 DEF ListedInOrder
  <2>7. QED
    BY <1>1, <2>1, <2>2, <2>3, <2>5, <2>6 DEF DownloadInv, DownloadTypeOK
<1>8. ASSUME NEW i \in Report, WriteReport(i) PROVE DownloadInv'
  <2>1. /\ pull.phase = "downloading" /\ i \in pull.open /\ UNCHANGED <<arrived, interrupted>>
        /\ pull' = [pull EXCEPT !.open = pull.open \ {i}]
        /\ folder' = [folder EXCEPT ![i] = "whole"]
    BY <1>1, <1>8 DEF WriteReport
  <2>2. /\ pull' \in Pull /\ pull'.phase = "downloading" /\ pull'.open = pull.open \ {i}
        /\ pull'.listed = pull.listed /\ pull'.report_ids = pull.report_ids
    BY <1>1, <2>1
  <2>3. /\ folder' \in [Report -> {None, "whole", "torn"}] /\ folder'[i] = "whole"
        /\ \A j \in Report \ {i} : folder'[j] = folder[j]
    BY <1>1, <2>1
  <2>4. folder[i] = "torn" /\ i \notin interrupted
    BY <1>1, <2>1 DEF FilesInOrder
  <2>5. FilesInOrder'
    BY <1>1, <2>1, <2>2, <2>3, <2>4 DEF FilesInOrder
  <2>6. ListedInOrder'
    <3>1. i \notin pull.report_ids
      BY <1>1, <2>1, <2>4 DEF ListedInOrder
    <3>2. QED
      BY <1>1, <2>1, <2>2, <2>3, <3>1 DEF ListedInOrder
  <2>7. QED
    BY <1>1, <2>1, <2>2, <2>3, <2>5, <2>6 DEF DownloadInv, DownloadTypeOK
<1>9. CASE UNCHANGED downloadVars
  BY <1>9 DEF downloadVars, DownloadInv, DownloadTypeOK, FilesInOrder, ListedInOrder
<1>10. QED
  BY <1>2, <1>3, <1>4, <1>5, <1>6, <1>7, <1>8, <1>9 DEF DownloadNext

\* When a pull returns, every report it listed is in the folder, and whole but for those
\* an earlier pull ended at while it wrote them (script_utils.py:124-151).
THEOREM DownloadListedReportsAreThere == DownloadSpec => []ListedReportsAreThere
<1>1. DownloadInit => DownloadInv
  BY DownloadInitial
<1>2. DownloadInv /\ [DownloadNext]_downloadVars => DownloadInv'
  BY DownloadStep
<1>3. DownloadInv => ListedReportsAreThere
  BY DEF DownloadInv, DownloadTypeOK, FilesInOrder, ListedInOrder, ListedReportsAreThere
<1>4. QED
  BY <1>1, <1>2, <1>3, PTL DEF DownloadSpec

(***************************************************************************)
(* The pools of the collaboration: _color_pools colors by a breadth-first  *)
(* search from all activities at once, and _apply_pools_to_bpmn carries    *)
(* the flows over (split_miner_socket.py:39-209).  The search is right as  *)
(* its queue is in the order of hops, and of seeds among equals: what is   *)
(* taken is never nearer than what was taken before.                       *)
(***************************************************************************)

\* A[n] are the neighbours of n.
Adjacencies == {A \in [Node -> SUBSET Node] : \A n, m \in Node : m \in A[n] => n \in A[m]}
Adjacency == [n \in Node |-> Neighbours(n)]

\* The loop of Within: the nodes at most 0, 1, ..., k hops from n.
Balls(A, n, k) ==
  {f \in [0 .. k -> SUBSET Node] :
     f[0] = {n} /\ \A j \in 1 .. k : f[j] = f[j-1] \cup UNION {A[m] : m \in f[j-1]}}
Ball(A, n, k) == (CHOOSE f \in Balls(A, n, k) : TRUE)[k]

\* The loop ends, whatever the graph.
LEMMA BallsExist ==
  ASSUME NEW A \in Adjacencies, NEW n \in Node, NEW k \in Nat
  PROVE  Balls(A, n, k) # {}
<1> DEFINE D == SUBSET Node
           F == [x \in Nat \X D |-> x[2] \cup UNION {A[m] : m \in x[2]}]
<1>1. A \in [Node -> SUBSET Node]
  BY DEF Adjacencies
<1>2. F \in [Nat \X D -> D]
  <2> SUFFICES ASSUME NEW x \in Nat \X D PROVE x[2] \cup UNION {A[m] : m \in x[2]} \in D
    OBVIOUS
  <2>1. x[2] \subseteq Node
    OBVIOUS
  <2>2. QED
    BY <1>1, <2>1
<1>3. {n} \in D
  OBVIOUS
<1>4. \A j \in Nat, e \in D : F[<<j,e>>] = e \cup UNION {A[m] : m \in e}
  OBVIOUS
<1> HIDE DEF F
<1>5. Runs(D, F, {n}, k) # {}
  BY <1>2, <1>3, LoopRuns
<1>6. PICK f \in [0 .. k -> D] : f[0] = {n} /\ \A j \in 1 .. k : f[j] = F[<<j,f[j-1]>>]
  BY <1>5 DEF Runs
<1>7. ASSUME NEW j \in 1 .. k PROVE f[j] = f[j-1] \cup UNION {A[m] : m \in f[j-1]}
  <2>1. j \in Nat /\ j - 1 \in 0 .. k
    OBVIOUS
  <2>2. f[j-1] \in D
    BY <1>6, <2>1
  <2>3. QED
    BY <1>4, <1>6, <2>1, <2>2
<1>8. f \in Balls(A, n, k)
  BY <1>6, <1>7 DEF Balls
<1>9. QED
  BY <1>8

\* The loop has one result, and a shorter one is its beginning.
LEMMA BallsAgree ==
  ASSUME NEW A, NEW n, NEW k \in Nat, NEW l \in Nat, NEW f \in Balls(A, n, k), NEW g \in Balls(A, n, l)
  PROVE  \A j \in Nat : j <= k /\ j <= l => f[j] = g[j]
<1> DEFINE S == {j \in Nat : j <= k /\ j <= l => f[j] = g[j]}
<1>1. /\ f[0] = {n} /\ \A j \in 1 .. k : f[j] = f[j-1] \cup UNION {A[m] : m \in f[j-1]}
      /\ g[0] = {n} /\ \A j \in 1 .. l : g[j] = g[j-1] \cup UNION {A[m] : m \in g[j-1]}
  BY DEF Balls
<1>2. 0 \in S
  BY <1>1
<1>3. ASSUME NEW j \in Nat, j \in S PROVE j + 1 \in S
  <2> SUFFICES ASSUME j + 1 <= k, j + 1 <= l PROVE f[j+1] = g[j+1]
    OBVIOUS
  <2>1. j + 1 \in 1 .. k /\ j + 1 \in 1 .. l /\ (j + 1) - 1 = j /\ f[j] = g[j]
    BY <1>3
  <2>2. QED
    BY <1>1, <2>1
<1> HIDE DEF S
<1>4. Nat \subseteq S
  BY <1>2, <1>3, Induction
<1>5. QED
  BY <1>4 DEF S

\* So that the nodes within k + 1 hops are those within k and their neighbours.
LEMMA BallGrows ==
  ASSUME NEW A \in Adjacencies, NEW n \in Node
  PROVE  /\ Ball(A, n, 0) = {n}
         /\ \A k \in Nat : /\ Ball(A, n, k) \subseteq Node
                           /\ Ball(A, n, k+1) = Ball(A, n, k) \cup UNION {A[m] : m \in Ball(A, n, k)}
<1> DEFINE run(k) == CHOOSE f \in Balls(A, n, k) : TRUE
<1>1. \A k \in Nat : run(k) \in Balls(A, n, k)
  BY BallsExist
<1>2. \A k : Ball(A, n, k) = run(k)[k]
  BY DEF Ball
<1> HIDE DEF run
<1>3. Ball(A, n, 0) = {n}
  BY <1>1, <1>2 DEF Balls
<1>4. ASSUME NEW k \in Nat
      PROVE  /\ Ball(A, n, k) \subseteq Node
             /\ Ball(A, n, k+1) = Ball(A, n, k) \cup UNION {A[m] : m \in Ball(A, n, k)}
  <2> DEFINE f == run(k)
             g == run(k+1)
  <2>1. k + 1 \in Nat /\ f \in Balls(A, n, k) /\ g \in Balls(A, n, k+1)
    BY <1>1
  <2> HIDE DEF f, g
  <2>2. k \in 0 .. k /\ k + 1 \in 1 .. k + 1 /\ (k + 1) - 1 = k /\ k <= k + 1 /\ k <= k
    OBVIOUS
  <2>3. f \in [0 .. k -> SUBSET Node] /\ g[k+1] = g[k] \cup UNION {A[m] : m \in g[k]}
    BY <2>1, <2>2 DEF Balls
  <2>4. f[k] = g[k]
    BY <2>1, <2>2, BallsAgree
  <2>5. Ball(A, n, k) = f[k] /\ Ball(A, n, k+1) = g[k+1]
    BY <1>2 DEF f, g
  <2>6. QED
    BY <2>2, <2>3, <2>4, <2>5
<1>5. QED
  BY <1>3, <1>4

\* The property's function is this loop.
LEMMA WithinIsBall ==
  ASSUME Adjacency \in Adjacencies, NEW n \in Node, NEW k \in Nat
  PROVE  Within(n, k) = Ball(Adjacency, n, k)
<1> DEFINE A == Adjacency
           f == CHOOSE f \in Balls(A, n, k) : TRUE
           ball[j \in 0 .. k] == IF j = 0 THEN {n} ELSE ball[j-1] \cup UNION {Neighbours(m) : m \in ball[j-1]}
           Is(h) == h = [j \in 0 .. k |-> IF j = 0 THEN {n} ELSE h[j-1] \cup UNION {Neighbours(m) : m \in h[j-1]}]
<1>1. f \in Balls(A, n, k)
  BY BallsExist
<1>2. Within(n, k) = ball[k] /\ Ball(A, n, k) = f[k]
  BY DEF Within, Ball
<1>3. \A m \in Node : A[m] = Neighbours(m)
  BY DEF Adjacency
<1> HIDE DEF f, A
<1>4. Is(f)
  <2>1. f \in [0 .. k -> SUBSET Node] /\ f[0] = {n}
    BY <1>1 DEF Balls
  <2>2. ASSUME NEW j \in 0 .. k
        PROVE  f[j] = IF j = 0 THEN {n} ELSE f[j-1] \cup UNION {Neighbours(m) : m \in f[j-1]}
    <3>1. CASE j = 0
      BY <2>1, <3>1
    <3>2. CASE j # 0
      <4>1. j \in 1 .. k /\ j - 1 \in 0 .. k
        BY <3>2
      <4>2. f[j] = f[j-1] \cup UNION {A[m] : m \in f[j-1]}
        BY <1>1, <4>1 DEF Balls
      <4>3. f[j-1] \subseteq Node
        BY <2>1, <4>1
      <4>4. {A[m] : m \in f[j-1]} = {Neighbours(m) : m \in f[j-1]}
        BY <1>3, <4>3
      <4>5. QED
        BY <4>2, <4>4, <3>2
    <3>3. QED
      BY <3>1, <3>2
  <2>3. QED
    BY <2>1, <2>2
<1>5. ball = CHOOSE h : Is(h)
  BY Zenon
<1>6. Is(ball)
  BY <1>4, <1>5, Zenon
<1>7. \A h : Is(h) => h \in Balls(A, n, k)
  <2> SUFFICES ASSUME NEW h, Is(h) PROVE h \in Balls(A, n, k)
    OBVIOUS
  <2> DEFINE S == {j \in Nat : j <= k => h[j] = f[j]}
  <2>1. h[0] = {n} /\ \A j \in 1 .. k : h[j] = h[j-1] \cup UNION {Neighbours(m) : m \in h[j-1]}
    OBVIOUS
  <2>2. f[0] = {n} /\ \A j \in 1 .. k : f[j] = f[j-1] \cup UNION {Neighbours(m) : m \in f[j-1]}
    BY <1>4
  <2>3. 0 \in S
    BY <2>1, <2>2
  <2>4. ASSUME NEW j \in Nat, j \in S PROVE j + 1 \in S
    <3> SUFFICES ASSUME j + 1 <= k PROVE h[j+1] = f[j+1]
      OBVIOUS
    <3>1. j + 1 \in 1 .. k /\ (j + 1) - 1 = j /\ h[j] = f[j]
      BY <2>4
    <3>2. QED
      BY <2>1, <2>2, <3>1
  <2> HIDE DEF S
  <2>5. Nat \subseteq S
    BY <2>3, <2>4, Induction
  <2>6. \A j \in 0 .. k : h[j] = f[j]
    <3>1. \A j \in 0 .. k : j \in Nat /\ j <= k
      OBVIOUS
    <3>2. \A j \in 0 .. k : j \in S
      BY <3>1, <2>5
    <3>3. QED
      BY <3>1, <3>2 DEF S
  <2>7. f \in [0 .. k -> SUBSET Node]
    BY <1>1 DEF Balls
  <2>8. h = [j \in 0 .. k |-> h[j]]
    OBVIOUS
  <2>9. h = f
    BY <2>6, <2>7, <2>8
  <2>10. QED
    BY <2>9, <1>1
<1>8. ball \in Balls(A, n, k)
  BY <1>6, <1>7
<1> HIDE DEF ball
<1>9. ball[k] = f[k]
  <2>1. \A j \in Nat : j <= k /\ j <= k => ball[j] = f[j]
    BY <1>1, <1>8, BallsAgree
  <2>2. k <= k
    OBVIOUS
  <2>3. QED
    BY <2>1, <2>2
<1>10. QED
  BY <1>2, <1>9 DEF A

\* Within k + 1 hops are the nodes within k hops of a neighbour.
LEMMA BallOfNeighbour ==
  ASSUME NEW A \in Adjacencies, NEW k \in Nat, NEW n \in Node
  PROVE  /\ \A p \in A[n] : Ball(A, p, k) \subseteq Ball(A, n, k+1)
         /\ \A m \in Ball(A, n, k+1) : m = n \/ \E p \in A[n] : m \in Ball(A, p, k)
<1> DEFINE Inner(j) == \A p \in A[n] : Ball(A, p, j) \subseteq Ball(A, n, j+1)
           Outer(j) == \A m \in Ball(A, n, j+1) : m = n \/ \E p \in A[n] : m \in Ball(A, p, j)
           S == {j \in Nat : Inner(j) /\ Outer(j)}
<1>1. A[n] \subseteq Node
  BY DEF Adjacencies
<1>2. /\ Ball(A, n, 0) = {n}
      /\ \A j \in Nat : Ball(A, n, j+1) = Ball(A, n, j) \cup UNION {A[m] : m \in Ball(A, n, j)}
  BY BallGrows
<1>3. ASSUME NEW p \in A[n]
      PROVE  /\ Ball(A, p, 0) = {p}
             /\ \A j \in Nat : Ball(A, p, j+1) = Ball(A, p, j) \cup UNION {A[m] : m \in Ball(A, p, j)}
  BY <1>1, BallGrows
<1>4. 0 \in S
  <2>1. Ball(A, n, 0+1) = {n} \cup UNION {A[m] : m \in {n}}
    BY <1>2
  <2>2. Ball(A, n, 0+1) = {n} \cup A[n]
    BY <2>1
  <2>3. QED
    BY <2>2, <1>3
<1>5. ASSUME NEW j \in Nat, j \in S PROVE j + 1 \in S
  <2> DEFINE B(x, i) == Ball(A, x, i)
  <2>1. Inner(j) /\ Outer(j)
    BY <1>5
  <2>2. /\ B(n, (j+1)+1) = B(n, j+1) \cup UNION {A[m] : m \in B(n, j+1)}
        /\ \A p \in A[n] : B(p, j+1) = B(p, j) \cup UNION {A[m] : m \in B(p, j)}
    <3>1. j + 1 \in Nat
      OBVIOUS
    <3>2. B(n, (j+1)+1) = B(n, j+1) \cup UNION {A[m] : m \in B(n, j+1)}
      BY <1>2, <3>1
    <3>3. ASSUME NEW p \in A[n] PROVE B(p, j+1) = B(p, j) \cup UNION {A[m] : m \in B(p, j)}
      BY <1>3
    <3>4. QED
      BY <3>2, <3>3
  <2> HIDE DEF B
  <2>3. Inner(j+1)
    <3> SUFFICES ASSUME NEW p \in A[n], NEW m \in B(p, j+1) PROVE m \in B(n, (j+1)+1)
      BY DEF B
    <3>1. B(p, j) \subseteq B(n, j+1)
      BY <2>1 DEF B
    <3>2. QED
      BY <2>2, <3>1
  <2>4. Outer(j+1)
    <3> SUFFICES ASSUME NEW m \in B(n, (j+1)+1), m # n PROVE \E p \in A[n] : m \in B(p, j+1)
      BY DEF B
    <3>1. \A x \in B(n, j+1) : x = n \/ \E p \in A[n] : x \in B(p, j)
      BY <2>1 DEF B
    <3>2. CASE m \in B(n, j+1)
      BY <2>2, <3>1, <3>2
    <3>3. CASE m \notin B(n, j+1)
      <4>1. PICK x \in B(n, j+1) : m \in A[x]
        BY <2>2, <3>3
      <4>2. CASE x = n
        <5>1. m \in A[n] /\ Ball(A, m, 0) = {m}
          BY <4>1, <4>2, <1>3
        <5>2. \A i \in Nat : m \in Ball(A, m, i) => m \in Ball(A, m, i+1)
          BY <5>1, <1>3
        <5> DEFINE T == {i \in Nat : m \in Ball(A, m, i)}
        <5>3. 0 \in T /\ \A i \in Nat : i \in T => i + 1 \in T
          BY <5>1, <5>2
        <5> HIDE DEF T
        <5>4. j + 1 \in T
          BY <5>3, Induction
        <5>5. QED
          BY <5>1, <5>4 DEF T, B
      <4>3. CASE x # n
        BY <4>1, <4>3, <3>1, <2>2
      <4>4. QED
        BY <4>2, <4>3
    <3>4. QED
      BY <3>2, <3>3
  <2> HIDE DEF Inner, Outer
  <2>5. QED
    BY <2>3, <2>4
<1> HIDE DEF S
<1>6. k \in S
  BY <1>4, <1>5, Induction
<1>7. QED
  BY <1>6 DEF S

\* The seeds within k hops; the number of hops to the nearest ones, and the one of smallest id
\* among these.  A node is reached if it has one.
Seeded(A, s, n, k) == {m \in Ball(A, n, k) : s[m] # None}
Reached(A, s, n) == \E k \in Nat : Seeded(A, s, n, k) # {}
IsNearest(A, s, n, d, o) ==
  /\ d \in Nat /\ o \in Seeded(A, s, n, d)
  /\ \A k \in Nat : k < d => Seeded(A, s, n, k) = {}
  /\ \A m \in Seeded(A, s, n, d) : o <= m
Hops(A, s, n)   == CHOOSE d \in Nat : \E o \in Node : IsNearest(A, s, n, d, o)
Origin(A, s, n) == CHOOSE o \in Node : IsNearest(A, s, n, Hops(A, s, n), o)

\* A node that a seed reaches has a nearest one, of the smallest id among the nearest.
LEMMA NearestExists ==
  ASSUME NEW A \in Adjacencies, NEW s, NEW n \in Node, Reached(A, s, n)
  PROVE  Hops(A, s, n) \in Nat /\ Origin(A, s, n) \in Node /\ IsNearest(A, s, n, Hops(A, s, n), Origin(A, s, n))
<1> DEFINE R == {k \in Nat : Seeded(A, s, n, k) # {}}
<1>1. R # {} /\ R \subseteq Nat
  BY DEF Reached
<1>2. PICK d \in R : \A k \in R : d <= k
  BY <1>1, LeastElement
<1>3. d \in Nat /\ Seeded(A, s, n, d) # {} /\ \A k \in Nat : k < d => Seeded(A, s, n, k) = {}
  <2>1. d \in Nat /\ Seeded(A, s, n, d) # {}
    BY <1>2
  <2>2. ASSUME NEW k \in Nat, k < d, Seeded(A, s, n, k) # {} PROVE FALSE
    BY <1>2, <2>1, <2>2
  <2>3. QED
    BY <2>1, <2>2
<1>4. Seeded(A, s, n, d) \subseteq Node /\ Node \subseteq Nat
  BY <1>3, BallGrows DEF Seeded, Node
<1> DEFINE T == Seeded(A, s, n, d)
<1>5. T \subseteq Nat /\ T # {}
  BY <1>3, <1>4
<1>6. PICK o \in T : \A m \in T : o <= m
  <2> HIDE DEF T
  <2>1. QED
    BY <1>5, LeastElement
<1>7. o \in Node /\ IsNearest(A, s, n, d, o)
  BY <1>3, <1>4, <1>6 DEF IsNearest
<1>8. Hops(A, s, n) \in Nat /\ \E x \in Node : IsNearest(A, s, n, Hops(A, s, n), x)
  BY <1>3, <1>7 DEF Hops
<1>9. QED
  BY <1>8 DEF Origin

\* Nearer, or as near and of a smaller id.
NoFurther(d, o, e, p) == d < e \/ (d = e /\ o <= p)
Before(A, s, n, m) == NoFurther(Hops(A, s, n), Origin(A, s, n), Hops(A, s, m), Origin(A, s, m))
\* n is no further than a neighbour of c, and c's neighbours no further than n.
NotBeyond(A, s, n, c) == NoFurther(Hops(A, s, n), Origin(A, s, n), Hops(A, s, c) + 1, Origin(A, s, c))
NotWithin(A, s, c, n) == NoFurther(Hops(A, s, c) + 1, Origin(A, s, c), Hops(A, s, n), Origin(A, s, n))

\* An activity is its own nearest seed.
LEMMA SeedIsNearest ==
  ASSUME NEW A \in Adjacencies, NEW s, NEW n \in Node
  PROVE  /\ s[n] # None => Reached(A, s, n) /\ Hops(A, s, n) = 0 /\ Origin(A, s, n) = n
         /\ Reached(A, s, n) /\ Hops(A, s, n) = 0 => s[n] # None
<1>1. Ball(A, n, 0) = {n}
  BY BallGrows
<1>2. ASSUME s[n] # None PROVE Reached(A, s, n) /\ Hops(A, s, n) = 0 /\ Origin(A, s, n) = n
  <2>1. 0 \in Nat /\ Seeded(A, s, n, 0) = {n}
    BY <1>1, <1>2 DEF Seeded
  <2>2. Reached(A, s, n)
    BY <2>1 DEF Reached
  <2>3. IsNearest(A, s, n, Hops(A, s, n), Origin(A, s, n)) /\ Hops(A, s, n) \in Nat
    BY <2>2, NearestExists
  <2>4. ~(0 < Hops(A, s, n))
    BY <2>1, <2>3 DEF IsNearest
  <2>5. Hops(A, s, n) = 0
    BY <2>3, <2>4
  <2>6. Origin(A, s, n) = n
    BY <2>1, <2>3, <2>5 DEF IsNearest
  <2>7. QED
    BY <2>2, <2>5, <2>6
<1>3. ASSUME Reached(A, s, n), Hops(A, s, n) = 0 PROVE s[n] # None
  <2>1. IsNearest(A, s, n, 0, Origin(A, s, n))
    BY <1>3, NearestExists
  <2>2. QED
    BY <2>1, <1>1 DEF IsNearest, Seeded
<1>4. QED
  BY <1>2, <1>3

\* What a node is reached from reaches its neighbours in one more hop at most.
LEMMA NeighbourIsNear ==
  ASSUME NEW A \in Adjacencies, NEW s, NEW c \in Node, Reached(A, s, c), NEW n \in A[c]
  PROVE  n \in Node /\ Reached(A, s, n) /\ NotBeyond(A, s, n, c)
<1> DEFINE d == Hops(A, s, c)
           o == Origin(A, s, c)
<1>1. n \in Node /\ c \in A[n]
  BY DEF Adjacencies
<1>2. d \in Nat /\ o \in Node /\ IsNearest(A, s, c, d, o)
  BY NearestExists
<1> HIDE DEF d, o
<1>3. d + 1 \in Nat /\ o \in Seeded(A, s, n, d+1)
  <2>1. o \in Ball(A, c, d) /\ s[o] # None
    BY <1>2 DEF IsNearest, Seeded
  <2>2. Ball(A, c, d) \subseteq Ball(A, n, d+1)
    BY <1>1, <1>2, BallOfNeighbour
  <2>3. QED
    BY <1>2, <2>1, <2>2 DEF Seeded
<1>4. Reached(A, s, n)
  BY <1>3 DEF Reached
<1> DEFINE e == Hops(A, s, n)
           p == Origin(A, s, n)
<1>5. e \in Nat /\ p \in Node /\ IsNearest(A, s, n, e, p)
  BY <1>1, <1>4, NearestExists
<1> HIDE DEF e, p
<1>6. ~(d + 1 < e)
  BY <1>3, <1>5 DEF IsNearest
<1>7. e = d + 1 => p <= o
  BY <1>3, <1>5 DEF IsNearest
<1>8. NoFurther(e, p, d + 1, o)
  BY <1>2, <1>5, <1>6, <1>7 DEF NoFurther
<1>9. QED
  BY <1>1, <1>4, <1>8 DEF NotBeyond, d, o, e, p

\* A node that is no seed is reached through a neighbour one hop nearer to its origin.
LEMMA NeighbourIsNearer ==
  ASSUME NEW A \in Adjacencies, NEW s, NEW n \in Node, Reached(A, s, n), s[n] = None
  PROVE  /\ Hops(A, s, n) \in Nat \ {0}
         /\ \E p \in A[n] : /\ p \in Node /\ Reached(A, s, p)
                            /\ Hops(A, s, p) = Hops(A, s, n) - 1 /\ Origin(A, s, p) = Origin(A, s, n)
<1> DEFINE d == Hops(A, s, n)
           o == Origin(A, s, n)
<1>1. d \in Nat /\ o \in Node /\ IsNearest(A, s, n, d, o)
  BY NearestExists
<1>2. d # 0
  BY SeedIsNearest
<1> HIDE DEF d, o
<1>3. d - 1 \in Nat /\ (d - 1) + 1 = d
  BY <1>1, <1>2
<1>4. o \in Ball(A, n, (d-1)+1) /\ s[o] # None
  BY <1>1, <1>3 DEF IsNearest, Seeded
<1>5. PICK p \in A[n] : o \in Ball(A, p, d-1)
  <2>1. o # n
    BY <1>4
  <2>2. \A m \in Ball(A, n, (d-1)+1) : m = n \/ \E p \in A[n] : m \in Ball(A, p, d-1)
    BY <1>3, BallOfNeighbour
  <2>3. QED
    BY <2>1, <2>2, <1>4
<1>6. p \in Node /\ n \in A[p]
  BY DEF Adjacencies
<1>7. o \in Seeded(A, s, p, d-1)
  BY <1>4, <1>5 DEF Seeded
<1>8. Reached(A, s, p)
  BY <1>3, <1>7 DEF Reached
<1> DEFINE e == Hops(A, s, p)
           q == Origin(A, s, p)
<1>9. e \in Nat /\ q \in Node /\ IsNearest(A, s, p, e, q)
  BY <1>6, <1>8, NearestExists
<1> HIDE DEF e, q
<1>10. e <= d - 1
  <2>1. ~(d - 1 < e)
    BY <1>3, <1>7, <1>9 DEF IsNearest
  <2>2. QED
    BY <1>1, <1>9, <2>1
<1>11. q \in Seeded(A, s, n, e+1)
  <2>1. Ball(A, p, e) \subseteq Ball(A, n, e+1)
    BY <1>9, BallOfNeighbour
  <2>2. QED
    BY <2>1, <1>9 DEF IsNearest, Seeded
<1>12. e = d - 1
  <2>1. ~(e + 1 < d)
    BY <1>1, <1>9, <1>11 DEF IsNearest
  <2>2. QED
    BY <1>1, <1>9, <1>10, <2>1
<1>13. q = o
  <2>1. e + 1 = d /\ o \in Nat /\ q \in Nat
    BY <1>1, <1>9, <1>12, <1>3 DEF Node
  <2>2. o <= q
    BY <1>1, <1>11, <2>1 DEF IsNearest
  <2>3. q <= o
    BY <1>7, <1>9, <1>12 DEF IsNearest
  <2>4. QED
    BY <2>1, <2>2, <2>3
<1>14. QED
  BY <1>1, <1>2, <1>6, <1>8, <1>12, <1>13 DEF d, o, e, q

\* Nearest seeds are nearer than there are nodes: there is a node for every smaller number of hops.
LEMMA HopsBounded ==
  ASSUME NEW A \in Adjacencies, NEW s, NEW n \in Node, Reached(A, s, n)
  PROVE  Hops(A, s, n) \in 0 .. K
<1> DEFINE d == Hops(A, s, n)
           Afar(p, j) == Reached(A, s, p) /\ Hops(A, s, p) = j
           f == [j \in 0 .. d |-> CHOOSE p \in Node : Afar(p, j)]
           R == {f[j] : j \in 0 .. d}
<1>1. d \in Nat /\ Afar(n, d)
  BY NearestExists
<1> HIDE DEF d
<1>2. ASSUME NEW j \in 0 .. d PROVE \E p \in Node : Afar(p, j)
  <2> SUFFICES ASSUME \A p \in Node : ~Afar(p, j) PROVE FALSE
    OBVIOUS
  <2> DEFINE S == {k \in Nat : k >= j /\ \E p \in Node : Afar(p, k)}
  <2>1. d \in S /\ S \subseteq Nat
    BY <1>1
  <2>2. PICK k \in S : \A l \in S : k <= l
    <3> HIDE DEF S
    <3>1. QED
      BY <2>1, LeastElement
  <2>3. PICK p \in Node : Afar(p, k)
    BY <2>2
  <2>4. k \in Nat /\ k > j /\ k # 0
    <3>1. k # j
      BY <2>3
    <3>2. QED
      BY <2>2, <3>1
  <2>5. s[p] = None
    BY <2>3, <2>4, SeedIsNearest
  <2>6. PICK q \in Node : Afar(q, k - 1)
    BY <2>3, <2>5, NeighbourIsNearer
  <2>7. k - 1 \in S
    BY <2>4, <2>6
  <2> HIDE DEF S, Afar
  <2>8. QED
    BY <2>2, <2>4, <2>7
<1>3. f \in [0 .. d -> Node] /\ \A j \in 0 .. d : Afar(f[j], j)
  BY <1>2
<1>4. \A j, k \in 0 .. d : f[j] = f[k] => j = k
  BY <1>3
<1> HIDE DEF f, Afar
<1>5. f \in Bijection(0 .. d, R) /\ R \subseteq Node
  BY <1>3, <1>4 DEF Bijection, Injection, Surjection, IsInjective
<1>6. /\ IsFiniteSet(0 .. d) /\ Cardinality(0 .. d) = d + 1
      /\ IsFiniteSet(Node) /\ Cardinality(Node) = K
  <2>1. Cardinality(0 .. d) = d - 0 + 1 /\ IsFiniteSet(0 .. d)
    BY <1>1, FS_Interval
  <2>2. IsFiniteSet(1 .. K) /\ Cardinality(1 .. K) = K
    BY KAssumption, FS_Interval
  <2>3. QED
    BY <2>1, <2>2, <1>1 DEF Node
<1> HIDE DEF R
<1>7. Cardinality(R) = d + 1
  BY <1>5, <1>6, FS_Bijection DEF ExistsBijection
<1>8. Cardinality(R) <= K
  BY <1>5, <1>6, FS_Subset
<1>9. QED
  BY <1>1, <1>7, <1>8, KAssumption DEF d

(***************************************************************************)
(* The search                                                              *)
(***************************************************************************)
Waiting(q, u) == \E i \in 1 .. Len(q) : q[i] = u
Given(c) == {n \in Node : c[n] # None}

\* A pool that was given is that of the nearest seed; the neighbours of a node have pools once
\* it is done.
PoolsGiven(A, s, c, q, x, t) ==
  /\ \A n \in Node : s[n] # None => n \in Given(c)
  /\ \A n \in Given(c) : Reached(A, s, n) /\ c[n] = s[Origin(A, s, n)]
  /\ \A i \in 1 .. Len(q) : q[i] \in Given(c)
  /\ \A u \in Given(c) : Waiting(q, u) \/ \A m \in A[u] : m \in Given(c) \/ (u = x /\ m \in t)

\* The queue is in the order of hops and seeds.  All that wait lie between the current node and
\* its neighbours, and all that have no pool yet not before these.
InOrder(A, s, c, q, x, t) ==
  /\ \A i, j \in 1 .. Len(q) : i < j => Before(A, s, q[i], q[j])
  /\ x = 0 => t = {} /\ \A i \in 1 .. Len(q) : Hops(A, s, q[i]) = 0
  /\ x # 0 => /\ x \in Given(c) /\ t \subseteq A[x]
              /\ \A i \in 1 .. Len(q) : Before(A, s, x, q[i]) /\ NotBeyond(A, s, q[i], x)
              /\ \A n \in Node \ Given(c) : Reached(A, s, n) => NotWithin(A, s, x, n)

SearchTypes(A, s, c, q, x, t) ==
  /\ A \in Adjacencies /\ s \in [Node -> Pool \cup {None}] /\ c \in [Node -> Pool \cup {None}]
  /\ q \in Seq(Node) /\ x \in 0 .. K /\ t \subseteq Node

Search(A, s, c, q, x, t) == SearchTypes(A, s, c, q, x, t) /\ PoolsGiven(A, s, c, q, x, t) /\ InOrder(A, s, c, q, x, t)

\* What comes next in the queue is no further than what has no pool yet, and when the queue is
\* empty nothing is left that a seed reaches.
LEMMA NextIsNearest ==
  ASSUME NEW A, NEW s, NEW c, NEW q, NEW x, Search(A, s, c, q, x, {}),
         NEW n \in Node \ Given(c), Reached(A, s, n)
  PROVE  q # <<>> /\ NotWithin(A, s, q[1], n)
<1> DEFINE Unreached(m) == m \in Node \ Given(c) /\ Reached(A, s, m)
           Bad(m) == Unreached(m) /\ ~(q # <<>> /\ NotWithin(A, s, q[1], m))
           H == {Hops(A, s, m) : m \in {m \in Node : Bad(m)}}
<1> SUFFICES ASSUME Bad(n) PROVE FALSE
  OBVIOUS
<1>1. A \in Adjacencies /\ q \in Seq(Node)
  BY DEF Search, SearchTypes
<1>2. \A m \in Node : Unreached(m) => Hops(A, s, m) \in Nat /\ Origin(A, s, m) \in Node
  BY <1>1, NearestExists
<1>3. H # {} /\ H \subseteq Nat
  BY <1>2
<1>4. PICK h \in H : \A k \in H : h <= k
  <2> HIDE DEF H
  <2>1. QED
    BY <1>3, LeastElement
<1>5. PICK m \in Node : Bad(m) /\ Hops(A, s, m) = h
  BY <1>4
<1>6. s[m] = None
  BY <1>5 DEF Search, PoolsGiven
<1>7. PICK p \in A[m] : /\ p \in Node /\ Reached(A, s, p)
                        /\ Hops(A, s, p) = Hops(A, s, m) - 1 /\ Origin(A, s, p) = Origin(A, s, m)
  BY <1>1, <1>5, <1>6, NeighbourIsNearer
<1>8. m \in A[p] /\ h \in Nat \ {0} /\ Origin(A, s, m) \in Nat
  <2>1. Hops(A, s, m) \in Nat \ {0}
    BY <1>1, <1>5, <1>6, NeighbourIsNearer
  <2>2. m \in A[p]
    BY <1>1, <1>7 DEF Adjacencies
  <2>3. Origin(A, s, m) \in Nat
    BY <1>2, <1>5 DEF Node
  <2>4. QED
    BY <1>5, <2>1, <2>2, <2>3
<1>9. CASE p \in Given(c)
  <2>1. PICK i \in 1 .. Len(q) : q[i] = p
    BY <1>5, <1>8, <1>9 DEF Search, PoolsGiven, Waiting
  <2>2. q # <<>> /\ 1 \in 1 .. Len(q) /\ q[1] \in Node
    BY <1>1, <2>1
  <2>3. Reached(A, s, q[1])
    BY <2>2 DEF Search, PoolsGiven
  <2>4. Hops(A, s, q[1]) \in Nat /\ Origin(A, s, q[1]) \in Nat
    BY <1>1, <2>2, <2>3, NearestExists DEF Node
  <2>5. Before(A, s, q[1], p)
    <3>1. CASE i = 1
      BY <2>1, <2>4, <3>1 DEF Before, NoFurther
    <3>2. CASE i # 1
      <4>1. 1 < i
        BY <3>2
      <4>2. QED
        BY <4>1, <2>1, <2>2 DEF Search, InOrder
    <3>3. QED
      BY <3>1, <3>2
  <2>6. NotWithin(A, s, q[1], m)
    BY <2>4, <2>5, <1>7, <1>8, <1>5 DEF Before, NotWithin, NoFurther
  <2>7. QED
    BY <2>2, <2>6, <1>5
<1>10. CASE p \notin Given(c)
  <2>1. ~Bad(p)
    <3>1. SUFFICES ASSUME Bad(p) PROVE FALSE
      OBVIOUS
    <3>2. Hops(A, s, p) \in H
      BY <3>1, <1>7
    <3>3. h <= h - 1
      BY <3>2, <1>4, <1>5, <1>7
    <3>4. QED
      BY <3>3, <1>8
  <2>2. q # <<>> /\ NotWithin(A, s, q[1], p)
    BY <2>1, <1>7, <1>10
  <2>3. q[1] \in Node /\ 1 \in 1 .. Len(q)
    BY <2>2, <1>1
  <2>4. Reached(A, s, q[1])
    BY <2>3 DEF Search, PoolsGiven
  <2>5. Hops(A, s, q[1]) \in Nat /\ Origin(A, s, q[1]) \in Nat
    BY <1>1, <2>3, <2>4, NearestExists DEF Node
  <2>6. NotWithin(A, s, q[1], m)
    BY <2>2, <2>5, <1>7, <1>8, <1>5 DEF NotWithin, NoFurther
  <2>7. QED
    BY <2>2, <2>6, <1>5
<1>11. QED
  BY <1>9, <1>10

\* At the beginning the seeds wait, by id.
LEMMA SearchStarts ==
  ASSUME NEW A \in Adjacencies, NEW s \in [Node -> Pool \cup {None}]
  PROVE  Search(A, s, s, Ascending({n \in Node : s[n] # None}), 0, {})
<1> DEFINE P == {n \in Node : s[n] # None}
           q == Ascending(P)
<1>1. P \in SUBSET (1 .. K) /\ K \in Nat
  BY KAssumption DEF Node
<1>2. Given(s) = P
  BY DEF Given
<1> HIDE DEF P
<1>3. /\ Cardinality(P) \in Nat
      /\ \A k \in 1 .. Cardinality(P) : Kth(P, k) \in P
      /\ \A i \in P : \E k \in 1 .. Cardinality(P) : Kth(P, k) = i
      /\ \A k, l \in 1 .. Cardinality(P) : k < l => Kth(P, k) < Kth(P, l)
  BY <1>1, KthInOrder
<1>4. q = [k \in 1 .. Cardinality(P) |-> Kth(P, k)]
  BY DEF Ascending, Kth
<1> HIDE DEF q
<1>5. q \in Seq(Node) /\ Len(q) = Cardinality(P) /\ \A k \in 1 .. Len(q) : q[k] = Kth(P, k)
  <2>1. \A k \in 1 .. Cardinality(P) : Kth(P, k) \in Node
    BY <1>1, <1>3 DEF Node
  <2>2. QED
    BY <1>3, <1>4, <2>1
<1>6. \A n \in P : n \in Node /\ s[n] # None /\ Reached(A, s, n) /\ Hops(A, s, n) = 0 /\ Origin(A, s, n) = n
  <2>1. \A n \in P : n \in Node /\ s[n] # None
    BY DEF P
  <2>2. QED
    BY <2>1, SeedIsNearest
<1>7. SearchTypes(A, s, s, q, 0, {})
  BY <1>5, KAssumption DEF SearchTypes
<1>8. PoolsGiven(A, s, s, q, 0, {})
  <2>1. \A n \in Node : s[n] # None => n \in P
    BY DEF P
  <2>2. \A u \in P : Waiting(q, u)
    BY <1>3, <1>5 DEF Waiting
  <2>3. \A i \in 1 .. Len(q) : q[i] \in P
    BY <1>3, <1>5
  <2>4. QED
    BY <1>2, <1>6, <2>1, <2>2, <2>3 DEF PoolsGiven
<1>9. InOrder(A, s, s, q, 0, {})
  <2>1. ASSUME NEW i \in 1 .. Len(q), NEW j \in 1 .. Len(q), i < j PROVE Before(A, s, q[i], q[j])
    <3>1. q[i] \in P /\ q[j] \in P /\ q[i] < q[j]
      BY <1>3, <1>5, <2>1
    <3>2. q[i] \in Nat /\ q[j] \in Nat
      BY <3>1, <1>6 DEF Node
    <3>3. QED
      BY <3>1, <3>2, <1>6 DEF Before, NoFurther
  <2>2. \A i \in 1 .. Len(q) : Hops(A, s, q[i]) = 0
    BY <1>3, <1>5, <1>6
  <2>3. QED
    BY <2>1, <2>2 DEF InOrder
<1>10. QED
  BY <1>7, <1>8, <1>9 DEF Search, q, P

\* Taking the first of the queue keeps the order.
LEMMA TakingKeepsSearch ==
  ASSUME NEW A, NEW s, NEW c, NEW q, NEW x, Search(A, s, c, q, x, {}), q # <<>>
  PROVE  Search(A, s, c, Tail(q), Head(q), A[Head(q)])
<1> DEFINE r == Tail(q)
           y == Head(q)
<1>1. /\ A \in Adjacencies /\ q \in Seq(Node) /\ x \in 0 .. K
      /\ PoolsGiven(A, s, c, q, x, {}) /\ InOrder(A, s, c, q, x, {})
  BY DEF Search, SearchTypes
<1>2. /\ r \in Seq(Node) /\ Len(r) \in Nat /\ Len(q) = Len(r) + 1 /\ y = q[1] /\ y \in Node
      /\ \A i \in 1 .. Len(r) : r[i] = q[i+1] /\ r[i] \in Node
  BY <1>1
<1> HIDE DEF r, y
<1>3. A[y] \subseteq Node /\ Node = 1 .. K
  BY <1>1, <1>2 DEF Adjacencies, Node
<1>4. 1 \in 1 .. Len(q) /\ \A i \in 1 .. Len(r) : i + 1 \in 1 .. Len(q)
  BY <1>2
<1>5. y \in Given(c) /\ \A i \in 1 .. Len(r) : r[i] \in Given(c)
  BY <1>1, <1>2, <1>4 DEF PoolsGiven
<1>6. \A u \in Given(c) : Reached(A, s, u) /\ Hops(A, s, u) \in Nat /\ Origin(A, s, u) \in Nat
  <2>1. \A u \in Given(c) : u \in Node /\ Reached(A, s, u)
    BY <1>1 DEF PoolsGiven, Given
  <2>2. QED
    BY <1>1, <2>1, NearestExists DEF Node
<1>7. PoolsGiven(A, s, c, r, y, A[y])
  <2>1. ASSUME NEW u \in Given(c)
        PROVE  Waiting(r, u) \/ \A m \in A[u] : m \in Given(c) \/ (u = y /\ m \in A[y])
    <3>1. CASE Waiting(q, u)
      <4>1. PICK i \in 1 .. Len(q) : q[i] = u
        BY <3>1 DEF Waiting
      <4>2. CASE i = 1
        BY <4>1, <4>2, <1>2
      <4>3. CASE i # 1
        <5>1. i - 1 \in 1 .. Len(r) /\ (i - 1) + 1 = i
          BY <4>3, <1>2
        <5>2. r[i-1] = u
          BY <4>1, <5>1, <1>2
        <5>3. QED
          BY <5>1, <5>2 DEF Waiting
      <4>4. QED
        BY <4>2, <4>3
    <3>2. CASE ~Waiting(q, u)
      BY <3>2, <1>1 DEF PoolsGiven
    <3>3. QED
      BY <3>1, <3>2
  <2>2. QED
    BY <2>1, <1>1, <1>5 DEF PoolsGiven
<1>8. InOrder(A, s, c, r, y, A[y])
  <2>1. \A i, j \in 1 .. Len(q) : i < j => Before(A, s, q[i], q[j])
    BY <1>1 DEF InOrder
  <2>2. \A i, j \in 1 .. Len(r) : i < j => Before(A, s, r[i], r[j])
    <3> SUFFICES ASSUME NEW i \in 1 .. Len(r), NEW j \in 1 .. Len(r), i < j PROVE Before(A, s, r[i], r[j])
      OBVIOUS
    <3>1. i + 1 < j + 1 /\ i + 1 \in 1 .. Len(q) /\ j + 1 \in 1 .. Len(q)
      BY <1>4
    <3>2. r[i] = q[i+1] /\ r[j] = q[j+1]
      BY <1>2
    <3>3. QED
      BY <2>1, <3>1, <3>2
  <2>3. ASSUME NEW i \in 1 .. Len(r) PROVE Before(A, s, y, r[i])
    <3>1. 1 < i + 1 /\ i + 1 \in 1 .. Len(q)
      BY <1>4
    <3>2. QED
      BY <1>2, <1>4, <2>1, <3>1
  <2>4. ASSUME NEW i \in 1 .. Len(r) PROVE NotBeyond(A, s, r[i], y)
    <3>1. /\ Hops(A, s, y) \in Nat /\ Origin(A, s, y) \in Nat
          /\ Hops(A, s, r[i]) \in Nat /\ Origin(A, s, r[i]) \in Nat
      BY <1>5, <1>6
    <3>2. CASE x = 0
      <4>1. Hops(A, s, r[i]) = 0
        BY <1>1, <1>2, <1>4, <3>2 DEF InOrder
      <4>2. QED
        BY <3>1, <4>1 DEF NotBeyond, NoFurther
    <3>3. CASE x # 0
      <4>1. x \in Given(c) /\ Before(A, s, x, y) /\ NotBeyond(A, s, r[i], x)
        BY <1>1, <1>2, <1>4, <3>3 DEF InOrder
      <4>2. Hops(A, s, x) \in Nat /\ Origin(A, s, x) \in Nat
        BY <4>1, <1>6
      <4>3. QED
        BY <3>1, <4>1, <4>2 DEF Before, NotBeyond, NoFurther
    <3>4. QED
      BY <3>2, <3>3
  <2>5. ASSUME NEW n \in Node \ Given(c), Reached(A, s, n) PROVE NotWithin(A, s, y, n)
    BY <1>2, <2>5, NextIsNearest
  <2>6. y # 0
    BY <1>2 DEF Node
  <2>7. QED
    BY <1>5, <2>2, <2>3, <2>4, <2>5, <2>6 DEF InOrder
<1>9. SearchTypes(A, s, c, r, y, A[y])
  BY <1>1, <1>2, <1>3 DEF Search, SearchTypes
<1>10. QED
  BY <1>7, <1>8, <1>9 DEF Search, r, y

\* A neighbour that has a pool is passed over.
LEMMA PassingKeepsSearch ==
  ASSUME NEW A, NEW s, NEW c, NEW q, NEW x, NEW t, Search(A, s, c, q, x, t), NEW n \in t, n \in Given(c)
  PROVE  Search(A, s, c, q, x, t \ {n})
BY DEF Search, SearchTypes, PoolsGiven, InOrder

\* A neighbour that has none gets that of the current node, which is that of its nearest seed,
\* and comes to the end of the queue.
LEMMA GivingKeepsSearch ==
  ASSUME NEW A, NEW s, NEW c, NEW q, NEW x, NEW t, Search(A, s, c, q, x, t), NEW n \in t, n \notin Given(c)
  PROVE  Search(A, s, [c EXCEPT ![n] = c[x]], Append(q, n), x, t \ {n})
<1> DEFINE d == [c EXCEPT ![n] = c[x]]
           r == Append(q, n)
           u == t \ {n}
<1>1. /\ A \in Adjacencies /\ s \in [Node -> Pool \cup {None}] /\ c \in [Node -> Pool \cup {None}]
      /\ q \in Seq(Node) /\ x \in 0 .. K /\ t \subseteq Node /\ n \in Node
      /\ PoolsGiven(A, s, c, q, x, t) /\ InOrder(A, s, c, q, x, t)
  BY DEF Search, SearchTypes
<1>2. /\ x \in Given(c) /\ t \subseteq A[x]
      /\ \A i \in 1 .. Len(q) : Before(A, s, x, q[i]) /\ NotBeyond(A, s, q[i], x)
      /\ \A m \in Node \ Given(c) : Reached(A, s, m) => NotWithin(A, s, x, m)
  BY <1>1 DEF InOrder
<1>3. x \in Node /\ c[x] # None /\ c[x] \in Pool
  BY <1>1, <1>2 DEF Given
<1>4. d \in [Node -> Pool \cup {None}] /\ d[n] = c[x] /\ \A m \in Node \ {n} : d[m] = c[m]
  BY <1>1, <1>3
<1>5. Given(d) = Given(c) \cup {n}
  BY <1>1, <1>3, <1>4 DEF Given
<1>6. /\ r \in Seq(Node) /\ Len(q) \in Nat /\ Len(r) = Len(q) + 1 /\ r[Len(q)+1] = n
      /\ \A i \in 1 .. Len(q) : r[i] = q[i]
  BY <1>1
<1> HIDE DEF d, r
<1>7. \A m \in Given(c) : Reached(A, s, m) /\ Hops(A, s, m) \in Nat /\ Origin(A, s, m) \in Nat
  <2>1. \A m \in Given(c) : m \in Node /\ Reached(A, s, m)
    BY <1>1 DEF PoolsGiven, Given
  <2>2. QED
    BY <1>1, <2>1, NearestExists DEF Node
<1>8. Reached(A, s, n) /\ NotBeyond(A, s, n, x) /\ NotWithin(A, s, x, n)
  <2>1. Reached(A, s, n) /\ NotBeyond(A, s, n, x)
    BY <1>1, <1>2, <1>3, <1>7, NeighbourIsNear
  <2>2. QED
    BY <2>1, <1>1, <1>2
<1>9. Hops(A, s, n) \in Nat /\ Origin(A, s, n) \in Nat
  BY <1>1, <1>8, NearestExists DEF Node
<1>10. Hops(A, s, n) = Hops(A, s, x) + 1 /\ Origin(A, s, n) = Origin(A, s, x)
  BY <1>2, <1>7, <1>8, <1>9 DEF NotBeyond, NotWithin, NoFurther
<1>11. PoolsGiven(A, s, d, r, x, u)
  <2>1. \A m \in Node : s[m] # None => m \in Given(d)
    BY <1>1, <1>5 DEF PoolsGiven
  <2>2. ASSUME NEW m \in Given(d) PROVE Reached(A, s, m) /\ d[m] = s[Origin(A, s, m)]
    <3>1. CASE m = n
      <4>1. c[x] = s[Origin(A, s, x)]
        BY <1>1, <1>2 DEF PoolsGiven
      <4>2. QED
        BY <3>1, <4>1, <1>4, <1>8, <1>10
    <3>2. CASE m # n
      <4>1. m \in Given(c) /\ m \in Node
        BY <3>2, <1>5 DEF Given
      <4>2. Reached(A, s, m) /\ c[m] = s[Origin(A, s, m)]
        BY <4>1, <1>1 DEF PoolsGiven
      <4>3. QED
        BY <4>1, <4>2, <3>2, <1>4
    <3>3. QED
      BY <3>1, <3>2
  <2>3. ASSUME NEW i \in 1 .. Len(r) PROVE r[i] \in Given(d)
    <3>1. CASE i = Len(q) + 1
      BY <3>1, <1>5, <1>6
    <3>2. CASE i # Len(q) + 1
      <4>1. i \in 1 .. Len(q)
        BY <3>2, <1>6
      <4>2. QED
        BY <4>1, <1>1, <1>5, <1>6 DEF PoolsGiven
    <3>3. QED
      BY <3>1, <3>2
  <2>4. ASSUME NEW v \in Given(d)
        PROVE  Waiting(r, v) \/ \A m \in A[v] : m \in Given(d) \/ (v = x /\ m \in u)
    <3>1. CASE v = n
      <4>1. Len(q) + 1 \in 1 .. Len(r)
        BY <1>6
      <4>2. QED
        BY <3>1, <4>1, <1>6 DEF Waiting
    <3>2. CASE v # n /\ Waiting(q, v)
      <4>1. PICK i \in 1 .. Len(q) : q[i] = v
        BY <3>2 DEF Waiting
      <4>2. i \in 1 .. Len(r)
        BY <1>6
      <4>3. QED
        BY <4>1, <4>2, <1>6 DEF Waiting
    <3>3. CASE v # n /\ ~Waiting(q, v)
      <4>1. \A m \in A[v] : m \in Given(c) \/ (v = x /\ m \in t)
        BY <3>3, <1>1, <1>5 DEF PoolsGiven
      <4>2. QED
        BY <4>1, <1>5
    <3>4. QED
      BY <3>1, <3>2, <3>3
  <2>5. QED
    BY <2>1, <2>2, <2>3, <2>4 DEF PoolsGiven
<1>12. InOrder(A, s, d, r, x, u)
  <2>1. ASSUME NEW i \in 1 .. Len(r), NEW j \in 1 .. Len(r), i < j PROVE Before(A, s, r[i], r[j])
    <3>1. i \in 1 .. Len(q) /\ r[i] = q[i]
      BY <2>1, <1>6
    <3>2. CASE j = Len(q) + 1
      <4>1. NotBeyond(A, s, q[i], x)
        BY <3>1, <1>2
      <4>2. QED
        BY <4>1, <3>1, <3>2, <1>6, <1>10 DEF Before, NotBeyond
    <3>3. CASE j # Len(q) + 1
      <4>1. j \in 1 .. Len(q) /\ r[j] = q[j]
        BY <3>3, <1>6
      <4>2. QED
        BY <4>1, <3>1, <2>1, <1>1 DEF InOrder
    <3>4. QED
      BY <3>2, <3>3
  <2>2. ASSUME NEW i \in 1 .. Len(r) PROVE Before(A, s, x, r[i]) /\ NotBeyond(A, s, r[i], x)
    <3>1. CASE i = Len(q) + 1
      <4>1. Before(A, s, x, n)
        BY <1>2, <1>7, <1>9, <1>10 DEF Before, NoFurther
      <4>2. QED
        BY <4>1, <3>1, <1>6, <1>8
    <3>2. CASE i # Len(q) + 1
      <4>1. i \in 1 .. Len(q) /\ r[i] = q[i]
        BY <3>2, <1>6
      <4>2. QED
        BY <4>1, <1>2
    <3>3. QED
      BY <3>1, <3>2
  <2>3. x # 0 /\ x \in Given(d) /\ u \subseteq A[x]
    BY <1>2, <1>3, <1>5 DEF Node
  <2>4. \A m \in Node \ Given(d) : Reached(A, s, m) => NotWithin(A, s, x, m)
    BY <1>2, <1>5
  <2>5. QED
    BY <2>1, <2>2, <2>3, <2>4 DEF InOrder
<1>13. SearchTypes(A, s, d, r, x, u)
  BY <1>1, <1>4, <1>6 DEF SearchTypes
<1>14. QED
  BY <1>11, <1>12, <1>13 DEF Search, d, r

\* When the search is over: who is reached by a seed has the pool of the nearest one, who is not
\* the least of all pools.
Settled(A, s, c) ==
  \A n \in Node : /\ c[n] # None
                  /\ Reached(A, s, n) => c[n] = s[Origin(A, s, n)]
                  /\ ~Reached(A, s, n) => \A m \in Node : c[n] <= c[m]

BpmnNode == {"copy", "throw", "catch"} \X Node \X Node
BpmnFlow == BpmnNode \X BpmnNode

PoolTypeOK ==
  /\ flows \subseteq Node \X Node /\ todoFlows \subseteq flows
  /\ seeds \in [Node -> Pool \cup {None}]
  /\ coloring \in [Node -> Pool \cup {ProcessPool, None}]
  /\ bpmn \in [sequence : SUBSET BpmnFlow, message : SUBSET BpmnFlow]
  /\ pc \in {"search", "flows", "done"}

\* The collaboration so far has its hand-offs at the boundaries of the pools, and all flows that
\* were carried over.
HandoffInv ==
  /\ pc = "search" => todoFlows = flows /\ bpmn = [sequence |-> {}, message |-> {}]
  /\ pc = "done" => todoFlows = {}
  /\ \A f \in bpmn.sequence : PoolOf(f[1]) = PoolOf(f[2])
  /\ \A f \in bpmn.message : PoolOf(f[1]) # PoolOf(f[2]) /\ f[1] \in Handoff /\ f[2] \in Handoff
  /\ \A f \in flows \ todoFlows : Carried(f)

PoolInv ==
  /\ PoolTypeOK /\ HandoffInv
  /\ pc = "search" => Search(Adjacency, seeds, coloring, queue, current, todo)
  /\ pc = "flows" => Settled(Adjacency, seeds, coloring)

\* The flows are an adjacency: _color_pools follows a flow from either end.
LEMMA AdjacencyIsOne == ASSUME flows \subseteq Node \X Node PROVE Adjacency \in Adjacencies
BY DEF Adjacency, Adjacencies, Neighbours

\* When _color_pools begins, the seeds have their pools and wait, and nothing is carried over.
LEMMA PoolStarts == InitWith(SUBSET (Node \X Node), [Node -> Pool \cup {None}]) => PoolInv
<1> SUFFICES ASSUME InitWith(SUBSET (Node \X Node), [Node -> Pool \cup {None}]) PROVE PoolInv
  OBVIOUS
<1>1. /\ flows \subseteq Node \X Node /\ seeds \in [Node -> Pool \cup {None}] /\ coloring = seeds
      /\ queue = Ascending({n \in Node : seeds[n] # None}) /\ current = 0 /\ todo = {}
      /\ todoFlows = flows /\ bpmn = [sequence |-> {}, message |-> {}] /\ pc = "search"
  BY DEF InitWith
<1>2. Search(Adjacency, seeds, coloring, queue, current, todo)
  <2>1. Search(Adjacency, seeds, seeds, Ascending({n \in Node : seeds[n] # None}), 0, {})
    BY <1>1, AdjacencyIsOne, SearchStarts
  <2>2. QED
    BY <1>1, <2>1
<1>3. PoolTypeOK
  BY <1>1 DEF PoolTypeOK
<1>4. HandoffInv
  BY <1>1 DEF HandoffInv
<1>5. QED
  BY <1>1, <1>2, <1>3, <1>4 DEF PoolInv

\* What the search leaves of the collaboration and the graph.
SearchOnly == flows' = flows /\ seeds' = seeds /\ todoFlows' = todoFlows /\ bpmn' = bpmn

\* The flows decide the adjacency.
LEMMA AdjacencyStays == ASSUME flows' = flows PROVE Adjacency' = Adjacency
BY DEF Adjacency, Neighbours

\* While it colors, _color_pools leaves the types of the rest and the collaboration alone.
LEMMA SearchingKeepsRest ==
  ASSUME PoolInv, pc = "search", pc' \in {"search", "flows"}, SearchOnly,
         coloring' \in [Node -> Pool \cup {ProcessPool, None}]
  PROVE  PoolTypeOK' /\ HandoffInv'
<1>1. PoolTypeOK'
  BY DEF PoolInv, PoolTypeOK, SearchOnly
<1>2. todoFlows' = flows' /\ bpmn' = [sequence |-> {}, message |-> {}]
  BY DEF PoolInv, HandoffInv, SearchOnly
<1>3. HandoffInv'
  BY <1>2 DEF HandoffInv
<1>4. QED
  BY <1>1, <1>3

\* Taking a node from the queue (split_miner_socket.py:80) keeps the invariant.
LEMMA PoolTakes == ASSUME PoolInv, TakeNext PROVE PoolInv'
<1>1. /\ pc = "search" /\ pc' = "search" /\ SearchOnly /\ coloring' = coloring
      /\ todo = {} /\ queue # <<>> /\ current' = Head(queue) /\ queue' = Tail(queue)
      /\ todo' = Neighbours(Head(queue))
  BY DEF TakeNext, SearchOnly
<1>2. Search(Adjacency, seeds, coloring, queue, current, {})
  BY <1>1 DEF PoolInv
<1>3. Search(Adjacency, seeds, coloring, Tail(queue), Head(queue), Adjacency[Head(queue)])
  BY <1>1, <1>2, TakingKeepsSearch
<1>4. Adjacency[Head(queue)] = Neighbours(Head(queue))
  <2>1. Head(queue) \in Node
    BY <1>1, <1>2 DEF Search, SearchTypes
  <2>2. QED
    BY <2>1 DEF Adjacency
<1>5. Adjacency' = Adjacency /\ seeds' = seeds
  BY <1>1, AdjacencyStays DEF SearchOnly
<1>6. Search(Adjacency, seeds, coloring, queue, current, todo)'
  BY <1>1, <1>3, <1>4, <1>5
<1>7. PoolTypeOK' /\ HandoffInv'
  BY <1>1, SearchingKeepsRest DEF PoolInv, PoolTypeOK
<1>8. QED
  BY <1>1, <1>6, <1>7 DEF PoolInv

\* So does looking at one of its neighbours (split_miner_socket.py:81-86).
LEMMA PoolSees == ASSUME PoolInv, NEW n \in Node, SeeNeighbour(n) PROVE PoolInv'
<1>1. /\ pc = "search" /\ pc' = "search" /\ SearchOnly /\ current' = current
      /\ n \in todo /\ todo' = todo \ {n}
  BY DEF SeeNeighbour, SearchOnly
<1>2. Search(Adjacency, seeds, coloring, queue, current, todo)
  BY <1>1 DEF PoolInv
<1>3. Adjacency' = Adjacency /\ seeds' = seeds
  BY <1>1, AdjacencyStays DEF SearchOnly
<1>4. Colored = Given(coloring)
  BY DEF Colored, Given
<1>5. Search(Adjacency', seeds', coloring', queue', current', todo')
  <2>1. CASE n \in Colored
    <3>1. coloring' = coloring /\ queue' = queue
      BY <2>1 DEF SeeNeighbour
    <3>2. Search(Adjacency, seeds, coloring, queue, current, todo \ {n})
      BY <1>1, <1>2, <1>4, <2>1, PassingKeepsSearch
    <3>3. QED
      BY <1>1, <1>3, <3>1, <3>2
  <2>2. CASE n \notin Colored
    <3>1. coloring' = [coloring EXCEPT ![n] = coloring[current]] /\ queue' = Append(queue, n)
      BY <2>2 DEF SeeNeighbour
    <3>2. Search(Adjacency, seeds, [coloring EXCEPT ![n] = coloring[current]], Append(queue, n), current, todo \ {n})
      BY <1>1, <1>2, <1>4, <2>2, GivingKeepsSearch
    <3>3. QED
      BY <1>1, <1>3, <3>1, <3>2
  <2>3. QED
    BY <2>1, <2>2
<1>6. coloring' \in [Node -> Pool \cup {ProcessPool, None}]
  <2>1. coloring' \in [Node -> Pool \cup {None}]
    BY <1>5 DEF Search, SearchTypes
  <2>2. QED
    BY <2>1
<1>7. PoolTypeOK' /\ HandoffInv'
  BY <1>1, <1>6, SearchingKeepsRest
<1>8. QED
  BY <1>1, <1>5, <1>7 DEF PoolInv

\* The least of the pools in use, if there are any.
LEMMA FallbackIsLeast ==
  ASSUME NEW n \in Colored, UsedPools \subseteq Nat
  PROVE  Fallback \in UsedPools /\ \A y \in UsedPools : Fallback <= y
<1>1. UsedPools # {}
  BY DEF UsedPools
<1>2. \E x \in UsedPools : \A y \in UsedPools : x <= y
  BY <1>1, LeastElement
<1>3. QED
  BY <1>1, <1>2 DEF Fallback

\* The search over, what no seed reaches gets the least pool (split_miner_socket.py:88-94), and
\* what a seed reaches has its nearest one: every color is settled.
LEMMA PoolFallsBack == ASSUME PoolInv, FallBack PROVE PoolInv'
<1>1. /\ pc = "search" /\ pc' = "flows" /\ SearchOnly /\ todo = {} /\ queue = <<>>
      /\ coloring' = [n \in Node |-> IF n \in Colored THEN coloring[n] ELSE Fallback]
  BY DEF FallBack, SearchOnly
<1> DEFINE A == Adjacency
           s == seeds
           c == coloring'
<1>2. Search(A, s, coloring, queue, current, {})
  BY <1>1 DEF PoolInv
<1>3. Colored = Given(coloring) /\ Colored \subseteq Node
  BY DEF Colored, Given
<1>4. \A n \in Node : Reached(A, s, n) <=> n \in Colored
  <2>1. \A n \in Colored : Reached(A, s, n)
    BY <1>2, <1>3 DEF Search, PoolsGiven
  <2>2. ASSUME NEW n \in Node \ Colored, Reached(A, s, n) PROVE FALSE
    BY <1>1, <1>2, <1>3, <2>2, NextIsNearest
  <2>3. QED
    BY <2>1, <2>2
<1>5. \A n \in Colored : coloring[n] = s[Origin(A, s, n)] /\ coloring[n] \in Pool
  <2>1. \A n \in Colored : coloring[n] = s[Origin(A, s, n)]
    BY <1>2, <1>3 DEF Search, PoolsGiven
  <2>2. \A n \in Colored : coloring[n] \in Pool
    BY <1>2 DEF Search, SearchTypes, Colored
  <2>3. QED
    BY <2>1, <2>2
<1>6. UsedPools \subseteq Pool /\ UsedPools \subseteq Nat
  BY <1>5, PoolAssumption DEF UsedPools
<1>7. Fallback \in Pool \cup {ProcessPool} /\ Fallback \in Nat /\ Fallback # None
  <2>1. CASE Colored = {}
    <3>1. Fallback = ProcessPool
      BY <2>1 DEF Fallback, UsedPools
    <3>2. QED
      BY <3>1, PoolAssumption
  <2>2. CASE Colored # {}
    BY <2>2, <1>6, FallbackIsLeast, PoolAssumption
  <2>3. QED
    BY <2>1, <2>2
<1>8. ASSUME NEW n \in Node \ Colored, NEW m \in Node PROVE c[n] <= c[m]
  <2>1. c[n] = Fallback
    BY <1>1, <1>8
  <2>2. CASE m \in Colored
    <3>1. c[m] = coloring[m] /\ coloring[m] \in UsedPools
      BY <1>1, <2>2 DEF UsedPools
    <3>2. QED
      BY <2>1, <2>2, <3>1, <1>6, FallbackIsLeast
  <2>3. CASE m \notin Colored
    BY <2>1, <2>3, <1>1, <1>7
  <2>4. QED
    BY <2>2, <2>3
<1>9. c \in [Node -> Pool \cup {ProcessPool, None}] /\ \A n \in Node : c[n] # None
  <2>1. \A n \in Node : c[n] \in Pool \cup {ProcessPool} /\ c[n] # None
    BY <1>1, <1>5, <1>7, PoolAssumption
  <2>2. c = [n \in Node |-> c[n]]
    BY <1>1
  <2> HIDE DEF c
  <2>3. QED
    BY <2>1, <2>2
<1>10. Settled(A, s, c)
  <2>1. \A n \in Colored : c[n] = coloring[n]
    BY <1>1, <1>3
  <2>2. QED
    BY <2>1, <1>4, <1>5, <1>8, <1>9 DEF Settled
<1>11. Settled(Adjacency, seeds, coloring)'
  <2>1. Adjacency' = Adjacency /\ seeds' = seeds
    BY <1>1, AdjacencyStays DEF SearchOnly
  <2>2. QED
    BY <2>1, <1>10
<1>12. PoolTypeOK' /\ HandoffInv'
  BY <1>1, <1>9, SearchingKeepsRest
<1>13. QED
  BY <1>1, <1>11, <1>12 DEF PoolInv

\* Carrying a flow over within a pool, or as a message between two, keeps the invariant
\* (_apply_pools_to_bpmn).
LEMMA PoolCarries == ASSUME PoolInv, NEW f \in todoFlows, CarryOver(f) PROVE PoolInv'
<1>1. /\ pc = "flows" /\ pc' = "flows" /\ flows' = flows /\ seeds' = seeds /\ coloring' = coloring
      /\ todoFlows' = todoFlows \ {f}
  BY DEF CarryOver
<1>2. PoolTypeOK /\ HandoffInv /\ Settled(Adjacency, seeds, coloring)
  BY <1>1 DEF PoolInv
<1>3. f \in flows /\ f[1] \in Node /\ f[2] \in Node
  BY <1>2 DEF PoolTypeOK
<1> DEFINE a == Copy(f[1])
           b == Copy(f[2])
           new == IF coloring[f[1]] = coloring[f[2]] THEN {<<a, b>>} ELSE {<<a, Throw(f)>>, <<Catch(f), b>>}
           sent == IF coloring[f[1]] = coloring[f[2]] THEN {} ELSE {<<Throw(f), Catch(f)>>}
<1>4. bpmn' = [sequence |-> bpmn.sequence \cup new, message |-> bpmn.message \cup sent]
  BY <1>2 DEF CarryOver, PoolTypeOK
<1>5. /\ PoolOf(a) = coloring[f[1]] /\ PoolOf(b) = coloring[f[2]]
      /\ PoolOf(Throw(f)) = coloring[f[1]] /\ PoolOf(Catch(f)) = coloring[f[2]]
  BY DEF PoolOf, Copy, Throw, Catch
<1>6. a \in BpmnNode /\ b \in BpmnNode /\ Throw(f) \in BpmnNode /\ Catch(f) \in BpmnNode
  BY <1>3 DEF BpmnNode, Copy, Throw, Catch
<1>7. Throw(f) \in Handoff /\ Catch(f) \in Handoff
  BY <1>3 DEF Handoff
<1> HIDE DEF a, b
<1>8. PoolTypeOK'
  <2>1. new \subseteq BpmnFlow /\ sent \subseteq BpmnFlow
    BY <1>6 DEF BpmnFlow
  <2> HIDE DEF new, sent
  <2>2. bpmn' \in [sequence : SUBSET BpmnFlow, message : SUBSET BpmnFlow]
    BY <2>1, <1>2, <1>4 DEF PoolTypeOK
  <2>3. QED
    BY <2>2, <1>1, <1>2 DEF PoolTypeOK
<1>9. \A n : PoolOf(n)' = PoolOf(n)
  BY <1>1 DEF PoolOf
<1>10. Handoff' = Handoff
  BY <1>1 DEF Handoff
<1>11. \A e \in new : PoolOf(e[1]) = PoolOf(e[2])
  BY <1>5
<1>12. \A e \in sent : PoolOf(e[1]) # PoolOf(e[2]) /\ e[1] \in Handoff /\ e[2] \in Handoff
  BY <1>5, <1>7
<1>13. \/ <<a, b>> \in new
       \/ <<a, Throw(f)>> \in new /\ <<Catch(f), b>> \in new /\ <<Throw(f), Catch(f)>> \in sent
  <2>1. CASE coloring[f[1]] = coloring[f[2]]
    BY <2>1
  <2>2. CASE coloring[f[1]] # coloring[f[2]]
    <3>1. new = {<<a, Throw(f)>>, <<Catch(f), b>>} /\ sent = {<<Throw(f), Catch(f)>>}
      BY <2>2
    <3>2. QED
      BY <3>1
  <2>3. QED
    BY <2>1, <2>2
<1> HIDE DEF new, sent
<1>14. bpmn'.sequence = bpmn.sequence \cup new /\ bpmn'.message = bpmn.message \cup sent
  BY <1>4
<1>15. \A e \in flows' \ todoFlows' : Carried(e)'
  <2>1. Carried(f)'
    BY <1>13, <1>14 DEF Carried, a, b
  <2>2. \A e \in flows \ todoFlows : Carried(e)'
    <3>1. \A e \in flows \ todoFlows : Carried(e)
      BY <1>2 DEF HandoffInv
    <3>2. QED
      BY <3>1, <1>14 DEF Carried
  <2>3. QED
    BY <2>1, <2>2, <1>1
<1>16. \A e \in bpmn'.sequence : PoolOf(e[1])' = PoolOf(e[2])'
  BY <1>2, <1>9, <1>11, <1>14 DEF HandoffInv
<1>17. \A e \in bpmn'.message : PoolOf(e[1])' # PoolOf(e[2])' /\ e[1] \in Handoff' /\ e[2] \in Handoff'
  BY <1>2, <1>9, <1>10, <1>12, <1>14 DEF HandoffInv
<1>18. HandoffInv'
  BY <1>1, <1>15, <1>16, <1>17 DEF HandoffInv
<1>19. Settled(Adjacency, seeds, coloring)'
  BY <1>1, <1>2, AdjacencyStays
<1>20. QED
  BY <1>1, <1>8, <1>18, <1>19 DEF PoolInv

\* So does ending.
LEMMA PoolFinishes == ASSUME PoolInv, Finish PROVE PoolInv'
<1>1. /\ pc' = "done" /\ todoFlows = {}
      /\ flows' = flows /\ seeds' = seeds /\ coloring' = coloring /\ bpmn' = bpmn /\ todoFlows' = todoFlows
  BY DEF Finish
<1>2. PoolTypeOK'
  BY <1>1 DEF PoolInv, PoolTypeOK
<1>3. HandoffInv'
  BY <1>1 DEF PoolInv, HandoffInv, PoolOf, Handoff, Carried
<1>4. QED
  BY <1>1, <1>2, <1>3 DEF PoolInv

\* Every step keeps the invariant.
LEMMA PoolSteps == PoolInv /\ [Next]_vars => PoolInv'
<1> SUFFICES ASSUME PoolInv, [Next]_vars PROVE PoolInv'
  OBVIOUS
<1>1. CASE Next
  <2>1. CASE TakeNext
    BY <2>1, PoolTakes
  <2>2. CASE \E n \in Node : SeeNeighbour(n)
    BY <2>2, PoolSees
  <2>3. CASE FallBack
    BY <2>3, PoolFallsBack
  <2>4. CASE \E f \in todoFlows : CarryOver(f)
    BY <2>4, PoolCarries
  <2>5. CASE Finish
    BY <2>5, PoolFinishes
  <2>6. QED
    BY <1>1, <2>1, <2>2, <2>3, <2>4, <2>5 DEF Next
<1>2. CASE UNCHANGED vars
  <2>1. /\ flows' = flows /\ seeds' = seeds /\ coloring' = coloring /\ queue' = queue /\ current' = current
        /\ todo' = todo /\ todoFlows' = todoFlows /\ bpmn' = bpmn /\ pc' = pc
    BY <1>2 DEF vars
  <2>2. Adjacency' = Adjacency
    BY <2>1, AdjacencyStays
  <2>3. PoolTypeOK' /\ HandoffInv'
    BY <2>1 DEF PoolInv, PoolTypeOK, HandoffInv, PoolOf, Handoff, Carried
  <2>4. QED
    BY <2>1, <2>2, <2>3 DEF PoolInv
<1>3. QED
  BY <1>1, <1>2

\* The search is by hops and then by the id of the seed, the pools are those it gave, and the
\* collaboration has what was carried over: in every state of any run on any graph.
THEOREM PoolInvariant == PoolSpec => []PoolInv
BY PoolStarts, PoolSteps, PTL DEF PoolSpec

\* More hops find no fewer seeds.
LEMMA SeedsStay ==
  ASSUME NEW A \in Adjacencies, NEW s, NEW n \in Node, NEW k \in Nat, NEW d \in 0 .. k
  PROVE  Seeded(A, s, n, d) \subseteq Seeded(A, s, n, k)
<1> DEFINE T == {j \in Nat : Ball(A, n, d) \subseteq Ball(A, n, d + j)}
<1>1. 0 \in T
  BY BallGrows
<1>2. ASSUME NEW j \in Nat, j \in T PROVE j + 1 \in T
  <2>1. d + j \in Nat /\ d + (j + 1) = (d + j) + 1
    OBVIOUS
  <2>2. Ball(A, n, d + j) \subseteq Ball(A, n, (d + j) + 1)
    BY <2>1, BallGrows
  <2>3. QED
    BY <1>2, <2>1, <2>2
<1> HIDE DEF T
<1>3. k - d \in T
  BY <1>1, <1>2, Induction
<1>4. d + (k - d) = k
  OBVIOUS
<1>5. QED
  BY <1>3, <1>4 DEF T, Seeded

\* When _color_pools is done, every node has the pool of its nearest activity, of the one with
\* the smallest id if two are as near, on any graph and for any pools of the activities.
THEOREM PoolsAreNearest == PoolSpec => []NearestSeedWins
<1>1. ASSUME PoolInv PROVE NearestSeedWins
  <2> SUFFICES ASSUME pc = "flows", NEW n \in Node
               PROVE  IF SeedsWithin(n, K) = {} THEN coloring[n] = Fallback
                      ELSE \E k \in 0 .. K :
                             /\ k > 0 => SeedsWithin(n, k-1) = {}
                             /\ \E m \in SeedsWithin(n, k) :
                                  /\ \A o \in SeedsWithin(n, k) : m <= o
                                  /\ coloring[n] = seeds[m]
    BY DEF NearestSeedWins
  <2> DEFINE A == Adjacency
             s == seeds
  <2>1. A \in Adjacencies /\ Settled(A, s, coloring)
    BY <1>1, AdjacencyIsOne DEF PoolInv, PoolTypeOK
  <2>2. \A k \in Nat : SeedsWithin(n, k) = Seeded(A, s, n, k)
    BY <2>1, WithinIsBall DEF SeedsWithin, Seeded
  <2>3. CASE Reached(A, s, n)
    <3> DEFINE d == Hops(A, s, n)
               o == Origin(A, s, n)
    <3>1. d \in 0 .. K /\ o \in Node /\ IsNearest(A, s, n, d, o)
      BY <2>1, <2>3, HopsBounded, NearestExists
    <3>2. coloring[n] = s[o]
      BY <2>1, <2>3 DEF Settled
    <3> HIDE DEF d, o, A
    <3>3. K \in Nat /\ d \in Nat /\ o \in Seeded(A, s, n, d) /\ \A m \in Seeded(A, s, n, d) : o <= m
      BY <3>1, KAssumption DEF IsNearest
    <3>4. SeedsWithin(n, K) # {}
      <4>1. Seeded(A, s, n, d) \subseteq Seeded(A, s, n, K)
        BY <2>1, <3>1, <3>3, SeedsStay
      <4>2. QED
        BY <4>1, <3>3, <2>2
    <3>5. d > 0 => SeedsWithin(n, d-1) = {}
      <4>1. d > 0 => d - 1 \in Nat /\ d - 1 < d
        BY <3>3
      <4>2. QED
        BY <4>1, <3>1, <2>2 DEF IsNearest
    <3>6. SeedsWithin(n, d) = Seeded(A, s, n, d)
      BY <3>3, <2>2
    <3>7. QED
      BY <3>1, <3>2, <3>3, <3>4, <3>5, <3>6
  <2>4. CASE ~Reached(A, s, n)
    <3>1. SeedsWithin(n, K) = {}
      BY <2>2, <2>4, KAssumption DEF Reached
    <3>2. Colored = Node /\ UsedPools \subseteq Nat
      <4>1. Colored = Node
        BY <2>1 DEF Settled, Colored
      <4>2. \A m \in Node : coloring[m] \in Nat
        BY <1>1, <2>1, PoolAssumption DEF PoolInv, PoolTypeOK, Settled
      <4>3. QED
        BY <4>1, <4>2 DEF UsedPools
    <3>3. coloring[n] \in UsedPools /\ \A y \in UsedPools : coloring[n] <= y
      BY <2>1, <2>4, <3>2 DEF Settled, UsedPools
    <3>4. Fallback \in UsedPools /\ \A y \in UsedPools : Fallback <= y
      BY <3>2, FallbackIsLeast
    <3>5. coloring[n] <= Fallback /\ Fallback <= coloring[n] /\ coloring[n] \in Nat /\ Fallback \in Nat
      BY <3>2, <3>3, <3>4
    <3>6. coloring[n] = Fallback
      BY <3>5
    <3>7. QED
      BY <3>1, <3>6
  <2>5. QED
    BY <2>3, <2>4
<1>2. PoolInv => NearestSeedWins
  BY <1>1
<1>3. QED
  BY <1>2, PoolInvariant, PTL

\* In the collaboration of _apply_pools_to_bpmn sequence flows stay within a pool, message flows
\* join two of them at their events only, and none of the model's flows is lost.
THEOREM HandoffsBetweenPools == PoolSpec => []HandoffsAtPoolBoundaries
<1>1. PoolInv => HandoffsAtPoolBoundaries
  BY DEF PoolInv, HandoffInv, HandoffsAtPoolBoundaries
<1>2. QED
  BY <1>1, PoolInvariant, PTL

(***************************************************************************)
(* The search for imported files.                                          *)
(*                                                                         *)
(* What was found so far is importable, and imports nothing but that and   *)
(* the imports of the files that are new.  Without a circle of imports the *)
(* new files of a round import fewer and fewer files.                      *)
(***************************************************************************)
ImportsType == imports \in [{"program"} \cup File -> SUBSET File]

Fewer(f) == Cardinality(Closure(imports[f])) + rounds <= Cardinality(File)

SearchInv ==
  /\ ImportsType /\ rounds \in Nat
  /\ new_files \subseteq {"program"} \cup dependencies
  /\ dependencies \subseteq Importable
  /\ Imports({"program"} \cup dependencies) \subseteq dependencies \cup Imports(new_files)
  /\ ~Circular => \A f \in new_files : Fewer(f)

\* A closure has the given files and everything its files import, and is the least such set.
LEMMA ClosureIsClosed ==
  ASSUME ImportsType, NEW S \in SUBSET File
  PROVE  S \subseteq Closure(S) /\ Closure(S) \subseteq File /\ Imports(Closure(S)) \subseteq Closure(S)
<1>1. S \subseteq Closure(S) /\ Closure(S) \subseteq File
  BY DEF Closure
<1>2. ASSUME NEW f \in Closure(S), NEW g \in imports[f] PROVE g \in Closure(S)
  <2>1. f \in File /\ g \in File
    BY <1>1 DEF ImportsType
  <2>2. ASSUME NEW C \in SUBSET File, S \subseteq C, Imports(C) \subseteq C PROVE g \in C
    <3>1. f \in C
      BY <2>2 DEF Closure
    <3>2. QED
      BY <2>2, <3>1 DEF Imports
  <2>3. QED
    BY <2>1, <2>2 DEF Closure
<1>3. QED
  BY <1>1, <1>2 DEF Imports

LEMMA ClosureIsLeast ==
  ASSUME NEW S, NEW C \in SUBSET File, S \subseteq C, Imports(C) \subseteq C
  PROVE  Closure(S) \subseteq C
BY DEF Closure

\* The files found from an import are fewer than those found from the file that imports it,
\* unless the import is found from itself.
LEMMA ImportFindsFewer ==
  ASSUME ImportsType, NEW f \in {"program"} \cup File, NEW g \in imports[f], g \notin Closure(imports[g])
  PROVE  Cardinality(Closure(imports[g])) + 1 <= Cardinality(Closure(imports[f]))
<1>1. g \in File /\ imports[f] \in SUBSET File /\ imports[g] \in SUBSET File
  BY DEF ImportsType
<1>2. /\ imports[f] \subseteq Closure(imports[f]) /\ Closure(imports[f]) \subseteq File
      /\ Imports(Closure(imports[f])) \subseteq Closure(imports[f])
  BY <1>1, ClosureIsClosed
<1>3. imports[g] \subseteq Closure(imports[f])
  BY <1>2 DEF Imports
<1>4. Closure(imports[g]) \subseteq Closure(imports[f])
  BY <1>1, <1>2, <1>3, ClosureIsLeast
<1>5. IsFiniteSet(Closure(imports[f]))
  BY <1>2, AnalysisAssumption, FS_Subset
<1> DEFINE F == Closure(imports[f])
           G == Closure(imports[g])
<1>6. G \subseteq F /\ g \in F /\ g \notin G /\ IsFiniteSet(F)
  BY <1>2, <1>4, <1>5
<1> HIDE DEF F, G
<1>7. IsFiniteSet(G) /\ Cardinality(G) <= Cardinality(F) /\ Cardinality(F) # Cardinality(G)
  BY <1>6, FS_Subset
<1>8. Cardinality(G) \in Nat /\ Cardinality(F) \in Nat
  BY <1>6, <1>7, FS_CardinalityType
<1>9. Cardinality(G) + 1 <= Cardinality(F)
  BY <1>7, <1>8
<1>10. QED
  BY <1>9 DEF F, G

LEMMA ImportsStart == SearchInit => SearchInv
<1> SUFFICES ASSUME SearchInit PROVE SearchInv
  OBVIOUS
<1>1. ImportsType /\ rounds = 0 /\ new_files = {"program"} /\ dependencies = {}
  BY DEF SearchInit, ImportsType
<1>2. ASSUME NEW f \in new_files PROVE Fewer(f)
  <2>1. imports[f] \in SUBSET File
    BY <1>1, <1>2 DEF ImportsType
  <2>2. Closure(imports[f]) \in SUBSET File
    BY <1>1, <2>1, ClosureIsClosed
  <2>3. Cardinality(Closure(imports[f])) <= Cardinality(File) /\ IsFiniteSet(Closure(imports[f]))
    BY <2>2, AnalysisAssumption, FS_Subset
  <2>4. Cardinality(Closure(imports[f])) \in Nat
    BY <2>3, FS_CardinalityType
  <2>5. QED
    BY <1>1, <2>3, <2>4 DEF Fewer
<1>3. Imports({"program"} \cup dependencies) \subseteq dependencies \cup Imports(new_files)
  BY <1>1 DEF Imports
<1>4. QED
  BY <1>1, <1>2, <1>3 DEF SearchInv

\* Every round keeps the invariant.
LEMMA SearchRounds == ASSUME SearchInv, Round PROVE SearchInv'
<1>1. /\ ImportsType /\ rounds \in Nat /\ new_files \subseteq {"program"} \cup dependencies
      /\ dependencies \subseteq Importable
      /\ Imports({"program"} \cup dependencies) \subseteq dependencies \cup Imports(new_files)
  BY DEF SearchInv
<1>2. /\ new_files' = Imports(new_files) /\ dependencies' = dependencies \cup Imports(new_files)
      /\ rounds' = rounds + 1 /\ imports' = imports
  BY DEF Round, try_add
<1>3. /\ ImportsType' /\ Importable' = Importable /\ Circular' = Circular
  <2>1. imports' = imports
    BY <1>2
  <2>2. ImportsType' /\ Importable' = Importable
    BY <1>1, <2>1 DEF ImportsType, Importable, Closure, Imports
  <2>3. Circular' = Circular
    BY <2>1 DEF Circular, Importable, Closure, Imports
  <2>4. QED
    BY <2>2, <2>3
<1>4. imports["program"] \in SUBSET File
  BY <1>1 DEF ImportsType
<1>5. /\ imports["program"] \subseteq Importable /\ Importable \subseteq File
      /\ Imports(Importable) \subseteq Importable
  BY <1>1, <1>4, ClosureIsClosed DEF Importable
<1>6. Imports(new_files) \subseteq Importable
  BY <1>1, <1>5 DEF Imports
<1>7. Imports(new_files) \subseteq File
  BY <1>5, <1>6
<1>8. (Imports({"program"} \cup dependencies) \subseteq dependencies \cup Imports(new_files))'
  BY <1>1, <1>2 DEF Imports
<1>9. ASSUME ~Circular, NEW g \in new_files' PROVE Fewer(g)'
  <2>1. PICK f \in new_files : g \in imports[f]
    BY <1>2, <1>9 DEF Imports
  <2>2. g \in Importable /\ g \notin Closure(imports[g])
    BY <1>2, <1>6, <1>9 DEF Circular
  <2>3. f \in {"program"} \cup File /\ imports[g] \in SUBSET File /\ imports[f] \in SUBSET File
    BY <1>1, <1>5, <2>1, <2>2 DEF ImportsType
  <2>4. Cardinality(Closure(imports[g])) + 1 <= Cardinality(Closure(imports[f]))
    BY <1>1, <2>1, <2>2, <2>3, ImportFindsFewer
  <2>5. Cardinality(Closure(imports[f])) + rounds <= Cardinality(File)
    BY <1>9, <2>1 DEF SearchInv, Fewer
  <2>6. Closure(imports[g]) \in SUBSET File /\ Closure(imports[f]) \in SUBSET File
    BY <1>1, <2>3, ClosureIsClosed
  <2>7. /\ Cardinality(Closure(imports[g])) \in Nat /\ Cardinality(Closure(imports[f])) \in Nat
        /\ Cardinality(File) \in Nat
    BY <2>6, AnalysisAssumption, FS_Subset, FS_CardinalityType
  <2>8. Cardinality(Closure(imports[g])) + (rounds + 1) <= Cardinality(File)
    BY <1>1, <2>4, <2>5, <2>7
  <2>9. (Closure(imports[g]))' = Closure(imports[g])
    BY <1>2 DEF Closure, Imports
  <2>10. QED
    BY <1>2, <2>8, <2>9 DEF Fewer
<1>10. QED
  BY <1>1, <1>2, <1>3, <1>6, <1>8, <1>9 DEF SearchInv

\* The files that the search finds are importable, and without a circle of imports each round
\* has fewer files below it: in every state of any search.
THEOREM SearchInvariant == SearchSpec => []SearchInv
<1>1. SearchInv /\ [Round]_searchVars => SearchInv'
  <2>1. SearchInv /\ UNCHANGED searchVars => SearchInv'
    BY DEF searchVars, SearchInv, ImportsType, Importable, Circular, Closure, Imports, Fewer
  <2>2. QED
    BY <2>1, SearchRounds
<1>2. QED
  BY <1>1, ImportsStart, PTL DEF SearchSpec

\* get_dependencies_for_program ends with exactly the files a program imports, directly or not,
\* and only a circle of imports keeps it going longer, for any files and imports.
THEOREM SearchFindsDependencies == SearchSpec => []DependenciesAreComplete
<1>1. ASSUME SearchInv PROVE DependenciesAreComplete
  <2>1. ImportsType /\ rounds \in Nat /\ dependencies \subseteq Importable
    BY <1>1 DEF SearchInv
  <2>2. imports["program"] \in SUBSET File
    BY <2>1 DEF ImportsType
  <2>3. Importable \subseteq File
    BY <2>1, <2>2, ClosureIsClosed DEF Importable
  <2>4. ASSUME new_files = {} PROVE dependencies = Importable
    <3>1. imports["program"] \subseteq dependencies /\ Imports(dependencies) \subseteq dependencies
      BY <1>1, <2>4 DEF SearchInv, Imports
    <3>2. Importable \subseteq dependencies
      BY <2>1, <2>3, <3>1, ClosureIsLeast DEF Importable
    <3>3. QED
      BY <2>1, <3>2
  <2>5. ASSUME rounds > Cardinality(File), new_files # {} PROVE Circular
    <3>1. SUFFICES ASSUME ~Circular PROVE FALSE
      OBVIOUS
    <3>2. PICK f \in new_files : Cardinality(Closure(imports[f])) + rounds <= Cardinality(File)
      BY <1>1, <2>5, <3>1 DEF SearchInv, Fewer
    <3>3. f \in {"program"} \cup File
      BY <1>1, <2>3 DEF SearchInv
    <3>4. imports[f] \in SUBSET File
      BY <2>1, <3>3 DEF ImportsType
    <3>5. Closure(imports[f]) \in SUBSET File
      BY <2>1, <3>4, ClosureIsClosed
    <3>6. Cardinality(Closure(imports[f])) \in Nat /\ Cardinality(File) \in Nat
      BY <3>5, AnalysisAssumption, FS_Subset, FS_CardinalityType
    <3>7. QED
      BY <2>1, <2>5, <3>2, <3>6
  <2>6. QED
    BY <2>4, <2>5 DEF DependenciesAreComplete
<1>2. SearchInv => DependenciesAreComplete
  BY <1>1
<1>3. QED
  BY <1>2, SearchInvariant, PTL

(***************************************************************************)
(* The numbers of named timers.                                            *)
(***************************************************************************)
\* What NamedTimersAreFresh says of timers t of lines ls.
FreshNumbers(ls, t) ==
  /\ \A n \in DOMAIN t.substitution :
       /\ t.substitution[n] \notin Used(ls)
       /\ \A m \in DOMAIN t.substitution \ {n} : t.substitution[m] # t.substitution[n]
       /\ t.names[t.substitution[n]] = Label(ls, n)
  /\ DOMAIN t.substitution = {n \in Name : \E i \in DOMAIN ls : ls[i].kind = "start" /\ ls[i].timer = n}
  /\ \A k \in Used(ls) : k \in DOMAIN t.names => t.names[k] = Label(ls, k)

TimerInv == lines \in UNION {[1 .. k -> Line] : k \in 0 .. MaxLines} /\ NamedTimersAreFresh

\* A bounded set of naturals has a greatest element.
LEMMA BoundedHasGreatest ==
  ASSUME NEW S, S # {}, NEW b \in Nat, S \subseteq 0 .. b
  PROVE  Sets!Max(S) \in S /\ \A x \in S : x <= Sets!Max(S)
<1> DEFINE T == {x + 1 : x \in S}
<1>1. T \subseteq 1 .. b + 1 /\ T # {}
  <2>1. \A x \in S : x \in 0 .. b
    OBVIOUS
  <2>2. \A x \in S : x + 1 \in 1 .. b + 1
    BY <2>1
  <2>3. QED
    BY <2>2
<1>2. PICK t \in T : \A y \in T : y <= t
  <2> HIDE DEF T
  <2>1. b + 1 \in Nat
    OBVIOUS
  <2>2. QED
    BY <1>1, <2>1, GreatestElement
<1>3. PICK m \in S : t = m + 1
  OBVIOUS
<1>4. ASSUME NEW x \in S PROVE m >= x
  <2>1. x + 1 <= m + 1 /\ x \in 0 .. b /\ m \in 0 .. b
    BY <1>2, <1>3
  <2>2. QED
    BY <2>1
<1>5. Sets!Max(S) \in S /\ \A x \in S : Sets!Max(S) >= x
  BY <1>4 DEF Sets!Max
<1>6. \A x \in S : x \in 0 .. b
  OBVIOUS
<1>7. QED
  BY <1>5, <1>6

\* A list of numbers has a bound.
LEMMA NumbersAreBounded ==
  ASSUME NEW k \in Nat, NEW f, \A i \in 1 .. k : f[i] \in Nat
  PROVE  \E b \in Nat : \A i \in 1 .. k : f[i] <= b
<1> DEFINE Below(j) == \E b \in Nat : \A i \in 1 .. k : i <= j => f[i] <= b
           S == {j \in Nat : Below(j)}
<1>1. 0 \in S
  <2>1. \A i \in 1 .. k : ~(i <= 0)
    OBVIOUS
  <2>2. QED
    BY <2>1
<1>2. ASSUME NEW j \in Nat, j \in S PROVE j + 1 \in S
  <2>1. PICK b \in Nat : \A i \in 1 .. k : i <= j => f[i] <= b
    BY <1>2
  <2>2. CASE j + 1 \in 1 .. k
    <3>1. f[j+1] \in Nat
      BY <2>2
    <3>2. b + f[j+1] \in Nat
      BY <3>1
    <3>3. ASSUME NEW i \in 1 .. k, i <= j + 1 PROVE f[i] <= b + f[j+1]
      <4>1. i <= j \/ i = j + 1
        BY <3>3
      <4>2. f[i] \in Nat
        OBVIOUS
      <4>3. QED
        BY <2>1, <3>1, <4>1, <4>2
    <3>4. QED
      BY <3>2, <3>3
  <2>3. CASE j + 1 \notin 1 .. k
    <3>1. ASSUME NEW i \in 1 .. k, i <= j + 1 PROVE f[i] <= b
      <4>1. i <= j
        BY <2>3, <3>1
      <4>2. QED
        BY <2>1, <4>1
    <3>2. j + 1 \in Nat /\ b \in Nat
      OBVIOUS
    <3>3. QED
      BY <3>1, <3>2
  <2>4. QED
    BY <2>2, <2>3
<1>3. k \in S
  <2> HIDE DEF S
  <2>1. QED
    BY <1>1, <1>2, Induction
<1>4. QED
  BY <1>3

\* Named timers are counted from above all numbers that the program uses.
LEMMA AutoStartIsAbove ==
  ASSUME NEW k \in Nat, NEW ls \in [1 .. k -> Line]
  PROVE  auto_start(ls) \in Nat /\ \A u \in Used(ls) : u \in Nat /\ u < auto_start(ls)
<1>1. CASE Used(ls) = {}
  BY <1>1 DEF auto_start
<1>2. CASE Used(ls) # {}
  <2> DEFINE f == [i \in 1 .. k |-> IF ls[i].timer \in Number THEN ls[i].timer ELSE 0]
  <2>1. \A i \in 1 .. k : f[i] \in Nat
    BY AnalysisAssumption
  <2>2. PICK b \in Nat : \A i \in 1 .. k : f[i] <= b
    <3> HIDE DEF f
    <3>1. QED
      BY <2>1, NumbersAreBounded
  <2>3. ASSUME NEW u \in Used(ls) PROVE u \in 0 .. b
    <3>1. PICK i \in 1 .. k : u = ls[i].timer /\ ls[i].timer \in Number
      BY DEF Used
    <3>2. f[i] = u /\ f[i] \in Nat /\ f[i] <= b
      BY <2>1, <2>2, <3>1
    <3>3. QED
      BY <3>2
  <2> HIDE DEF f
  <2> DEFINE m == Sets!Max(Used(ls))
  <2>4. Used(ls) \subseteq 0 .. b
    BY <2>3
  <2>5. m \in Used(ls) /\ \A u \in Used(ls) : u <= m
    BY <1>2, <2>4, BoundedHasGreatest
  <2>6. auto_start(ls) = m + 1
    BY <1>2 DEF auto_start
  <2> HIDE DEF m
  <2>7. m \in Nat /\ \A u \in Used(ls) : u \in Nat
    BY <2>4, <2>5
  <2>8. QED
    BY <2>5, <2>6, <2>7
<1>3. QED
  BY <1>1, <1>2

\* Starts of named timers have numbers of their own, from the first on.
LEMMA NumbersDiffer ==
  ASSUME NEW k \in Nat, NEW ls \in [1 .. k -> Line]
  PROVE  /\ \A i \in Autotimers(ls) : number(ls, i) \in Nat /\ number(ls, i) >= auto_start(ls)
         /\ \A i, j \in Autotimers(ls) : number(ls, i) = number(ls, j) => i = j
<1> DEFINE A == Autotimers(ls)
           Earlier(i) == {j \in A : j < i}
<1>1. A \subseteq 1 .. k /\ IsFiniteSet(1 .. k)
  BY FS_Interval DEF Autotimers
<1>2. \A i \in 1 .. k : IsFiniteSet(Earlier(i)) /\ Cardinality(Earlier(i)) \in Nat
  <2>1. \A i \in 1 .. k : Earlier(i) \in SUBSET (1 .. k)
    BY <1>1
  <2>2. QED
    BY <1>1, <2>1, FS_Subset, FS_CardinalityType
<1>3. auto_start(ls) \in Nat
  BY AutoStartIsAbove
<1>4. \A i \in A : number(ls, i) = auto_start(ls) + Cardinality(Earlier(i))
  BY DEF number
<1>5. ASSUME NEW i \in A, NEW j \in A, i < j PROVE number(ls, i) # number(ls, j)
  <2>1. i \in 1 .. k /\ j \in 1 .. k
    BY <1>1
  <2>2. Earlier(i) \subseteq Earlier(j)
    <3>1. ASSUME NEW x \in A, x < i PROVE x < j
      <4>1. x \in 1 .. k
        BY <1>1
      <4>2. QED
        BY <1>5, <2>1, <3>1, <4>1
    <3>2. QED
      BY <3>1
  <2>3. i \in Earlier(j) /\ i \notin Earlier(i)
    BY <1>5, <2>1
  <2>4. IsFiniteSet(Earlier(j)) /\ Cardinality(Earlier(i)) \in Nat /\ Cardinality(Earlier(j)) \in Nat
    BY <1>2, <2>1
  <2> DEFINE F == Earlier(j)
             G == Earlier(i)
  <2> HIDE DEF F, G
  <2>5. G \subseteq F /\ i \in F /\ i \notin G /\ IsFiniteSet(F)
    BY <2>2, <2>3, <2>4 DEF F, G
  <2>6. Cardinality(F) # Cardinality(G)
    BY <2>5, FS_Subset
  <2>7. QED
    BY <1>3, <1>4, <2>4, <2>6 DEF F, G
<1>6. ASSUME NEW i \in A, NEW j \in A, number(ls, i) = number(ls, j) PROVE i = j
  <2>1. i \in 1 .. k /\ j \in 1 .. k
    BY <1>1
  <2>2. ~(i < j) /\ ~(j < i)
    BY <1>5, <1>6
  <2>3. QED
    BY <2>1, <2>2
<1>7. ASSUME NEW i \in A PROVE number(ls, i) \in Nat /\ number(ls, i) >= auto_start(ls)
  <2>1. i \in 1 .. k
    BY <1>1
  <2> DEFINE c == Cardinality(Earlier(i))
  <2>2. c \in Nat /\ number(ls, i) = auto_start(ls) + c
    BY <1>2, <1>4, <2>1
  <2> HIDE DEF c
  <2>3. QED
    BY <1>3, <2>2
<1>8. QED
  BY <1>6, <1>7

\* Determining the timers gives them numbers as the property says.
LEMMA TimersDetermined == ASSUME TimerInv, determine_program_timers PROVE TimerInv'
<1>1. PICK k \in 0 .. MaxLines : lines \in [1 .. k -> Line]
  BY DEF TimerInv
<1>2. k \in Nat /\ lines' = lines
  BY <1>1, AnalysisAssumption DEF determine_program_timers
<1> DEFINE A == Autotimers(lines)
           num(i) == number(lines, i)
           last(n) == Sets!Max({i \in A : lines[i].timer = n})
           L == {lines[i].timer : i \in {i \in DOMAIN lines : lines[i].kind = "label" /\ lines[i].timer \in Number}}
           N == {lines[i].timer : i \in A}
           D == L \cup {num(i) : i \in A}
           named(c) == IF \E i \in A : num(i) = c THEN lines[CHOOSE i \in A : num(i) = c].timer ELSE c
           sub == timers'.substitution
           names == timers'.names
<1>3. sub = [n \in N |-> num(last(n))] /\ names = [c \in D |-> Label(lines, named(c))]
  BY DEF determine_program_timers
<1>4. /\ \A i \in A : num(i) \in Nat /\ num(i) >= auto_start(lines)
      /\ \A i, j \in A : num(i) = num(j) => i = j
  BY <1>1, <1>2, NumbersDiffer
<1>5. auto_start(lines) \in Nat /\ \A u \in Used(lines) : u \in Nat /\ u < auto_start(lines)
  BY <1>1, <1>2, AutoStartIsAbove
<1>6. A \subseteq 1 .. k
  BY <1>1 DEF Autotimers
<1>7. ASSUME NEW n \in N PROVE last(n) \in A /\ lines[last(n)].timer = n
  <2> DEFINE S == {i \in A : lines[i].timer = n}
  <2>1. S # {} /\ S \subseteq 0 .. k
    BY <1>6
  <2>2. Sets!Max(S) \in S
    <3> HIDE DEF S
    <3>1. QED
      BY <1>2, <2>1, BoundedHasGreatest
  <2>3. QED
    BY <2>2
<1>8. \A u \in Used(lines) : \A i \in A : num(i) # u
  <2>1. ASSUME NEW u \in Used(lines), NEW i \in A, num(i) = u PROVE FALSE
    BY <1>4, <1>5, <2>1
  <2>2. QED
    BY <2>1
<1>9. \A i \in A : named(num(i)) = lines[i].timer
  BY <1>4
<1> HIDE DEF A, num, last, L, named
<1>10. ASSUME NEW n \in N
       PROVE  /\ sub[n] \notin Used(lines)
              /\ \A m \in N \ {n} : sub[m] # sub[n]
              /\ names[sub[n]] = Label(lines, n)
  <2>1. sub[n] = num(last(n)) /\ last(n) \in A /\ lines[last(n)].timer = n
    BY <1>3, <1>7
  <2>2. sub[n] \notin Used(lines)
    BY <1>8, <2>1
  <2>3. ASSUME NEW m \in N \ {n}, sub[m] = sub[n] PROVE FALSE
    <3>1. sub[m] = num(last(m)) /\ last(m) \in A /\ lines[last(m)].timer = m
      BY <1>3, <1>7
    <3>2. QED
      BY <1>4, <2>1, <2>3, <3>1
  <2>4. sub[n] \in D /\ named(sub[n]) = n
    BY <1>9, <2>1
  <2>5. names[sub[n]] = Label(lines, n)
    BY <1>3, <2>4
  <2>6. QED
    BY <2>2, <2>3, <2>5
<1>11. DOMAIN sub = N /\ DOMAIN names = D
  BY <1>3
<1>12. N = {n \in Name : \E i \in DOMAIN lines : lines[i].kind = "start" /\ lines[i].timer = n}
  BY DEF A, Autotimers
<1>13. ASSUME NEW c \in Used(lines), c \in D PROVE names[c] = Label(lines, c)
  <2>1. named(c) = c
    BY <1>8 DEF named
  <2>2. QED
    BY <1>3, <1>13, <2>1
<1>14. FreshNumbers(lines, timers')
  <2> DEFINE t == timers'
  <2>1. t.substitution = sub /\ t.names = names
    OBVIOUS
  <2> HIDE DEF sub, names, N, D, t
  <2>2. QED
    BY <2>1, <1>10, <1>11, <1>12, <1>13 DEF FreshNumbers, t
<1>15. NamedTimersAreFresh' = (timers' # None => FreshNumbers(lines', timers'))
  BY DEF NamedTimersAreFresh, FreshNumbers, Used, Label
<1>16. QED
  BY <1>1, <1>2, <1>14, <1>15 DEF TimerInv

\* determine_program_timers gives every named timer a number of its own that the program uses
\* nowhere else, and shows it under its label, for any program and however timers repeat.
THEOREM TimersAreFresh == TimerSpec => []NamedTimersAreFresh
<1>1. TimerInit => TimerInv
  BY DEF TimerInit, TimerInv, NamedTimersAreFresh
<1>2. TimerInv /\ [determine_program_timers]_timerVars => TimerInv'
  <2>1. TimerInv /\ UNCHANGED timerVars => TimerInv'
    BY DEF timerVars, TimerInv, NamedTimersAreFresh, Used, Label
  <2>2. QED
    BY <2>1, TimersDetermined
<1>3. TimerInv => NamedTimersAreFresh
  BY DEF TimerInv
<1>4. QED
  BY <1>1, <1>2, <1>3, PTL DEF TimerSpec

(***************************************************************************)
(* The laps of a report.                                                   *)
(*                                                                         *)
(* Every form of them is one of three: the laps as measured, those without *)
(* the length of the first one, and the compressed ones, which are the     *)
(* same for both.                                                          *)
(***************************************************************************)
Shortened(m) == [i \in DOMAIN m |-> IF i = 1 THEN [m[1] EXCEPT !.start = m[1].stop] ELSE m[i]]
ShortTable(data) == [t \in DOMAIN data |-> Shortened(data[t])]

\* The last lap of a timer ends at its present reading.
EndsAt(laps, reading) == Len(laps) > 0 => laps[Len(laps)].stop = reading

TimersInv ==
  /\ elapsed \in [Timer -> Reading] /\ (has_cpu => \A t \in Timer : elapsed[t].cpu \in Nat)
  /\ started \in [Timer -> Reading \cup {None}] /\ \A t \in Timer : started[t] \in {None, elapsed[t]}
  /\ measured \in LapTable /\ IsFiniteSet(ParsedLaps)
  /\ \A t \in DOMAIN measured : Contiguous(measured[t]) /\ EndsAt(measured[t], elapsed[t])

ReportInv ==
  /\ report \in LapReport
  /\ report.decoded \in {None, measured, ShortTable(measured)}
  /\ report.compressed \in {None, compress_timer_lap_data(measured)}
  /\ report.decoded # None \/ report.compressed # None

LapInv == TimersInv /\ (report = None \/ ReportInv)

\* The domain of laps and their parts.
LEMMA LapsAreTyped ==
  ASSUME NEW m \in Seq(Lap)
  PROVE  /\ Len(m) \in Nat /\ DOMAIN m = 1 .. Len(m)
         /\ \A i \in 1 .. Len(m) : m[i] \in Lap
OBVIOUS

\* Laps without the length of the first have the type of laps, agree with them and fit together.
LEMMA ShortenedFits ==
  ASSUME NEW m \in Seq(Lap), Contiguous(m)
  PROVE  Shortened(m) \in Seq(Lap) /\ Agree(Shortened(m), m) /\ Contiguous(Shortened(m))
<1> DEFINE n == Len(m)
           s == Shortened(m)
<1>1. n \in Nat /\ DOMAIN m = 1 .. n /\ \A i \in 1 .. n : m[i] \in Lap
  BY LapsAreTyped
<1>2. s = [i \in 1 .. n |-> IF i = 1 THEN [m[1] EXCEPT !.start = m[1].stop] ELSE m[i]]
  BY <1>1 DEF Shortened
<1> HIDE DEF n, s
<1>3. ASSUME NEW i \in 1 .. n PROVE s[i] \in Lap /\ s[i].stop = m[i].stop /\ s[i].idle = m[i].idle
  <2>1. m[i] \in Lap
    BY <1>1
  <2>2. CASE i = 1
    <3>1. s[i] = [m[i] EXCEPT !.start = m[i].stop]
      BY <1>2, <2>2
    <3>2. QED
      BY <2>1, <3>1 DEF Lap
  <2>3. CASE i # 1
    <3>1. s[i] = m[i]
      BY <1>2, <2>3
    <3>2. QED
      BY <2>1, <3>1
  <2>4. QED
    BY <2>2, <2>3
<1>4. s \in [1 .. n -> Lap]
  BY <1>2, <1>3
<1>5. s \in Seq(Lap) /\ Len(s) = n
  BY <1>1, <1>4
<1>6. Agree(s, m)
  <2>1. \A i \in 1 .. n : s[i] = m[i] \/ (i = 1 /\ s[1] = [m[1] EXCEPT !.start = m[1].stop])
    BY <1>2
  <2>2. QED
    BY <1>1, <1>5, <2>1 DEF Agree, n
<1>7. Contiguous(s)
  <2>1. ASSUME NEW i \in 1 .. n - 1 PROVE s[i+1].start = s[i].stop
    <3>1. i \in 1 .. n /\ i + 1 \in 1 .. n /\ i + 1 # 1
      BY <1>1
    <3>2. s[i+1] = m[i+1] /\ s[i].stop = m[i].stop
      BY <1>2, <1>3, <3>1
    <3>3. m[i+1].start = m[i].stop
      BY <2>1 DEF Contiguous, n
    <3>4. QED
      BY <3>2, <3>3
  <2>2. QED
    BY <1>5, <2>1 DEF Contiguous
<1>8. QED
  BY <1>5, <1>6, <1>7 DEF s

\* Compressed laps are entries, the same ones with and without the length of the first lap.
LEMMA CompressedLaps ==
  ASSUME NEW m \in Seq(Lap)
  PROVE  compress_laps(m) \in Seq(Entry) /\ compress_laps(Shortened(m)) = compress_laps(m)
<1> DEFINE n == Len(m)
           s == Shortened(m)
           e == compress_laps(m)
           From(l, i) == IF i = 1 THEN [rounds |-> 0, data |-> 0] ELSE l[i-1].stop
           EntryOf(l, i) == [time |-> l[i].stop.time, rounds |-> l[i].stop.rounds - From(l, i).rounds,
                        data |-> l[i].stop.data - From(l, i).data, cpu |-> l[i].stop.cpu, idle |-> l[i].idle]
<1>1. n \in Nat /\ DOMAIN m = 1 .. n /\ \A i \in 1 .. n : m[i] \in Lap
  BY LapsAreTyped
<1>2. s = [i \in 1 .. n |-> IF i = 1 THEN [m[1] EXCEPT !.start = m[1].stop] ELSE m[i]]
  BY <1>1 DEF Shortened
<1>3. e = [i \in 1 .. n |-> EntryOf(m, i)] /\ compress_laps(s) = [i \in 1 .. n |-> EntryOf(s, i)]
  BY <1>1, <1>2 DEF compress_laps
<1> HIDE DEF n, s, e
<1>4. ASSUME NEW i \in 1 .. n PROVE s[i].stop = m[i].stop /\ s[i].idle = m[i].idle
  <2>1. m[i] \in Lap
    BY <1>1
  <2>2. CASE i = 1
    <3>1. s[i] = [m[i] EXCEPT !.start = m[i].stop]
      BY <1>2, <2>2
    <3>2. QED
      BY <2>1, <3>1 DEF Lap
  <2>3. CASE i # 1
    BY <1>2, <2>3
  <2>4. QED
    BY <2>2, <2>3
<1>5. ASSUME NEW i \in 1 .. n
      PROVE  From(s, i) = From(m, i) /\ From(m, i).rounds \in Int /\ From(m, i).data \in Int
  <2>1. CASE i = 1
    BY <2>1
  <2>2. CASE i # 1
    <3>1. i - 1 \in 1 .. n
      BY <1>1, <2>2
    <3>2. s[i-1].stop = m[i-1].stop /\ m[i-1] \in Lap
      BY <1>1, <1>4, <3>1
    <3>3. m[i-1].stop.rounds \in Nat /\ m[i-1].stop.data \in Nat
      BY <3>2 DEF Lap, Reading
    <3>4. QED
      BY <2>2, <3>2, <3>3
  <2>3. QED
    BY <2>1, <2>2
<1>6. ASSUME NEW i \in 1 .. n PROVE EntryOf(s, i) = EntryOf(m, i) /\ EntryOf(m, i) \in Entry
  <2>1. EntryOf(s, i) = EntryOf(m, i)
    BY <1>4, <1>5
  <2>2. m[i].stop \in Reading /\ m[i].idle \in Nat
    BY <1>1 DEF Lap
  <2> DEFINE f == From(m, i)
             p == m[i].stop
  <2>3. f.rounds \in Int /\ f.data \in Int
    BY <1>5
  <2>4. EntryOf(m, i) = [time |-> p.time, rounds |-> p.rounds - f.rounds, data |-> p.data - f.data,
                    cpu |-> p.cpu, idle |-> m[i].idle]
    OBVIOUS
  <2>5. p \in Reading
    BY <2>2
  <2> HIDE DEF f, p, From, EntryOf
  <2>6. p.time \in Nat /\ p.rounds \in Nat /\ p.data \in Nat /\ p.cpu \in Nat \cup {None}
    BY <2>5 DEF Reading
  <2>7. p.rounds - f.rounds \in Int /\ p.data - f.data \in Int
    BY <2>3, <2>6
  <2>8. EntryOf(m, i) \in Entry
    BY <2>2, <2>4, <2>6, <2>7 DEF Entry
  <2>9. QED
    BY <2>1, <2>8
<1> HIDE DEF EntryOf
<1>7. e \in [1 .. n -> Entry] /\ compress_laps(s) = e
  BY <1>3, <1>6
<1>8. QED
  BY <1>1, <1>7 DEF e, s

\* The sums of the differences are the readings at which the laps stop.
LEMMA TotalsOfCompressed ==
  ASSUME NEW m \in Seq(Lap), NEW i \in 1 .. Len(m)
  PROVE  Totals(compress_laps(m))[i] = [rounds |-> m[i].stop.rounds, data |-> m[i].stop.data]
<1> DEFINE n == Len(m)
           e == compress_laps(m)
           zero == [rounds |-> 0, data |-> 0]
           stop(j) == IF j = 0 THEN zero ELSE [rounds |-> m[j].stop.rounds, data |-> m[j].stop.data]
           Summed(g) == [j \in 0 .. Len(e) |->
                         IF j = 0 THEN zero
                         ELSE [rounds |-> g[j-1].rounds + e[j].rounds, data |-> g[j-1].data + e[j].data]]
           g0 == [j \in 0 .. n |-> stop(j)]
           T == Totals(e)
<1>1. n \in Nat /\ DOMAIN m = 1 .. n /\ \A j \in 1 .. n : m[j] \in Lap
  BY LapsAreTyped
<1>2. e \in Seq(Entry) /\ DOMAIN e = 1 .. n
  BY <1>1, CompressedLaps DEF compress_laps
<1>3. Len(e) = n
  <2>1. DOMAIN e = 1 .. Len(e) /\ Len(e) \in Nat
    BY <1>2
  <2> HIDE DEF e, n
  <2>2. QED
    BY <1>1, <1>2, <2>1
<1>4. T = CHOOSE g : g = Summed(g)
  BY DEF Totals
<1>5. ASSUME NEW j \in 1 .. n
      PROVE  /\ m[j].stop.rounds \in Nat /\ m[j].stop.data \in Nat
             /\ stop(j-1).rounds \in Int /\ stop(j-1).data \in Int
             /\ e[j].rounds = m[j].stop.rounds - stop(j-1).rounds
             /\ e[j].data = m[j].stop.data - stop(j-1).data
  <2>1. m[j].stop.rounds \in Nat /\ m[j].stop.data \in Nat
    BY <1>1 DEF Lap, Reading
  <2>2. CASE j = 1
    <3>1. stop(j-1) = zero
      BY <2>2
    <3>2. e[j].rounds = m[j].stop.rounds - 0 /\ e[j].data = m[j].stop.data - 0
      BY <1>1, <2>2 DEF compress_laps
    <3>3. QED
      BY <2>1, <3>1, <3>2
  <2>3. CASE j # 1
    <3>1. j - 1 \in 1 .. n /\ j - 1 # 0
      BY <1>1, <2>3
    <3>2. stop(j-1) = [rounds |-> m[j-1].stop.rounds, data |-> m[j-1].stop.data]
      BY <3>1
    <3>3. m[j-1].stop.rounds \in Nat /\ m[j-1].stop.data \in Nat
      BY <1>1, <3>1 DEF Lap, Reading
    <3>4. e[j].rounds = m[j].stop.rounds - m[j-1].stop.rounds /\ e[j].data = m[j].stop.data - m[j-1].stop.data
      BY <1>1, <2>3 DEF compress_laps
    <3>5. stop(j-1).rounds = m[j-1].stop.rounds /\ stop(j-1).data = m[j-1].stop.data
      BY <3>2
    <3> HIDE DEF stop, e
    <3>6. QED
      BY <2>1, <3>3, <3>4, <3>5
  <2>4. QED
    BY <2>2, <2>3
<1>6. \A j \in 1 .. n : stop(j) = [rounds |-> m[j].stop.rounds, data |-> m[j].stop.data]
  OBVIOUS
<1>7. stop(0) = zero
  OBVIOUS
<1> HIDE DEF n, e, stop
<1>8. ASSUME NEW j \in 1 .. n
      PROVE  stop(j) = [rounds |-> stop(j-1).rounds + e[j].rounds, data |-> stop(j-1).data + e[j].data]
  <2> DEFINE a == m[j].stop.rounds
             b == m[j].stop.data
             c == stop(j-1).rounds
             d == stop(j-1).data
  <2>1. /\ a \in Nat /\ b \in Nat /\ c \in Int /\ d \in Int
        /\ e[j].rounds = a - c /\ e[j].data = b - d /\ stop(j) = [rounds |-> a, data |-> b]
    BY <1>5, <1>6
  <2> HIDE DEF a, b, c, d
  <2>2. c + (a - c) = a /\ d + (b - d) = b
    BY <2>1
  <2>3. c + e[j].rounds = a /\ d + e[j].data = b
    BY <2>1, <2>2
  <2>4. QED
    BY <2>1, <2>3 DEF c, d
<1>9. g0 = Summed(g0)
  <2>1. ASSUME NEW j \in 0 .. n, j # 0 PROVE j \in 1 .. n /\ j - 1 \in 0 .. n
    BY <1>1, <2>1
  <2>2. ASSUME NEW j \in 0 .. n
        PROVE  g0[j] = IF j = 0 THEN zero
                       ELSE [rounds |-> g0[j-1].rounds + e[j].rounds, data |-> g0[j-1].data + e[j].data]
    <3>1. CASE j = 0
      BY <1>7, <3>1
    <3>2. CASE j # 0
      <4>1. j \in 1 .. n /\ j - 1 \in 0 .. n
        BY <2>1, <3>2
      <4>2. g0[j] = stop(j) /\ g0[j-1] = stop(j-1)
        BY <4>1
      <4>3. QED
        BY <1>8, <3>2, <4>1, <4>2
    <3>3. QED
      BY <3>1, <3>2
  <2>3. QED
    BY <1>3, <2>2
<1>10. T = Summed(T)
  <2> HIDE DEF g0, Summed, T
  <2>1. \E g : g = Summed(g)
    BY <1>9
  <2>2. QED
    BY <1>4, <2>1
<1> DEFINE S == {j \in Nat : j <= n => T[j] = stop(j)}
<1>11. 0 \in S
  BY <1>1, <1>3, <1>7, <1>10
<1>12. ASSUME NEW j \in Nat, j \in S PROVE j + 1 \in S
  <2>1. SUFFICES ASSUME j + 1 <= n PROVE T[j+1] = stop(j+1)
    OBVIOUS
  <2>2. j + 1 \in 0 .. n /\ j + 1 \in 1 .. n /\ j + 1 # 0 /\ (j + 1) - 1 = j /\ j <= n
    BY <1>1, <2>1
  <2>3. T[j] = stop(j)
    BY <1>12, <2>2
  <2>4. T[j+1] = [rounds |-> T[(j+1)-1].rounds + e[j+1].rounds, data |-> T[(j+1)-1].data + e[j+1].data]
    BY <1>3, <1>10, <2>2
  <2>5. QED
    BY <1>8, <2>2, <2>3, <2>4
<1>13. i \in S
  <2> HIDE DEF S
  <2>1. i \in Nat
    OBVIOUS
  <2>2. QED
    BY <1>11, <1>12, <2>1, Induction
<1>14. i \in 1 .. n /\ i <= n
  BY DEF n
<1>15. QED
  BY <1>6, <1>13, <1>14 DEF e

\* Laps that fit together come back without the length of the first.
LEMMA DecompressedLaps ==
  ASSUME NEW m \in Seq(Lap), Contiguous(m)
  PROVE  decompress_laps(compress_laps(m)) = Shortened(m)
<1> DEFINE n == Len(m)
           e == compress_laps(m)
           r == decompress_laps(e)
           StopOf(i) == [time |-> e[i].time, rounds |-> Totals(e)[i].rounds,
                         data |-> Totals(e)[i].data, cpu |-> e[i].cpu]
           s == Shortened(m)
<1>1. n \in Nat /\ DOMAIN m = 1 .. n /\ \A i \in 1 .. n : m[i] \in Lap
  BY LapsAreTyped
<1>2. DOMAIN e = 1 .. n
  BY <1>1 DEF compress_laps
<1>3. r = [i \in 1 .. n |-> [start |-> StopOf(IF i = 1 THEN 1 ELSE i - 1), stop |-> StopOf(i), idle |-> e[i].idle]]
  BY <1>2 DEF decompress_laps
<1>4. ASSUME NEW i \in 1 .. n PROVE StopOf(i) = m[i].stop /\ e[i].idle = m[i].idle
  <2>1. Totals(e)[i] = [rounds |-> m[i].stop.rounds, data |-> m[i].stop.data]
    BY TotalsOfCompressed
  <2>2. e[i].time = m[i].stop.time /\ e[i].cpu = m[i].stop.cpu /\ e[i].idle = m[i].idle
    BY <1>1 DEF compress_laps
  <2> HIDE DEF e, n
  <2>3. m[i].stop \in Reading
    BY <1>1 DEF Lap
  <2>4. m[i].stop = [time |-> m[i].stop.time, rounds |-> m[i].stop.rounds, data |-> m[i].stop.data,
                     cpu |-> m[i].stop.cpu]
    BY <2>3 DEF Reading
  <2>5. QED
    BY <2>1, <2>2, <2>4
<1>5. s = [i \in 1 .. n |-> IF i = 1 THEN [m[1] EXCEPT !.start = m[1].stop] ELSE m[i]]
  BY <1>1 DEF Shortened
<1> HIDE DEF StopOf, e, r, s
<1>6. ASSUME NEW i \in 1 .. n PROVE r[i] = s[i]
  <2>1. m[i] \in Lap
    BY <1>1
  <2>2. CASE i = 1
    <3>1. r[i] = [start |-> m[i].stop, stop |-> m[i].stop, idle |-> m[i].idle]
      BY <1>3, <1>4, <2>2
    <3>2. s[i] = [m[i] EXCEPT !.start = m[i].stop]
      BY <1>5, <2>2
    <3>3. QED
      BY <2>1, <3>1, <3>2 DEF Lap
  <2>3. CASE i # 1
    <3>1. i - 1 \in 1 .. n /\ i - 1 \in 1 .. n - 1 /\ (i - 1) + 1 = i
      BY <1>1, <2>3
    <3>2. m[i].start = m[i-1].stop
      BY <3>1 DEF Contiguous
    <3>3. r[i] = [start |-> m[i-1].stop, stop |-> m[i].stop, idle |-> m[i].idle]
      BY <1>3, <1>4, <2>3, <3>1
    <3>4. m[i] = [start |-> m[i].start, stop |-> m[i].stop, idle |-> m[i].idle]
      BY <2>1 DEF Lap
    <3>5. s[i] = m[i]
      BY <1>5, <2>3
    <3>6. QED
      BY <3>2, <3>3, <3>4, <3>5
  <2>4. QED
    BY <2>2, <2>3
<1> HIDE DEF n
<1>7. r = s
  BY <1>3, <1>5, <1>6
<1>8. QED
  BY <1>7 DEF r, s, e

(***************************************************************************)
(* Tables of laps.                                                         *)
(***************************************************************************)

Sound(data) == \A t \in DOMAIN data : Contiguous(data[t])

\* A table of the laps of some timers.
LEMMA TableOfLaps ==
  ASSUME NEW data \in LapTable
  PROVE  DOMAIN data \subseteq Timer /\ \A t \in DOMAIN data : data[t] \in Seq(Lap)
BY DEF LapTable

\* Without the length of first laps it is a table that agrees with it.
LEMMA ShortTableFits ==
  ASSUME NEW data \in LapTable, Sound(data)
  PROVE  /\ ShortTable(data) \in LapTable /\ DOMAIN ShortTable(data) = DOMAIN data
         /\ \A t \in DOMAIN data : Agree(ShortTable(data)[t], data[t]) /\ Contiguous(ShortTable(data)[t])
<1> DEFINE T == DOMAIN data
           s == ShortTable(data)
<1>1. T \subseteq Timer /\ \A t \in T : data[t] \in Seq(Lap) /\ Contiguous(data[t])
  BY TableOfLaps DEF Sound
<1>2. s = [t \in T |-> Shortened(data[t])]
  BY DEF ShortTable
<1> HIDE DEF T, s
<1>3. ASSUME NEW t \in T PROVE s[t] \in Seq(Lap) /\ Agree(s[t], data[t]) /\ Contiguous(s[t])
  <2>1. data[t] \in Seq(Lap) /\ Contiguous(data[t]) /\ s[t] = Shortened(data[t])
    BY <1>1, <1>2
  <2>2. QED
    BY <2>1, ShortenedFits
<1>4. s \in [T -> Seq(Lap)]
  BY <1>2, <1>3
<1>5. s \in LapTable
  BY <1>1, <1>4 DEF LapTable
<1>6. QED
  BY <1>2, <1>3, <1>5 DEF s, T

\* Compressed it is a table of entries, the same one with and without the length of first laps,
\* and decompressed again it has lost that.
LEMMA CompressedTable ==
  ASSUME NEW data \in LapTable, Sound(data)
  PROVE  /\ compress_timer_lap_data(data) \in EntryTable
         /\ compress_timer_lap_data(ShortTable(data)) = compress_timer_lap_data(data)
         /\ decompress_timer_lap_data(compress_timer_lap_data(data)) = ShortTable(data)
<1> DEFINE T == DOMAIN data
           s == ShortTable(data)
           c == compress_timer_lap_data(data)
           cs == compress_timer_lap_data(s)
           d == decompress_timer_lap_data(c)
<1>1. T \subseteq Timer /\ \A t \in T : data[t] \in Seq(Lap) /\ Contiguous(data[t])
  BY TableOfLaps DEF Sound
<1>2. /\ s = [t \in T |-> Shortened(data[t])] /\ c = [t \in T |-> compress_laps(data[t])]
      /\ cs = [t \in DOMAIN s |-> compress_laps(s[t])] /\ d = [t \in DOMAIN c |-> decompress_laps(c[t])]
  BY DEF ShortTable, compress_timer_lap_data, decompress_timer_lap_data
<1> HIDE DEF T, s, c, cs, d
<1>3. DOMAIN s = T /\ DOMAIN c = T
  BY <1>2
<1>4. ASSUME NEW t \in T PROVE c[t] \in Seq(Entry) /\ cs[t] = c[t] /\ d[t] = s[t]
  <2>1. data[t] \in Seq(Lap) /\ Contiguous(data[t])
    BY <1>1
  <2>2. /\ s[t] = Shortened(data[t]) /\ c[t] = compress_laps(data[t])
        /\ cs[t] = compress_laps(s[t]) /\ d[t] = decompress_laps(c[t])
    BY <1>2, <1>3
  <2>3. compress_laps(data[t]) \in Seq(Entry) /\ compress_laps(Shortened(data[t])) = compress_laps(data[t])
    BY <2>1, CompressedLaps
  <2>4. decompress_laps(compress_laps(data[t])) = Shortened(data[t])
    BY <2>1, DecompressedLaps
  <2>5. QED
    BY <2>2, <2>3, <2>4
<1>5. c \in [T -> Seq(Entry)] /\ cs = c /\ d = s
  BY <1>2, <1>3, <1>4
<1>6. QED
  BY <1>1, <1>5 DEF c, cs, d, s, EntryTable

\* A table is something.
LEMMA TablesAreSomething ==
  /\ \A data \in LapTable : data # None
  /\ \A comp \in EntryTable : comp # None
BY LapAssumption DEF LapTable, EntryTable

(***************************************************************************)
(* The steps.                                                              *)
(***************************************************************************)

LEMMA LapsStart == LapInit => LapInv
<1> SUFFICES ASSUME LapInit PROVE LapInv
  OBVIOUS
<1>1. /\ has_cpu \in BOOLEAN /\ started = [t \in Timer |-> None] /\ report = None
      /\ elapsed = [t \in Timer |-> [time |-> 0, rounds |-> 0, data |-> 0, cpu |-> IF has_cpu THEN 0 ELSE None]]
      /\ measured = [t \in {} |-> <<>>]
  BY DEF LapInit
<1>2. elapsed \in [Timer -> Reading] /\ (has_cpu => \A t \in Timer : elapsed[t].cpu \in Nat)
  BY <1>1 DEF Reading
<1>3. DOMAIN measured = {}
  BY <1>1
<1>4. measured \in [{} -> Seq(Lap)]
  BY <1>1
<1>5. measured \in LapTable
  BY <1>4 DEF LapTable
<1>6. ParsedLaps = {}
  BY <1>3 DEF ParsedLaps
<1>7. IsFiniteSet(ParsedLaps)
  BY <1>6, FS_EmptySet
<1>8. started \in [Timer -> Reading \cup {None}] /\ \A t \in Timer : started[t] \in {None, elapsed[t]}
  BY <1>1
<1>9. TimersInv
  BY <1>2, <1>3, <1>5, <1>7, <1>8 DEF TimersInv
<1>10. QED
  BY <1>1, <1>9 DEF LapInv

\* A timer that runs goes on from its present reading.
LEMMA StartsGoOn == ASSUME LapInv, NEW t \in Timer, StartTimer(t) PROVE LapInv'
<1>1. TimersInv /\ report = None
  BY DEF LapInv, StartTimer
<1>2. /\ started' = [started EXCEPT ![t] = elapsed[t]] /\ has_cpu' = has_cpu /\ elapsed' = elapsed
      /\ measured' = measured /\ report' = report
  BY DEF StartTimer
<1>3. started' \in [Timer -> Reading \cup {None}] /\ \A u \in Timer : started'[u] \in {None, elapsed[u]}
  <2>1. /\ elapsed \in [Timer -> Reading] /\ started \in [Timer -> Reading \cup {None}]
        /\ \A u \in Timer : started[u] \in {None, elapsed[u]}
    BY <1>1 DEF TimersInv
  <2>2. \A u \in Timer : started'[u] = IF u = t THEN elapsed[t] ELSE started[u]
    BY <1>2, <2>1
  <2>3. QED
    BY <1>2, <2>1, <2>2
<1>4. ParsedLaps' = ParsedLaps
  BY <1>2 DEF ParsedLaps
<1>5. TimersInv'
  BY <1>1, <1>2, <1>3, <1>4 DEF TimersInv
<1>6. QED
  BY <1>1, <1>2, <1>5 DEF LapInv

\* A lap that fits the ones before it is added to them.
LEMMA LapIsAdded ==
  ASSUME NEW laps \in Seq(Lap), Contiguous(laps), NEW lap \in Lap, EndsAt(laps, lap.start)
  PROVE  /\ Append(laps, lap) \in Seq(Lap) /\ Contiguous(Append(laps, lap))
         /\ EndsAt(Append(laps, lap), lap.stop) /\ Len(Append(laps, lap)) = Len(laps) + 1
<1> DEFINE n == Len(laps)
           a == Append(laps, lap)
<1>1. n \in Nat /\ a \in Seq(Lap) /\ Len(a) = n + 1 /\ a[n+1] = lap /\ \A i \in 1 .. n : a[i] = laps[i]
  OBVIOUS
<1>2. (n > 0 => laps[n].stop = lap.start) /\ \A i \in 1 .. n - 1 : laps[i+1].start = laps[i].stop
  BY DEF EndsAt, Contiguous
<1> HIDE DEF n, a
<1>3. ASSUME NEW i \in 1 .. Len(a) - 1 PROVE a[i+1].start = a[i].stop
  <2>1. i \in 1 .. n
    BY <1>1
  <2>2. CASE i = n
    BY <1>1, <1>2, <2>1, <2>2
  <2>3. CASE i # n
    <3>1. i \in 1 .. n - 1 /\ i + 1 \in 1 .. n
      BY <1>1, <2>1, <2>3
    <3>2. QED
      BY <1>1, <1>2, <2>1, <3>1
  <2>4. QED
    BY <2>2, <2>3
<1>4. QED
  BY <1>1, <1>3 DEF Contiguous, EndsAt, a, n

\* The lap of a timer that stops starts where the one before it ended.
LEMMA StopsFit == ASSUME LapInv, NEW t \in Timer, StopTimer(t) PROVE LapInv'
<1>1. TimersInv /\ report = None /\ started[t] # None
  BY DEF LapInv, StopTimer
<1>2. PICK r, d \in 0 .. 1 :
        LET stop == [time |-> started[t].time + 1, rounds |-> started[t].rounds + r,
                     data |-> started[t].data + d,
                     cpu |-> IF has_cpu THEN started[t].cpu + 2 ELSE None]
            lap  == [start |-> started[t], stop |-> stop, idle |-> Parsed]
        IN  /\ elapsed' = [elapsed EXCEPT ![t] = stop]
            /\ measured' = [u \in DOMAIN measured \cup {t} |->
                              IF u = t THEN Append(Laps(t), lap) ELSE measured[u]]
  BY DEF StopTimer
<1> DEFINE from == started[t]
           stop == [time |-> from.time + 1, rounds |-> from.rounds + r, data |-> from.data + d,
                    cpu |-> IF has_cpu THEN from.cpu + 2 ELSE None]
           lap == [start |-> from, stop |-> stop, idle |-> Parsed]
           T == DOMAIN measured \cup {t}
<1>3. /\ started' = [started EXCEPT ![t] = None] /\ has_cpu' = has_cpu /\ report' = report
      /\ elapsed' = [elapsed EXCEPT ![t] = stop]
      /\ measured' = [u \in T |-> IF u = t THEN Append(Laps(t), lap) ELSE measured[u]]
  BY <1>2 DEF StopTimer
<1>4. from = elapsed[t] /\ from \in Reading /\ (has_cpu => from.cpu \in Nat)
  <2>1. from = elapsed[t]
    BY <1>1 DEF TimersInv
  <2>2. elapsed[t] \in Reading /\ (has_cpu => elapsed[t].cpu \in Nat)
    BY <1>1 DEF TimersInv
  <2>3. QED
    BY <2>1, <2>2
<1>5. stop \in Reading /\ (has_cpu => stop.cpu \in Nat)
  <2>1. from.time \in Nat /\ from.rounds \in Nat /\ from.data \in Nat /\ r \in Nat /\ d \in Nat
    BY <1>2, <1>4 DEF Reading
  <2> HIDE DEF from
  <2>2. QED
    BY <1>4, <2>1 DEF Reading
<1>6. Parsed \in Nat
  BY <1>1, FS_CardinalityType DEF TimersInv, Parsed
<1>7. lap \in Lap /\ lap.start = from /\ lap.stop = stop
  <2> HIDE DEF stop, from
  <2>1. QED
    BY <1>4, <1>5, <1>6 DEF Lap
<1>8. DOMAIN measured \subseteq Timer /\ \A u \in DOMAIN measured : measured[u] \in Seq(Lap)
  BY <1>1, TableOfLaps DEF TimersInv
<1>9. Laps(t) \in Seq(Lap) /\ Contiguous(Laps(t)) /\ EndsAt(Laps(t), from)
  <2>1. CASE t \in DOMAIN measured
    BY <1>1, <1>4, <1>8, <2>1 DEF TimersInv, Laps
  <2>2. CASE t \notin DOMAIN measured
    <3>1. Laps(t) = <<>> /\ Len(<<>>) = 0
      BY <2>2 DEF Laps
    <3>2. QED
      BY <3>1 DEF Contiguous, EndsAt
  <2>3. QED
    BY <2>1, <2>2
<1> DEFINE more == Append(Laps(t), lap)
<1> HIDE DEF lap, stop, from
<1>10. /\ more \in Seq(Lap) /\ Contiguous(more) /\ EndsAt(more, stop) /\ Len(more) = Len(Laps(t)) + 1
  BY <1>7, <1>9, LapIsAdded
<1> HIDE DEF more
<1>11. measured' = [u \in T |-> IF u = t THEN more ELSE measured[u]]
  BY <1>3 DEF more
<1>12. measured' \in [T -> Seq(Lap)] /\ T \subseteq Timer
  BY <1>8, <1>10, <1>11
<1>13. measured' \in LapTable
  BY <1>12 DEF LapTable
<1>14. elapsed' \in [Timer -> Reading] /\ (has_cpu' => \A u \in Timer : elapsed'[u].cpu \in Nat)
  <2>1. elapsed \in [Timer -> Reading] /\ (has_cpu => \A u \in Timer : elapsed[u].cpu \in Nat)
    BY <1>1 DEF TimersInv
  <2>2. \A u \in Timer : elapsed'[u] = IF u = t THEN stop ELSE elapsed[u]
    BY <1>3, <2>1
  <2>3. elapsed' \in [Timer -> Reading]
    BY <1>3, <1>5, <2>1
  <2>4. ASSUME has_cpu, NEW u \in Timer PROVE elapsed'[u].cpu \in Nat
    BY <1>5, <2>1, <2>2, <2>4
  <2>5. QED
    BY <1>3, <2>3, <2>4
<1>15. started' \in [Timer -> Reading \cup {None}] /\ \A u \in Timer : started'[u] \in {None, elapsed'[u]}
  <2>1. \A u \in Timer : u # t => elapsed'[u] = elapsed[u] /\ started'[u] = started[u]
    BY <1>1, <1>3 DEF TimersInv
  <2>2. started \in [Timer -> Reading \cup {None}] /\ started' = [started EXCEPT ![t] = None]
    BY <1>1, <1>3 DEF TimersInv
  <2>3. started' \in [Timer -> Reading \cup {None}] /\ started'[t] = None
    BY <2>2
  <2>4. QED
    BY <1>1, <2>1, <2>3 DEF TimersInv
<1>16. \A u \in DOMAIN measured' : Contiguous(measured'[u]) /\ EndsAt(measured'[u], elapsed'[u])
  <2>1. elapsed'[t] = stop /\ \A u \in Timer : u # t => elapsed'[u] = elapsed[u]
    BY <1>1, <1>3 DEF TimersInv
  <2>2. DOMAIN measured' = T /\ measured'[t] = more
    BY <1>11
  <2>3. ASSUME NEW u \in T, u # t PROVE Contiguous(measured'[u]) /\ EndsAt(measured'[u], elapsed'[u])
    <3>1. u \in DOMAIN measured /\ measured'[u] = measured[u] /\ elapsed'[u] = elapsed[u]
      BY <1>8, <1>11, <2>1, <2>3
    <3>2. QED
      BY <1>1, <3>1 DEF TimersInv
  <2>4. QED
    BY <1>10, <2>1, <2>2, <2>3
<1>17. IsFiniteSet(ParsedLaps')
  <2> DEFINE new == <<t, Len(more)>>
  <2>1. ParsedLaps' \subseteq ParsedLaps \cup {new}
    <3>1. ASSUME NEW u \in T, NEW i \in DOMAIN measured'[u] PROVE <<u,i>> \in ParsedLaps \cup {new}
      <4>1. CASE u # t
        <5>1. u \in DOMAIN measured /\ i \in DOMAIN measured[u]
          BY <1>11, <3>1, <4>1
        <5>2. QED
          BY <5>1 DEF ParsedLaps
      <4>2. CASE u = t /\ i = Len(more)
        BY <4>2
      <4>3. CASE u = t /\ i # Len(more)
        <5>1. i \in 1 .. Len(more)
          BY <1>10, <1>11, <3>1, <4>3
        <5>2. i \in 1 .. Len(Laps(t)) /\ Len(Laps(t)) \in Nat
          BY <1>9, <1>10, <4>3, <5>1
        <5>3. t \in DOMAIN measured /\ Laps(t) = measured[t]
          BY <5>2 DEF Laps
        <5>4. i \in DOMAIN measured[t]
          BY <1>8, <5>2, <5>3
        <5>5. QED
          BY <4>3, <5>3, <5>4 DEF ParsedLaps
      <4>4. QED
        BY <4>1, <4>2, <4>3
    <3>2. DOMAIN measured' = T
      BY <1>11
    <3>3. QED
      BY <3>1, <3>2 DEF ParsedLaps
  <2>2. IsFiniteSet(ParsedLaps \cup {new})
    BY <1>1, FS_AddElement DEF TimersInv
  <2>3. QED
    BY <2>1, <2>2, FS_Subset
<1>18. TimersInv'
  BY <1>13, <1>14, <1>15, <1>16, <1>17 DEF TimersInv
<1>19. QED
  BY <1>1, <1>3, <1>18 DEF LapInv

\* What the steps of a report leave alone.
TimersKept == UNCHANGED <<has_cpu, started, elapsed, measured>>

\* The timers are not disturbed by a report, and the other forms of its laps are as before.
LEMMA FormsKept ==
  ASSUME LapInv, TimersKept,
         NEW d \in {None, measured, ShortTable(measured)},
         NEW c \in {None, compress_timer_lap_data(measured)},
         d # None \/ c # None, report' = [decoded |-> d, compressed |-> c]
  PROVE  LapInv'
<1>1. TimersInv
  BY DEF LapInv
<1>2. TimersInv'
  BY <1>1 DEF TimersKept, TimersInv, ParsedLaps
<1>3. measured' = measured /\ measured \in LapTable /\ Sound(measured)
  BY <1>1 DEF TimersKept, TimersInv, Sound
<1>4. ShortTable(measured) \in LapTable /\ compress_timer_lap_data(measured) \in EntryTable
  BY <1>3, ShortTableFits, CompressedTable
<1>5. report' \in LapReport
  BY <1>3, <1>4 DEF LapReport
<1>6. report'.decoded = d /\ report'.compressed = c
  OBVIOUS
<1>7. ReportInv'
  BY <1>3, <1>5, <1>6 DEF ReportInv
<1>8. QED
  BY <1>2, <1>7 DEF LapInv

\* The laps of a report: as measured, or without the length of the first ones.
LEMMA LapsOfReport ==
  ASSUME LapInv, report # None
  PROVE  /\ timers_lap_data(report) \in {measured, ShortTable(measured)}
         /\ measured \in LapTable /\ Sound(measured) /\ ReportInv
<1>1. measured \in LapTable /\ Sound(measured) /\ ReportInv
  BY DEF LapInv, TimersInv, Sound
<1>2. decompress_timer_lap_data(compress_timer_lap_data(measured)) = ShortTable(measured)
  BY <1>1, CompressedTable
<1>3. CASE report.decoded # None
  BY <1>1, <1>3 DEF ReportInv, timers_lap_data
<1>4. CASE report.decoded = None
  BY <1>1, <1>2, <1>4 DEF ReportInv, timers_lap_data
<1>5. QED
  BY <1>1, <1>3, <1>4

\* Parsing, storing, reading and reducing a report leave its laps in one of their forms.
LEMMA ReportsKeepForms ==
  ASSUME LapInv, Parse \/ from_serializable_dict \/ ReadLaps \/ reduce_verbosity
  PROVE  LapInv'
<1>1. CASE Parse
  <2>1. measured # None
    BY TablesAreSomething DEF LapInv, TimersInv
  <2>2. report' = [decoded |-> measured, compressed |-> None] /\ TimersKept
    BY <1>1 DEF Parse, TimersKept
  <2>3. QED
    BY <2>1, <2>2, FormsKept
<1>2. CASE from_serializable_dict
  <2> DEFINE c == compress_timer_lap_data(measured)
  <2>1. report # None /\ TimersKept /\ report' = [decoded |-> None, compressed |-> to_serializable_dict(report)]
    BY <1>2 DEF from_serializable_dict, TimersKept
  <2>2. measured \in LapTable /\ Sound(measured) /\ ReportInv
    BY <2>1, LapsOfReport
  <2>3. c \in EntryTable /\ compress_timer_lap_data(ShortTable(measured)) = c
    BY <2>2, CompressedTable
  <2>4. c # None
    BY <2>3, TablesAreSomething
  <2>5. to_serializable_dict(report) = c
    BY <2>2, <2>3 DEF ReportInv, to_serializable_dict
  <2>6. QED
    BY <2>1, <2>4, <2>5, FormsKept
<1>3. CASE ReadLaps
  <2> DEFINE d == timers_lap_data(report)
  <2>1. report # None /\ TimersKept /\ report' = [report EXCEPT !.decoded = d]
    BY <1>3 DEF ReadLaps, TimersKept
  <2>2. d \in {measured, ShortTable(measured)} /\ measured \in LapTable /\ Sound(measured) /\ ReportInv
    BY <2>1, LapsOfReport
  <2>3. d # None
    BY <2>2, ShortTableFits, TablesAreSomething
  <2> HIDE DEF d
  <2>4. report' = [decoded |-> d, compressed |-> report.compressed]
    BY <2>1, <2>2 DEF ReportInv, LapReport
  <2>5. report.compressed \in {None, compress_timer_lap_data(measured)}
    BY <2>2 DEF ReportInv
  <2>6. QED
    BY <2>1, <2>2, <2>3, <2>4, <2>5, FormsKept
<1>4. CASE reduce_verbosity
  <2> DEFINE d == timers_lap_data(report)
  <2>1. report # None /\ TimersKept /\ report' = [decoded |-> d, compressed |-> None]
    BY <1>4 DEF reduce_verbosity, TimersKept
  <2>2. d \in {measured, ShortTable(measured)} /\ measured \in LapTable /\ Sound(measured)
    BY <2>1, LapsOfReport
  <2>3. d # None
    BY <2>2, ShortTableFits, TablesAreSomething
  <2> HIDE DEF d
  <2>4. QED
    BY <2>1, <2>2, <2>3, FormsKept
<1>5. QED
  BY <1>1, <1>2, <1>3, <1>4

\* Laps fit together from one to the next, and every form of a report's laps is made of the
\* measured ones: in every state of any run.
THEOREM LapInvariant == LapSpec => []LapInv
<1>1. LapInv /\ [LapNext]_lapVars => LapInv'
  <2>1. LapInv /\ UNCHANGED lapVars => LapInv'
    BY DEF lapVars, LapInv, TimersInv, ReportInv, ParsedLaps
  <2>2. LapInv /\ LapNext => LapInv'
    BY StartsGoOn, StopsFit, ReportsKeepForms DEF LapNext
  <2>3. QED
    BY <2>1, <2>2
<1>2. QED
  BY <1>1, LapsStart, PTL DEF LapSpec

\* However often a report is stored, received, read and reduced, its laps are those that were
\* measured, but for the start of the first ones, and fit together: for any timers and laps.
THEOREM LapsOfReportsSurvive == LapSpec => []LapsSurvive
<1>1. ASSUME LapInv PROVE LapsSurvive
  <2> SUFFICES ASSUME report # None
               PROVE  LET laps == timers_lap_data(report)
                      IN  /\ DOMAIN laps = DOMAIN measured
                          /\ \A t \in DOMAIN measured : Agree(laps[t], measured[t]) /\ Contiguous(laps[t])
    BY DEF LapsSurvive
  <2> DEFINE laps == timers_lap_data(report)
  <2>1. laps \in {measured, ShortTable(measured)} /\ measured \in LapTable /\ Sound(measured)
    BY <1>1, LapsOfReport
  <2>2. CASE laps = measured
    BY <2>1, <2>2 DEF Agree, Sound
  <2>3. CASE laps = ShortTable(measured)
    BY <2>1, <2>3, ShortTableFits
  <2>4. QED
    BY <2>1, <2>2, <2>3
<1>2. LapInv => LapsSurvive
  BY <1>1
<1>3. QED
  BY <1>2, LapInvariant, PTL

(***************************************************************************)
(* Quotients, remainders and powers of two.                                *)
(***************************************************************************)

\* The quotient of a natural number is one.
LEMMA QuotientOfNatural ==
  ASSUME NEW x \in Nat, NEW n \in Nat \ {0}
  PROVE  x \div n \in Nat
<1>1. x = n * (x \div n) + (x % n) /\ x % n \in 0 .. n - 1 /\ x \div n \in Int
  BY DivMod
<1>2. CASE x \div n <= -1
  <2>1. n * (x \div n) <= -n
    BY <1>1, <1>2
  <2>2. QED
    BY <1>1, <2>1
<1>3. QED
  BY <1>1, <1>2

\* The remainder by a product: the lower digit and the higher one.
LEMMA RemainderOfProduct ==
  ASSUME NEW x \in Nat, NEW n \in Nat \ {0}, NEW k \in Nat \ {0}
  PROVE  x % (n * k) = n * ((x \div n) % k) + (x % n) /\ x \div (n * k) = (x \div n) \div k
<1> DEFINE q == x \div n
           r == x % n
           t == q \div k
           s == q % k
<1>1. x = n * q + r /\ r \in 0 .. n - 1 /\ q \in Nat
  <2>1. x \in Int /\ x = n * (x \div n) + (x % n) /\ x % n \in 0 .. n - 1
    BY DivMod
  <2>2. x \div n \in Nat
    BY QuotientOfNatural
  <2>3. QED
    BY <2>1, <2>2
<1>2. q = k * t + s /\ s \in 0 .. k - 1 /\ t \in Int
  BY <1>1, DivMod
<1> HIDE DEF q, r, t, s
<1> DEFINE u == n * s + r
           m == n * k
<1>3. u \in 0 .. m - 1
  <2>1. s <= k - 1 /\ s \in Nat /\ r <= n - 1 /\ r \in Nat
    BY <1>1, <1>2
  <2>2. n * s <= n * (k - 1)
    BY <2>1
  <2>3. n * (k - 1) = n * k - n
    OBVIOUS
  <2>4. n * s \in Nat
    BY <2>1
  <2>5. QED
    BY <2>1, <2>2, <2>3, <2>4
<1>4. x = m * t + u
  <2>1. n * (k * t + s) = (n * k) * t + n * s
    BY <1>2
  <2>2. QED
    BY <1>1, <1>2, <2>1
<1>5. m \in Nat \ {0}
  OBVIOUS
<1> HIDE DEF m, u
<1>6. x \div m = t /\ x % m = u
  BY <1>2, <1>3, <1>4, <1>5, QuotientIs
<1>7. QED
  BY <1>6 DEF m, u, q, r, t, s

LEMMA PowerIsPositive == ASSUME NEW n \in Nat PROVE 2^n \in Nat \ {0}
BY PowerIsNatural, PowerExceeds

LEMMA PowerAdds ==
  ASSUME NEW a \in Nat, NEW b \in Nat
  PROVE  2^(a + b) = 2^a * 2^b
<1> DEFINE S == {k \in Nat : 2^(a + k) = 2^a * 2^k}
<1>1. 0 \in S
  <2>1. 2^0 = 1 /\ a + 0 = a /\ 2^a \in Nat
    BY PowerIsNatural
  <2>2. QED
    BY <2>1
<1>2. ASSUME NEW k \in Nat, k \in S PROVE k + 1 \in S
  <2>1. 2^(k + 1) = 2^k + 2^k /\ 2^k \in Nat /\ 2^a \in Nat
    BY PowerDoubles, PowerIsNatural
  <2>2. a + k \in Nat /\ a + (k + 1) = (a + k) + 1
    OBVIOUS
  <2>3. 2^((a + k) + 1) = 2^(a + k) + 2^(a + k)
    BY <2>2, PowerDoubles
  <2>4. 2^(a + k) = 2^a * 2^k
    BY <1>2
  <2> DEFINE p == 2^a
             q == 2^k
  <2>5. p \in Nat /\ q \in Nat /\ 2^(a + (k + 1)) = p * q + p * q /\ 2^(k + 1) = q + q
    BY <2>1, <2>2, <2>3, <2>4
  <2> HIDE DEF p, q
  <2>6. p * q + p * q = p * (q + q)
    BY <2>5
  <2>7. 2^(a + (k + 1)) = p * 2^(k + 1)
    BY <2>5, <2>6
  <2>8. k + 1 \in Nat
    OBVIOUS
  <2>9. QED
    BY <2>7, <2>8 DEF p
<1> HIDE DEF S
<1>3. b \in S
  BY <1>1, <1>2, Induction
<1>4. QED
  BY <1>3 DEF S

\* The next bit of a number continues its remainder.
LEMMA NextBit ==
  ASSUME NEW x \in Nat, NEW j \in Nat
  PROVE  Bit(x, j) \in {0, 1} /\ x % 2^(j + 1) = 2^j * Bit(x, j) + (x % 2^j)
<1> DEFINE n == 2^j
<1>1. n \in Nat \ {0} /\ 2^(j + 1) = n + n
  BY PowerIsPositive, PowerDoubles
<1>2. Bit(x, j) = (x \div n) % 2
  BY DEF Bit
<1> HIDE DEF n
<1>3. 2^(j + 1) = n * 2
  BY <1>1
<1>4. x % (n * 2) = n * ((x \div n) % 2) + (x % n)
  <2>1. 2 \in Nat \ {0}
    OBVIOUS
  <2>2. QED
    BY <1>1, <2>1, RemainderOfProduct
<1>5. x \div n \in Int
  BY <1>1, QuotientOfNatural
<1>6. (x \div n) % 2 \in {0, 1}
  BY <1>5
<1>7. QED
  BY <1>2, <1>3, <1>4, <1>6 DEF n

\* The number of bits of the indices below n.
LEMMA BitsSuffice ==
  ASSUME NEW n \in Nat \ {0, 1}
  PROVE  BitLength(n) \in Nat \ {0} /\ 2^BitLength(n) \in Nat /\ 2^BitLength(n) >= n
<1> DEFINE P(k) == 2^k >= n /\ \A j \in 0 .. k-1 : 2^j < n
<1>1. \E k \in 0 .. n : P(k)
  BY LeastPower
<1>2. BitLength(n) = CHOOSE k \in 0 .. n : P(k)
  BY DEF BitLength
<1>3. BitLength(n) \in 0 .. n /\ 2^BitLength(n) >= n
  <2> HIDE DEF P
  <2>1. BitLength(n) \in 0 .. n /\ P(BitLength(n))
    BY <1>1, <1>2
  <2>2. QED
    BY <2>1 DEF P
<1>4. BitLength(n) # 0
  <2>1. 2^0 = 1
    OBVIOUS
  <2>2. ASSUME BitLength(n) = 0 PROVE FALSE
    <3>1. 2^BitLength(n) = 2^0
      BY <2>2
    <3>2. QED
      BY <1>3, <2>1, <3>1
  <2>3. QED
    BY <2>2
<1>5. BitLength(n) \in Nat
  BY <1>3
<1>6. QED
  BY <1>3, <1>4, <1>5, PowerIsNatural

(***************************************************************************)
(* From bit to bit                                                         *)
(***************************************************************************)

\* A bit doubles a unit vector.
LEMMA DoubledUnit ==
  ASSUME NEW k \in Nat \ {0}, NEW r \in 0 .. k - 1, NEW bit \in {0, 1}, NEW c \in Nat
  PROVE  Doubled(UnitVector(r, k, c), bit, k) = UnitVector(r + k * bit, 2 * k, c)
<1> DEFINE p == UnitVector(r, k, c)
           f == [i \in 0 .. k - 1 |-> p[i] * bit]
           g == [i \in 0 .. k - 1 |-> p[i] - f[i]]
<1>1. p = [i \in 0 .. k - 1 |-> IF i = r THEN c ELSE 0]
  BY DEF UnitVector
<1>2. Scaled(p, bit) = f /\ Minus(p, f) = g
  BY <1>1 DEF Scaled, Minus
<1>3. Doubled(p, bit, k) = [i \in 0 .. 2*k - 1 |-> IF i < k THEN g[i] ELSE f[i-k]]
  BY <1>2 DEF Doubled, Joined
<1>4. ASSUME NEW i \in 0 .. 2*k - 1
      PROVE  (IF i < k THEN g[i] ELSE f[i-k]) = IF i = r + k * bit THEN c ELSE 0
  <2>1. CASE i < k
    <3>1. i \in 0 .. k - 1
      BY <2>1
    <3>2. g[i] = (IF i = r THEN c ELSE 0) - (IF i = r THEN c ELSE 0) * bit
      BY <1>1, <3>1
    <3>3. CASE bit = 0
      BY <2>1, <3>2, <3>3
    <3>4. CASE bit = 1
      BY <2>1, <3>2, <3>4
    <3>5. QED
      BY <3>3, <3>4
  <2>2. CASE ~(i < k)
    <3>1. i - k \in 0 .. k - 1
      BY <2>2
    <3>2. f[i-k] = (IF i - k = r THEN c ELSE 0) * bit
      BY <1>1, <3>1
    <3>3. CASE bit = 0
      BY <2>2, <3>2, <3>3
    <3>4. CASE bit = 1
      BY <2>2, <3>2, <3>4
    <3>5. QED
      BY <3>3, <3>4
  <2>3. QED
    BY <2>1, <2>2
<1>5. QED
  BY <1>3, <1>4, ZenonT(60) DEF UnitVector

\* After j bits the vector is the unit vector of the j lowest bits.
LEMMA VectorsAreUnits ==
  ASSUME NEW x \in Nat, NEW c \in Nat, NEW l \in Nat, NEW j \in 0 .. l
  PROVE  Vectors(x, c, l)[j] = UnitVector(x % 2^j, 2^j, c)
<1> DEFINE U(k) == UnitVector(x % 2^k, 2^k, c)
           Next1(p) == [k \in 0 .. l |-> IF k = 0 THEN [i \in {0} |-> c] ELSE Doubled(p[k-1], Bit(x, k-1), 2^(k-1))]
           p0 == [k \in 0 .. l |-> U(k)]
           v == Vectors(x, c, l)
<1>1. v = CHOOSE p : p = Next1(p)
  BY DEF Vectors
<1>2. U(0) = [i \in {0} |-> c]
  <2>1. 2^0 = 1 /\ x % 1 = 0 /\ 0 .. 1 - 1 = {0}
    OBVIOUS
  <2>2. QED
    BY <2>1 DEF UnitVector
<1>3. ASSUME NEW k \in Nat PROVE Doubled(U(k), Bit(x, k), 2^k) = U(k+1)
  <2> DEFINE n == 2^k
             r == x % n
             b == Bit(x, k)
  <2>1. n \in Nat \ {0} /\ b \in {0, 1} /\ x % 2^(k+1) = n * b + r
    BY PowerIsPositive, NextBit
  <2>2. 2^(k+1) = 2 * n /\ r \in 0 .. n - 1
    <3>1. 2^(k+1) = n + n
      BY PowerDoubles
    <3> HIDE DEF n
    <3>2. x \in Int
      OBVIOUS
    <3>3. QED
      BY <2>1, <3>1, <3>2, DivMod
  <2> HIDE DEF n, r, b
  <2>3. n * b + r = r + n * b
    BY <2>1, <2>2
  <2>4. Doubled(UnitVector(r, n, c), b, n) = UnitVector(r + n * b, 2 * n, c)
    BY <2>1, <2>2, DoubledUnit
  <2>5. QED
    BY <2>1, <2>2, <2>3, <2>4 DEF n, r, b
<1> HIDE DEF U
<1>4. p0 = Next1(p0)
  <2>1. ASSUME NEW k \in 0 .. l
        PROVE  U(k) = IF k = 0 THEN [i \in {0} |-> c] ELSE Doubled(p0[k-1], Bit(x, k-1), 2^(k-1))
    <3>1. CASE k = 0
      BY <1>2, <3>1
    <3>2. CASE k # 0
      <4>1. k - 1 \in Nat /\ k - 1 \in 0 .. l /\ (k - 1) + 1 = k
        BY <3>2
      <4>2. Doubled(U(k-1), Bit(x, k-1), 2^(k-1)) = U((k-1)+1)
        BY <4>1, <1>3
      <4>3. QED
        BY <3>2, <4>1, <4>2
    <3>3. QED
      BY <3>1, <3>2
  <2>2. QED
    BY <2>1
<1>5. v = Next1(v)
  <2> HIDE DEF Next1, p0, v
  <2>1. \E p : p = Next1(p)
    BY <1>4
  <2>2. QED
    BY <1>1, <2>1
<1> HIDE DEF v
<1> DEFINE S == {k \in Nat : k <= l => v[k] = U(k)}
<1>6. 0 \in S
  BY <1>2, <1>5
<1>7. ASSUME NEW k \in Nat, k \in S PROVE k + 1 \in S
  <2>1. SUFFICES ASSUME k + 1 <= l PROVE v[k+1] = U(k+1)
    OBVIOUS
  <2>2. k + 1 \in 0 .. l /\ k + 1 # 0 /\ (k + 1) - 1 = k /\ k <= l
    BY <2>1
  <2>3. v[k+1] = Doubled(v[k], Bit(x, k), 2^k)
    BY <1>5, <2>2
  <2>4. QED
    BY <1>3, <1>7, <2>2, <2>3
<1>8. j \in S
  <2> HIDE DEF S
  <2>1. j \in Nat
    OBVIOUS
  <2>2. QED
    BY <1>6, <1>7, <2>1, Induction
<1>9. j <= l
  OBVIOUS
<1>10. QED
  BY <1>8, <1>9 DEF v, U

\* The part of a longer unit vector.
LEMMA PrefixOfUnit ==
  ASSUME NEW n \in Nat, NEW k \in Nat, n <= k, NEW x, NEW c
  PROVE  Prefix(UnitVector(x, k, c), n) = UnitVector(x, n, c)
<1>1. \A i \in 0 .. n-1 : i \in 0 .. k-1
  OBVIOUS
<1>2. QED
  BY <1>1 DEF Prefix, UnitVector

LEMMA WithoutBitpackingDemuxes ==
  ASSUME NEW n \in Nat \ {0, 1}, NEW x \in 0 .. n-1, NEW c \in {0, 1}
  PROVE  without_bitpacking(x, n, c) = UnitVector(x, n, c)
<1> DEFINE l == BitLength(n)
           k == 2^l
<1>1. l \in Nat /\ k \in Nat /\ k >= n /\ x \in Nat /\ c \in Nat
  BY BitsSuffice
<1>2. Vectors(x, c, l)[l] = UnitVector(x % k, k, c)
  <2> HIDE DEF l
  <2>1. l \in 0 .. l
    BY <1>1
  <2>2. QED
    BY <1>1, <2>1, VectorsAreUnits
<1> HIDE DEF k
<1>3. x % k = x
  <2>1. k \in Nat \ {0} /\ x \in 0 .. k - 1
    BY <1>1
  <2>2. QED
    BY <2>1, SmallRemainder
<1>4. Prefix(UnitVector(x, k, c), n) = UnitVector(x, n, c)
  BY <1>1, PrefixOfUnit
<1>5. QED
  BY <1>2, <1>3, <1>4 DEF without_bitpacking

(***************************************************************************)
(* On words                                                                *)
(***************************************************************************)

\* Words of a vector of 2^j entries, of 2^m bits at most, with one bit set at position r.
Width(m, j) == IF j < m THEN 2^j ELSE 2^m
OneBit(r, w, c) == 2^(w - 1 - (r % w)) * c
WordsOf(r, j, m, c) ==
  [words |-> UnitVector(r \div Width(m, j), 2^j \div Width(m, j), OneBit(r, Width(m, j), c)),
   total |-> 2^j, per |-> Width(m, j)]

\* Bits of a power of two, and of nothing.
LEMMA BitOfPower ==
  ASSUME NEW a \in Nat, NEW b \in Nat
  PROVE  Bit(2^a, b) = (IF a = b THEN 1 ELSE 0) /\ Bit(0, b) = 0
<1>1. 2^a \in Nat \ {0} /\ 2^b \in Nat \ {0}
  BY PowerIsPositive
<1>5. Bit(0, b) = 0
  <2> DEFINE p == 2^b
  <2>1. p \in Nat \ {0} /\ 0 \in 0 .. p - 1
    BY <1>1
  <2> HIDE DEF p
  <2>2. 0 \div p = 0
    BY <2>1, SmallRemainder
  <2>3. Bit(0, b) = (0 \div p) % 2
    BY DEF Bit, p
  <2>4. 0 % 2 = 0
    OBVIOUS
  <2>5. QED
    BY <2>2, <2>3, <2>4
<1>2. CASE a = b
  <2> DEFINE p == 2^b
  <2>1. p \in Nat \ {0} /\ p = p * 1 + 0 /\ 0 \in 0 .. p - 1
    BY <1>1
  <2> HIDE DEF p
  <2>2. p \div p = 1
    BY <2>1, QuotientIs
  <2>3. Bit(2^a, b) = (p \div p) % 2
    BY <1>2 DEF Bit, p
  <2>4. 1 % 2 = 1
    OBVIOUS
  <2>5. QED
    BY <1>5, <1>2, <2>2, <2>3, <2>4
<1>3. CASE a < b
  <2>1. b - a - 1 \in Nat /\ b = a + ((b - a - 1) + 1)
    BY <1>3
  <2> DEFINE d == 2^(b - a - 1)
             p == 2^a
             q == 2^b
  <2>2. d \in Nat \ {0} /\ 2^((b - a - 1) + 1) = d + d
    BY <2>1, PowerIsPositive, PowerDoubles
  <2>3. 2^(a + ((b - a - 1) + 1)) = p * (d + d)
    <3>1. (b - a - 1) + 1 \in Nat
      BY <2>1
    <3>2. QED
      BY <2>2, <3>1, PowerAdds
  <2>4. p \in Nat \ {0} /\ q \in Nat \ {0} /\ q = p * (d + d)
    BY <1>1, <2>1, <2>3
  <2> HIDE DEF p, q, d
  <2>5. p * (d + d) >= p + p
    BY <2>2, <2>4
  <2>6. p \in 0 .. q - 1
    BY <2>4, <2>5
  <2>7. p \div q = 0
    BY <2>4, <2>6, SmallRemainder
  <2>8. Bit(2^a, b) = (p \div q) % 2
    BY DEF Bit, p, q
  <2>9. 0 % 2 = 0
    OBVIOUS
  <2>10. QED
    BY <1>5, <1>3, <2>7, <2>8, <2>9
<1>4. CASE a > b
  <2>1. a - b - 1 \in Nat /\ a = b + ((a - b - 1) + 1)
    BY <1>4
  <2> DEFINE d == 2^(a - b - 1)
             p == 2^b
             q == 2^a
  <2>2. d \in Nat \ {0} /\ 2^((a - b - 1) + 1) = d + d
    BY <2>1, PowerIsPositive, PowerDoubles
  <2>3. 2^(b + ((a - b - 1) + 1)) = p * (d + d)
    <3>1. (a - b - 1) + 1 \in Nat
      BY <2>1
    <3>2. QED
      BY <2>2, <3>1, PowerAdds
  <2>4. p \in Nat \ {0} /\ q \in Nat \ {0} /\ q = p * (d + d) + 0 /\ 0 \in 0 .. p - 1 /\ d + d \in Int
    BY <1>1, <2>1, <2>2, <2>3
  <2> HIDE DEF p, q, d
  <2>5. q \div p = d + d
    BY <2>4, QuotientIs
  <2>6. (d + d) % 2 = 0
    BY <2>2
  <2>7. Bit(2^a, b) = (q \div p) % 2
    BY DEF Bit, p, q
  <2>8. QED
    BY <1>5, <1>4, <2>5, <2>6, <2>7
<1>6. QED
  BY <1>2, <1>3, <1>4, <1>5

LEMMA PowersAscend ==
  ASSUME NEW a \in Nat, NEW b \in Nat, a < b
  PROVE  2^a < 2^b /\ 2^b = 2^a * 2^(b - a)
<1>1. b - a \in Nat \ {0} /\ b = a + (b - a)
  OBVIOUS
<1> DEFINE d == b - a
<1>2. d \in Nat /\ d >= 1 /\ b = a + d
  BY <1>1
<1> HIDE DEF d
<1>3. 2^d > d /\ 2^d \in Nat /\ 2^a \in Nat \ {0}
  BY <1>2, PowerExceeds, PowerIsPositive
<1>4. 2^b = 2^a * 2^d
  BY <1>2, PowerAdds
<1> DEFINE p == 2^a
           q == 2^d
<1>5. p \in Nat \ {0} /\ q \in Nat /\ q >= 2 /\ 2^b = p * q
  BY <1>2, <1>3, <1>4
<1> HIDE DEF p, q
<1>6. p * q >= p + p
  BY <1>5
<1>7. QED
  BY <1>4, <1>5, <1>6 DEF p, d

\* A word that is not full is doubled in place.
LEMMA WordGrows ==
  ASSUME NEW m \in Nat \ {0}, MaxBits = 2^m, NEW j \in Nat, j < m, NEW bit \in {0, 1},
         NEW r \in 0 .. 2^j - 1, NEW c \in {0, 1}
  PROVE  WordDoubled(WordsOf(r, j, m, c), bit) = WordsOf(2^j * bit + r, j + 1, m, c)
<1> DEFINE N == 2^j
           N2 == 2^(j+1)
           q == WordsOf(r, j, m, c)
           s == N * bit + r
           t == WordsOf(s, j + 1, m, c)
           v == 2^(N - 1 - r) * c
           w == 2^(N2 - 1 - s) * c
<1>1. N \in Nat \ {0} /\ N2 = N + N /\ N < MaxBits
  BY PowerIsPositive, PowerDoubles, PowersAscend
<1>2. Width(m, j) = N /\ Width(m, j + 1) = N2
  <2>1. j + 1 < m \/ j + 1 = m
    OBVIOUS
  <2>2. QED
    BY <2>1 DEF Width
<1> HIDE DEF N, N2
<1>3. r \in 0 .. N - 1
  BY DEF N
<1>4. s \in 0 .. N2 - 1 /\ N2 \in Nat \ {0}
  BY <1>1, <1>3
<1>5. r \div N = 0 /\ r % N = r /\ s \div N2 = 0 /\ s % N2 = s
  <2> HIDE DEF s
  <2>1. QED
    BY <1>1, <1>3, <1>4, SmallRemainder
<1>6. N \div N = 1 /\ N2 \div N2 = 1
  <2>1. N = N * 1 + 0 /\ 0 \in 0 .. N - 1 /\ N2 = N2 * 1 + 0 /\ 0 \in 0 .. N2 - 1 /\ 1 \in Int
    BY <1>1, <1>4
  <2>2. QED
    BY <1>1, <1>4, <2>1, QuotientIs
<1>7. q = [words |-> [i \in {0} |-> v], total |-> N, per |-> N]
  <2>1. q = [words |-> UnitVector(0, 1, v), total |-> N, per |-> N]
    BY <1>2, <1>5, <1>6 DEF WordsOf, OneBit, N
  <2>2. 0 .. 1 - 1 = {0}
    OBVIOUS
  <2> HIDE DEF v, q
  <2>3. UnitVector(0, 1, v) = [i \in {0} |-> v]
    BY <2>2 DEF UnitVector
  <2>4. QED
    BY <2>1, <2>3
<1>8. t = [words |-> [i \in {0} |-> w], total |-> N2, per |-> N2]
  <2>1. t = [words |-> UnitVector(0, 1, w), total |-> N2, per |-> N2]
    BY <1>2, <1>5, <1>6 DEF WordsOf, OneBit, N2
  <2>2. 0 .. 1 - 1 = {0}
    OBVIOUS
  <2> HIDE DEF w, t
  <2>3. UnitVector(0, 1, w) = [i \in {0} |-> w]
    BY <2>2 DEF UnitVector
  <2>4. QED
    BY <2>1, <2>3
<1>9. 2^N * (v - bit * v) + bit * v = w
  <2> DEFINE e == N - 1 - r
  <2>1. e \in Nat
    BY <1>1, <1>3
  <2>2. 2^e \in Nat /\ 2^N \in Nat /\ 2^(N + e) = 2^N * 2^e
    BY <1>1, <2>1, PowerIsNatural, PowerAdds
  <2>3. CASE bit = 0
    <3>1. N2 - 1 - s = N + e
      BY <1>1, <1>3, <2>3
    <3>2. w = 2^N * 2^e * c
      BY <2>2, <3>1
    <3> DEFINE a == 2^N
               b == 2^e
    <3>3. a \in Nat /\ b \in Nat /\ v = b * c /\ w = a * b * c
      BY <2>2, <3>2
    <3> HIDE DEF a, b, v, w
    <3>4. a * (b * c - 0 * (b * c)) + 0 * (b * c) = a * b * c
      BY <3>3
    <3>5. QED
      BY <2>3, <3>3, <3>4 DEF a
  <2>4. CASE bit = 1
    <3>1. N2 - 1 - s = e
      BY <1>1, <1>3, <2>4
    <3>2. w = v
      BY <3>1
    <3> DEFINE a == 2^N
    <3>3. a \in Nat /\ v \in Nat
      BY <2>2
    <3> HIDE DEF a, v, w
    <3>4. a * (v - 1 * v) + 1 * v = v
      BY <3>3
    <3>5. QED
      BY <2>4, <3>2, <3>4 DEF a
  <2>5. QED
    BY <2>3, <2>4
<1> HIDE DEF v, w, q, t, s
<1>10. WordDoubled(q, bit) = [words |-> [i \in {0} |-> w], total |-> 2 * N, per |-> 2 * N]
  BY <1>1, <1>7, <1>9 DEF WordDoubled
<1>11. 2 * N = N2
  BY <1>1
<1>12. WordDoubled(q, bit) = t
  BY <1>8, <1>10, <1>11
<1>13. QED
  BY <1>12 DEF q, t, s, N

\* Full words are doubled in number.
LEMMA WordsGrow ==
  ASSUME NEW m \in Nat \ {0}, MaxBits = 2^m, NEW j \in Nat, j >= m, NEW bit \in {0, 1},
         NEW r \in 0 .. 2^j - 1, NEW c \in {0, 1}
  PROVE  WordDoubled(WordsOf(r, j, m, c), bit) = WordsOf(2^j * bit + r, j + 1, m, c)
<1> DEFINE N == 2^j
           W == 2^m
           H == 2^(j - m)
           s == N * bit + r
           q == WordsOf(r, j, m, c)
           t == WordsOf(s, j + 1, m, c)
           v == OneBit(r, W, c)
<1>1. N \in Nat \ {0} /\ W \in Nat \ {0} /\ H \in Nat \ {0} /\ 2^(j+1) = N + N /\ N = W * H
  <2>1. j - m \in Nat /\ j = m + (j - m)
    OBVIOUS
  <2>2. 2^(m + (j - m)) = W * H
    BY <2>1, PowerAdds
  <2>3. QED
    BY <2>1, <2>2, PowerIsPositive, PowerDoubles
<1>2. Width(m, j) = W /\ Width(m, j + 1) = W /\ MaxBits = W
  BY DEF Width
<1>3. r \in 0 .. N - 1 /\ r \in Int
  OBVIOUS
<1> HIDE DEF N, W, H
<1> DEFINE a == r \div W
           b == r % W
<1>4. r = W * a + b /\ b \in 0 .. W - 1 /\ a \in Int
  BY <1>1, <1>3, DivMod
<1>5. a \in 0 .. H - 1
  <2>1. r \in Nat
    BY <1>1, <1>3
  <2>2. a \in Nat
    BY <1>1, <2>1, QuotientOfNatural
  <2>3. ASSUME a >= H PROVE FALSE
    <3> HIDE DEF a, b
    <3>1. W * a >= W * H
      BY <1>1, <2>2, <2>3
    <3>2. QED
      BY <1>1, <1>3, <1>4, <3>1
  <2>4. QED
    BY <1>1, <2>2, <2>3
<1>6. N \div W = H /\ (N + N) \div W = 2 * H
  <2>1. N = W * H + 0 /\ N + N = W * (2 * H) + 0 /\ 0 \in 0 .. W - 1 /\ 2 * H \in Int /\ H \in Int
    BY <1>1
  <2>2. QED
    BY <1>1, <2>1, QuotientIs
<1>7. s \div W = a + H * bit /\ s % W = b
  <2> HIDE DEF a, b
  <2>1. s = W * (a + H * bit) + b
    <3>1. W * (a + H * bit) = W * a + (W * H) * bit
      BY <1>1, <1>4
    <3>2. QED
      BY <1>1, <1>4, <3>1
  <2>2. a + H * bit \in Int
    BY <1>1, <1>4
  <2> HIDE DEF s
  <2>3. QED
    BY <1>1, <1>4, <2>1, <2>2, QuotientIs
<1>8. q = [words |-> UnitVector(a, H, v), total |-> N, per |-> W]
  BY <1>2, <1>6 DEF WordsOf, N
<1>9. t = [words |-> UnitVector(a + H * bit, 2 * H, v), total |-> 2 * N, per |-> W]
  <2>1. OneBit(s, W, c) = v
    BY <1>7 DEF OneBit
  <2>2. N + N = 2 * N
    BY <1>1
  <2> HIDE DEF s, v
  <2>3. QED
    BY <1>1, <1>2, <1>6, <1>7, <2>1, <2>2 DEF WordsOf
<1>10. v \in Nat
  <2> HIDE DEF a
  <2>1. W - 1 - b \in Nat
    BY <1>1, <1>4
  <2>2. 2^(W - 1 - b) \in Nat
    BY <2>1, PowerIsNatural
  <2>3. v = 2^(W - 1 - b) * c
    BY DEF OneBit
  <2> HIDE DEF v, b
  <2>4. QED
    BY <2>2, <2>3
<1> HIDE DEF a, v, q, t, s
<1>11. Doubled(UnitVector(a, H, v), bit, H) = UnitVector(a + H * bit, 2 * H, v)
  <2>1. H \in Nat \ {0} /\ a \in 0 .. H - 1 /\ bit \in {0, 1} /\ v \in Nat
    BY <1>1, <1>5, <1>10
  <2>2. QED
    BY ONLY <2>1, DoubledUnit
<1>12. ~(N < MaxBits)
  <2>1. W * H >= W
    BY <1>1
  <2>2. QED
    BY <1>1, <1>2, <2>1
<1>13. WordDoubled(q, bit) = [words |-> UnitVector(a + H * bit, 2 * H, v), total |-> 2 * N, per |-> W]
  BY <1>6, <1>8, <1>11, <1>12 DEF WordDoubled
<1>14. WordDoubled(q, bit) = t
  BY <1>9, <1>13
<1>15. QED
  BY <1>14 DEF q, t, s, N

\* After j bits the words hold one bit, at the position that the j lowest bits give.
LEMMA PackedAreWords ==
  ASSUME NEW m \in Nat \ {0}, MaxBits = 2^m,
         NEW x \in Nat, NEW c \in {0, 1}, NEW l \in Nat \ {0}, NEW j \in 1 .. l
  PROVE  Packed(x, c, l)[j] = WordsOf(x % 2^j, j, m, c)
<1> DEFINE U(k) == WordsOf(x % 2^k, k, m, c)
           first == [words |-> [i \in {0} |-> (2 * (1 - Bit(x, 0)) + Bit(x, 0)) * c], total |-> 2, per |-> 2]
           Next1(p) == [k \in 1 .. l |-> IF k = 1 THEN first ELSE WordDoubled(p[k-1], Bit(x, k-1))]
           p0 == [k \in 1 .. l |-> U(k)]
           v == Packed(x, c, l)
<1>1. v = CHOOSE p : p = Next1(p)
  BY DEF Packed
<1>2. U(1) = first
  <2>1. 2^1 = 2 /\ 1 \in Nat /\ x % 2 \in {0, 1} /\ 0 .. 1 - 1 = {0}
    OBVIOUS
  <2>2. Bit(x, 0) = x % 2
    <3>1. 2^0 = 1 /\ x \div 1 = x
      OBVIOUS
    <3>2. QED
      BY <3>1 DEF Bit
  <2> DEFINE r == x % 2
  <2>3. Width(m, 1) = 2
    <3>1. 1 < m \/ m = 1
      OBVIOUS
    <3>2. QED
      BY <2>1, <3>1 DEF Width
  <2>4. r \div 2 = 0 /\ r % 2 = r /\ 2 \div 2 = 1
    BY <2>1
  <2>5. OneBit(r, 2, c) = (2 * (1 - r) + r) * c
    <3>4. OneBit(r, 2, c) = 2^(2 - 1 - r) * c
      BY <2>4 DEF OneBit
    <3>5. 2 - 1 - 0 = 1 /\ 2 - 1 - 1 = 0 /\ 2^0 = 1 /\ 2^1 = 2
      OBVIOUS
    <3>6. r \in {0, 1}
      BY <2>1
    <3> HIDE DEF r
    <3>1. CASE r = 0
      <4>1. OneBit(r, 2, c) = 2 * c
        BY <3>1, <3>4, <3>5
      <4>2. (2 * (1 - 0) + 0) * c = 2 * c
        OBVIOUS
      <4>3. QED
        BY <3>1, <4>1, <4>2
    <3>2. CASE r = 1
      <4>1. OneBit(r, 2, c) = 1 * c
        BY <3>2, <3>4, <3>5
      <4>2. (2 * (1 - 1) + 1) * c = 1 * c
        OBVIOUS
      <4>3. QED
        BY <3>2, <4>1, <4>2
    <3>3. QED
      BY <3>6, <3>1, <3>2
  <2> DEFINE w == OneBit(r, 2, c)
  <2>6. U(1) = [words |-> UnitVector(0, 1, w), total |-> 2, per |-> 2]
    BY <2>1, <2>3, <2>4 DEF WordsOf
  <2> HIDE DEF w
  <2>7. UnitVector(0, 1, w) = [i \in {0} |-> w]
    BY <2>1 DEF UnitVector
  <2>8. QED
    BY <2>2, <2>5, <2>6, <2>7 DEF w
<1>3. ASSUME NEW k \in Nat, k >= 1 PROVE WordDoubled(U(k), Bit(x, k)) = U(k+1)
  <2> DEFINE r == x % 2^k
             b == Bit(x, k)
  <2>1. 2^k \in Nat \ {0} /\ b \in {0, 1} /\ x % 2^(k+1) = 2^k * b + r
    BY PowerIsPositive, NextBit
  <2>2. r \in 0 .. 2^k - 1
    <3> DEFINE n == 2^k
    <3>1. n \in Nat \ {0} /\ x \in Int
      BY <2>1
    <3> HIDE DEF n
    <3>2. x % n \in 0 .. n - 1
      BY <3>1, DivMod
    <3>3. QED
      BY <3>2 DEF n
  <2> HIDE DEF r, b
  <2>3. WordDoubled(WordsOf(r, k, m, c), b) = WordsOf(2^k * b + r, k + 1, m, c)
    <3>4. /\ m \in Nat \ {0} /\ MaxBits = 2^m /\ k \in Nat /\ b \in {0, 1}
          /\ r \in 0 .. 2^k - 1 /\ c \in {0, 1}
      BY <1>3, <2>1, <2>2
    <3>1. CASE k < m
      BY ONLY <3>4, <3>1, WordGrows, SMTT(60)
    <3>2. CASE k >= m
      BY ONLY <3>4, <3>2, WordsGrow, SMTT(60)
    <3>3. QED
      BY <1>3, <3>1, <3>2
  <2>4. QED
    BY <2>1, <2>3 DEF r, b
<1> HIDE DEF U, first
<1>4. p0 = Next1(p0)
  <2>1. ASSUME NEW k \in 1 .. l
        PROVE  U(k) = IF k = 1 THEN first ELSE WordDoubled(p0[k-1], Bit(x, k-1))
    <3>1. CASE k = 1
      BY <1>2, <3>1
    <3>2. CASE k # 1
      <4>1. k - 1 \in Nat /\ k - 1 >= 1 /\ k - 1 \in 1 .. l /\ (k - 1) + 1 = k
        BY <3>2
      <4>2. WordDoubled(U(k-1), Bit(x, k-1)) = U((k-1)+1)
        BY <4>1, <1>3
      <4>3. QED
        BY <3>2, <4>1, <4>2
    <3>3. QED
      BY <3>1, <3>2
  <2>2. QED
    BY <2>1
<1>5. v = Next1(v)
  <2> HIDE DEF Next1, p0, v
  <2>1. \E p : p = Next1(p)
    BY <1>4
  <2>2. QED
    BY <1>1, <2>1
<1> HIDE DEF v
<1> DEFINE S == {k \in Nat : k + 1 <= l => v[k+1] = U(k+1)}
<1>6. 0 \in S
  <2>1. 1 \in 1 .. l
    OBVIOUS
  <2>2. QED
    BY <1>2, <1>5, <2>1
<1>7. ASSUME NEW k \in Nat, k \in S PROVE k + 1 \in S
  <2>1. SUFFICES ASSUME (k + 1) + 1 <= l PROVE v[(k+1)+1] = U((k+1)+1)
    OBVIOUS
  <2>2. (k+1) + 1 \in 1 .. l /\ (k+1) + 1 # 1 /\ ((k+1) + 1) - 1 = k + 1 /\ k + 1 <= l /\ k + 1 \in Nat /\ k + 1 >= 1
    BY <2>1
  <2>3. v[(k+1)+1] = WordDoubled(v[k+1], Bit(x, k+1))
    BY <1>5, <2>2
  <2>4. QED
    BY <1>3, <1>7, <2>2, <2>3
<1>8. j - 1 \in S
  <2> HIDE DEF S
  <2>1. j - 1 \in Nat
    OBVIOUS
  <2>2. QED
    BY <1>6, <1>7, <2>1, Induction
<1>9. (j - 1) + 1 = j /\ j <= l
  OBVIOUS
<1>10. QED
  BY <1>8, <1>9 DEF v, U

LEMMA KellerDemuxes ==
  ASSUME NEW n \in Nat \ {0, 1}, NEW x \in 0 .. n-1, NEW c \in {0, 1}
  PROVE  keller_batch(x, n, c) = UnitVector(x, n, c)
<1> DEFINE l == BitLength(n)
           k == 2^l
<1>1. l \in Nat \ {0} /\ k \in Nat /\ k >= n /\ x \in Nat
  BY BitsSuffice
<1>2. PICK m \in 1 .. 6 : MaxBits = 2^m
  BY DemuxAssumption
<1>3. m \in Nat \ {0}
  OBVIOUS
<1>4. x % k = x
  <2> HIDE DEF k
  <2>1. k \in Nat \ {0} /\ x \in 0 .. k - 1
    BY <1>1
  <2>2. QED
    BY <2>1, SmallRemainder
<1> DEFINE q == Packed(x, c, l)[l]
           W == Width(m, l)
           H == k \div W
           w == OneBit(x, W, c)
<1>5. q = WordsOf(x, l, m, c)
  <2> HIDE DEF l
  <2>1. l \in 1 .. l
    BY <1>1
  <2>2. Packed(x, c, l)[l] = WordsOf(x % 2^l, l, m, c)
    BY <1>1, <1>2, <1>3, <2>1, PackedAreWords
  <2>3. QED
    BY <1>4, <2>2
<1>6. W \in Nat \ {0} /\ k = W * H /\ H \in Nat
  <2> HIDE DEF l
  <2>1. CASE l < m
    <3>1. W = k
      BY <2>1 DEF Width
    <3>2. k \in Nat \ {0}
      BY <1>1, PowerIsPositive
    <3> HIDE DEF k, W
    <3>3. k = k * 1 + 0 /\ 0 \in 0 .. k - 1
      BY <3>2
    <3>4. k \div k = 1
      BY <3>2, <3>3, QuotientIs
    <3>5. QED
      BY <3>1, <3>2, <3>4 DEF H
  <2>2. CASE ~(l < m)
    <3>1. W = 2^m
      BY <2>2 DEF Width
    <3>2. l - m \in Nat /\ l = m + (l - m)
      BY <1>1, <1>3, <2>2
    <3>3. 2^(m + (l - m)) = 2^m * 2^(l - m)
      BY <1>3, <3>2, PowerAdds
    <3> DEFINE d == 2^(l - m)
    <3>4. W \in Nat \ {0} /\ d \in Nat /\ k = W * d
      BY <1>3, <3>1, <3>2, <3>3, PowerIsPositive
    <3> HIDE DEF d, W, k
    <3>5. k = W * d + 0 /\ 0 \in 0 .. W - 1 /\ d \in Int
      BY <3>4
    <3>6. k \div W = d
      BY <3>4, <3>5, QuotientIs
    <3>7. QED
      BY <3>4, <3>6 DEF H
  <2>3. QED
    BY <2>1, <2>2
<1>7. q = [words |-> UnitVector(x \div W, H, w), total |-> k, per |-> W]
  BY <1>5 DEF WordsOf
<1>8. keller_batch(x, n, c) = Unpacked(q, n)
  BY DEF keller_batch
<1> HIDE DEF q, W, H, k, l
<1>9. ASSUME NEW i \in 0 .. n - 1
      PROVE  Bit(q.words[i \div q.per], (q.per - 1) - (i % q.per)) = IF i = x THEN c ELSE 0
  <2> DEFINE a == i \div W
             b == i % W
             d == x \div W
             e == x % W
  <2>1. i \in Nat /\ i \in Int /\ x \in Int
    BY <1>1
  <2>2. i = W * a + b /\ b \in 0 .. W - 1 /\ x = W * d + e /\ e \in 0 .. W - 1
    BY <1>6, <2>1, DivMod
  <2>3. a \in Nat /\ d \in Nat
    BY <1>1, <1>6, <2>1, QuotientOfNatural
  <2> HIDE DEF a, b, d, e
  <2>4. a \in 0 .. H - 1
    <3>1. ASSUME a >= H PROVE FALSE
      <4>1. W * a >= W * H
        BY <1>6, <2>3, <3>1
      <4>2. i < n /\ n <= k /\ i \in Int /\ n \in Int /\ k \in Int
        BY <1>1
      <4> DEFINE z == W * a
      <4>3. z \in Int /\ b >= 0 /\ i = z + b /\ z >= k
        BY <1>6, <2>2, <2>3, <4>1
      <4> HIDE DEF z
      <4>4. QED
        BY <2>2, <4>2, <4>3
    <3>2. QED
      BY <1>6, <2>3, <3>1
  <2>5. q.words[a] = (IF a = d THEN w ELSE 0) /\ q.per = W
    <3>1. q.words = UnitVector(d, H, w)
      BY <1>7 DEF d
    <3> HIDE DEF w
    <3>2. QED
      BY <1>7, <2>4, <3>1 DEF UnitVector
  <2>6. (W - 1) - b \in Nat /\ (W - 1) - e \in Nat
    BY <1>6, <2>2
  <2>7. w = 2^((W - 1) - e) * c
    BY DEF OneBit, e
  <2> HIDE DEF w
  <2>8. Bit(q.words[a], (W - 1) - b) = IF i = x THEN c ELSE 0
    <3>1. CASE c = 0
      <4>1. 2^((W - 1) - e) \in Nat
        BY <2>6, PowerIsNatural
      <4>2. w = 0
        BY <2>7, <3>1, <4>1
      <4>3. QED
        BY <2>5, <2>6, <3>1, <4>2, BitOfPower
    <3>2. CASE c = 1 /\ a # d
      <4>1. q.words[a] = 0 /\ i # x
        BY <1>6, <2>2, <2>3, <2>5, <3>2, QuotientUnique
      <4>2. QED
        BY <2>6, <4>1, BitOfPower
    <3>3. CASE c = 1 /\ a = d
      <4>1. 2^((W - 1) - e) \in Nat
        BY <2>6, PowerIsNatural
      <4>2. q.words[a] = 2^((W - 1) - e)
        BY <2>5, <2>7, <3>3, <4>1
      <4>3. Bit(q.words[a], (W - 1) - b) = IF (W - 1) - e = (W - 1) - b THEN 1 ELSE 0
        BY <2>6, <4>2, BitOfPower
      <4>4. ((W - 1) - e = (W - 1) - b) <=> i = x
        BY <1>6, <2>2, <2>3, <3>3
      <4>5. QED
        BY <3>3, <4>3, <4>4
    <3>4. QED
      BY <3>1, <3>2, <3>3
  <2>9. QED
    BY <2>5, <2>8 DEF a, b
<1>10. QED
  BY <1>8, <1>9 DEF Unpacked, UnitVector

\* The demultiplexer by comparison: the comparisons fall from one to zero behind the index.
LEMMA ComparisonDemuxes ==
  ASSUME NEW n \in Nat \ {0, 1}, NEW x \in 0 .. n-1
  PROVE  by_comparison(x, n) = UnitVector(x, n, 1)
BY DEF by_comparison, UnitVector

\* The demultiplexer by shuffling: turning the random vector by the difference of the
\* positions brings its one to the index.
LEMMA ShuffleDemuxes ==
  ASSUME NEW n \in Nat \ {0, 1}, NEW x \in 0 .. n-1, NEW c \in {0, 1},
         NEW r \in 0 .. 2^BitLength(n) - 1, NEW mask \in 0 .. 2^BitLength(n) - 1
  PROVE  by_shuffle_reveal(x, n, c, r, mask) = UnitVector(x, n, c)
<1> DEFINE size == 2^BitLength(n)
           index == c * r + (1 - c) * mask
           shift == (x - index + size) % size
<1>1. size \in Nat \ {0} /\ size >= n
  BY BitsSuffice
<1>2. by_shuffle_reveal(x, n, c, r, mask) = [i \in 0 .. n-1 |-> IF (i - shift + size) % size = r THEN c ELSE 0]
  BY DEF by_shuffle_reveal
<1>3. r \in 0 .. size - 1 /\ mask \in 0 .. size - 1
  OBVIOUS
<1> HIDE DEF size
<1>4. CASE c = 0
  BY <1>2, <1>4 DEF UnitVector
<1>5. CASE c = 1
  <2>1. index = r
    BY <1>1, <1>3, <1>5
  <2>2. x - r + size \in Int
    BY <1>1, <1>3
  <2> DEFINE q == (x - r + size) \div size
             t == (x - r + size) % size
  <2>3. x - r + size = size * q + t /\ t \in 0 .. size - 1 /\ q \in Int
    BY <1>1, <2>2, DivMod
  <2>4. shift = t
    BY <2>1
  <2> HIDE DEF index, shift, q, t
  <2>5. ASSUME NEW i \in 0 .. n-1
        PROVE  ((i - t + size) % size = r) <=> i = x
    <3> DEFINE a == (i - t + size) \div size
               b == (i - t + size) % size
    <3>1. i - t + size = size * a + b /\ b \in 0 .. size - 1 /\ a \in Int
      <4>1. i - t + size \in Int
        BY <1>1, <2>3
      <4>2. QED
        BY <1>1, <4>1, DivMod
    <3>2. i \in 0 .. size - 1 /\ x \in 0 .. size - 1 /\ i \in Int /\ x \in Int /\ r \in Int /\ size \in Int /\ t \in Int
      BY <1>1, <1>3, <2>3
    <3> HIDE DEF a, b
    <3>3. ASSUME b = r PROVE i = x
      <4>1. size * (a - q) = size * a - size * q /\ a - q \in Int
        BY <3>1, <3>2, <2>3
      <4>2. size * 0 + i = size * (a - q) + x
        BY <2>3, <3>1, <3>2, <3>3, <4>1
      <4>3. 0 \in Int
        OBVIOUS
      <4>4. QED
        BY ONLY <1>1, <3>2, <4>1, <4>2, <4>3, QuotientUnique
    <3>4. ASSUME i = x PROVE b = r
      <4>1. size * a + b = size * q + r
        BY <2>3, <3>1, <3>2, <3>4
      <4>2. QED
        BY ONLY <1>1, <1>3, <2>3, <3>1, <4>1, QuotientUnique
    <3>5. QED
      BY <3>3, <3>4 DEF b
  <2>6. [i \in 0 .. n-1 |-> IF (i - shift + size) % size = r THEN c ELSE 0] = [i \in 0 .. n-1 |-> IF i = x THEN c ELSE 0]
    BY <2>4, <2>5
  <2>7. QED
    BY <1>2, <2>6 DEF UnitVector
<1>6. QED
  BY <1>4, <1>5

(***************************************************************************)
(* The demultiplexer by polynomials.                                       *)
(***************************************************************************)

\* The distances of the points are invertible.
LEMMA DistanceIsInvertible ==
  ASSUME NEW n \in Sizes, NEW i \in 0 .. n - 1, NEW j \in 1 .. n + 1, j # i + 1
  PROVE  /\ Inverted((i + 1 - j) % Prime) \in 1 .. Prime - 1
         /\ ((i + 1 - j) * Inverted((i + 1 - j) % Prime)) % Prime = 1
<1> DEFINE a == i + 1 - j
           r == a % Prime
           b == Inverted(r)
<1>1. Prime \in Nat \ {0} /\ n + 1 < Prime /\ n \in Nat \ {0, 1}
  BY DemuxAssumption
<1>2. a \in Int /\ a # 0 /\ a > -Prime /\ a < Prime
  BY <1>1
<1> HIDE DEF a
<1> DEFINE q == a \div Prime
<1>3. a = Prime * q + r /\ r \in 0 .. Prime - 1 /\ q \in Int
  BY <1>1, <1>2, DivMod
<1> HIDE DEF q, r
<1>4. r # 0
  <2>1. SUFFICES ASSUME r = 0 PROVE FALSE
    OBVIOUS
  <2>2. a = Prime * q
    BY <1>1, <1>3, <2>1
  <2>3. CASE q >= 1
    <3>1. Prime * q >= Prime
      BY <1>1, <1>3, <2>3
    <3>2. QED
      BY <1>1, <1>2, <2>2, <3>1
  <2>4. CASE q <= -1
    <3>1. Prime * q <= -Prime
      BY <1>1, <1>3, <2>4
    <3>2. QED
      BY <1>1, <1>2, <2>2, <3>1
  <2>5. CASE q = 0
    BY <1>1, <1>2, <2>2, <2>5
  <2>6. QED
    BY <1>3, <2>3, <2>4, <2>5
<1>5. r \in 1 .. Prime - 1
  BY <1>1, <1>3, <1>4
<1>6. \E d \in 1 .. Prime - 1 : (r * d) % Prime = 1
  BY <1>5, DemuxAssumption
<1>7. b \in 1 .. Prime - 1 /\ (r * b) % Prime = 1
  BY <1>6 DEF Inverted
<1> HIDE DEF b
<1>8. (a * b) % Prime = 1
  <2>1. b \in Int
    BY <1>7
  <2>2. ((a % Prime) * b) % Prime = (a * b) % Prime
    BY <1>1, <1>2, <2>1, ProductOfRemainder
  <2>3. QED
    BY <1>7, <2>2 DEF r
<1>9. QED
  BY <1>7, <1>8 DEF a, b, r

\* The products are defined at every point.
LEMMA PartialIsDefined ==
  ASSUME NEW i \in Int, NEW y \in Int, NEW k \in Nat
  PROVE  Partial(i, y, k) = [j \in 0 .. k |->
           IF j = 0 THEN 1
           ELSE IF j = i + 1 THEN Partial(i, y, k)[j-1]
           ELSE (Partial(i, y, k)[j-1] * (y - j) * Inverted((i + 1 - j) % Prime)) % Prime]
<1> DEFINE Value(z, j) == IF j = i + 1 THEN z ELSE (z * (y - j) * Inverted((i + 1 - j) % Prime)) % Prime
           Next1(p, m) == [j \in 0 .. m |-> IF j = 0 THEN 1
                             ELSE IF j = i + 1 THEN p[j-1]
                             ELSE (p[j-1] * (y - j) * Inverted((i + 1 - j) % Prime)) % Prime]
           v == Partial(i, y, k)
           S == {m \in Nat : \E p : p = Next1(p, m)}
<1>1. v = CHOOSE p : p = Next1(p, k)
  BY DEF Partial
<1>2. 0 \in S
  <2> DEFINE p == [j \in 0 .. 0 |-> 1]
  <2>1. p = Next1(p, 0)
    OBVIOUS
  <2>2. QED
    BY <2>1
<1>3. ASSUME NEW m \in Nat, m \in S PROVE m + 1 \in S
  <2>1. PICK p : p = Next1(p, m)
    BY <1>3
  <2> DEFINE g == [j \in 0 .. m + 1 |-> IF j = m + 1 THEN Value(p[m], m + 1) ELSE p[j]]
  <2>2. \A j \in 0 .. m : g[j] = p[j]
    OBVIOUS
  <2>3. \A j \in 0 .. m : p[j] = IF j = 0 THEN 1 ELSE Value(p[j-1], j)
    <3>1. DOMAIN p = 0 .. m
      BY <2>1
    <3>2. TAKE j \in 0 .. m
    <3>3. p[j] = Next1(p, m)[j]
      BY <2>1
    <3> HIDE DEF S
    <3>4. QED
      BY <3>3
  <2> HIDE DEF Value
  <2>4. ASSUME NEW j \in 0 .. m + 1
        PROVE  g[j] = IF j = 0 THEN 1 ELSE Value(g[j-1], j)
    <3>1. CASE j = m + 1
      BY <2>2, <3>1
    <3>2. CASE j # m + 1
      <4>1. j \in 0 .. m
        BY <3>2
      <4>2. j # 0 => j - 1 \in 0 .. m
        BY <4>1
      <4>3. g[j] = p[j] /\ (j # 0 => g[j-1] = p[j-1])
        BY <2>2, <4>1, <4>2
      <4> HIDE DEF g
      <4>4. QED
        BY <2>3, <4>1, <4>3
    <3>3. QED
      BY <3>1, <3>2
  <2>5. g = [j \in 0 .. m + 1 |-> IF j = 0 THEN 1 ELSE Value(g[j-1], j)]
    <3> DEFINE h == [j \in 0 .. m + 1 |-> IF j = 0 THEN 1 ELSE Value(g[j-1], j)]
    <3>1. \A j \in 0 .. m + 1 : g[j] = h[j]
      <4> HIDE DEF g
      <4>1. QED
        BY <2>4
    <3>2. DOMAIN g = 0 .. m + 1 /\ g = [j \in DOMAIN g |-> g[j]]
      OBVIOUS
    <3> HIDE DEF g
    <3>3. QED
      BY <3>1, <3>2
  <2>6. g = Next1(g, m + 1)
    <3> HIDE DEF g
    <3>1. QED
      BY <2>5, Zenon DEF Value
  <2> HIDE DEF g, Next1
  <2>7. QED
    BY <2>6
<1>4. k \in S
  <2> HIDE DEF S
  <2>1. QED
    BY <1>2, <1>3, Induction
<1>5. v = Next1(v, k)
  <2>1. \E p : p = Next1(p, k)
    BY <1>4
  <2> HIDE DEF v
  <2>2. QED
    BY <1>1, <2>1, Zenon
<1>6. QED
  BY <1>5

\* The polynomial of an entry is one at its own point and zero at the other ones.
LEMMA LagrangeIsUnit ==
  ASSUME NEW n \in Sizes, NEW i \in 0 .. n - 1, NEW y \in 1 .. n + 1
  PROVE  Lagrange(n, i, y) = IF y = i + 1 THEN 1 ELSE 0
<1> DEFINE f == Partial(i, y, n + 1)
           Inv(j) == Inverted((i + 1 - j) % Prime)
           k == n + 1
           P(j) == /\ f[j] \in Int
                   /\ y = i + 1 => f[j] = 1
                   /\ y # i + 1 /\ j >= y => f[j] = 0
           S == {j \in Nat : j <= k => P(j)}
<1>1. Prime \in Nat \ {0} /\ n + 1 < Prime /\ n \in Nat \ {0, 1}
  BY DemuxAssumption
<1>2. /\ f[0] = 1
      /\ \A j \in 1 .. k : f[j] = IF j = i + 1 THEN f[j-1] ELSE (f[j-1] * (y - j) * Inv(j)) % Prime
  <2>1. i \in Int /\ y \in Int /\ n + 1 \in Nat
    BY <1>1
  <2>2. f = [j \in 0 .. k |-> IF j = 0 THEN 1 ELSE IF j = i + 1 THEN f[j-1] ELSE (f[j-1] * (y - j) * Inv(j)) % Prime]
    BY ONLY <2>1, PartialIsDefined
  <2> HIDE DEF f, Inv
  <2>3. QED
    BY <1>1, <2>2
<1>3. ASSUME NEW j \in 1 .. k, j # i + 1
      PROVE  Inv(j) \in Int /\ ((i + 1 - j) * Inv(j)) % Prime = 1
  <2>1. j \in 1 .. n + 1
    OBVIOUS
  <2>2. Inv(j) \in 1 .. Prime - 1 /\ ((i + 1 - j) * Inv(j)) % Prime = 1
    BY <1>3, <2>1, DistanceIsInvertible
  <2> HIDE DEF Inv
  <2>3. QED
    BY <1>1, <2>2
<1> HIDE DEF f, Inv
<1>4. 0 \in S
  BY <1>1, <1>2
<1>5. ASSUME NEW j \in Nat, j \in S PROVE j + 1 \in S
  <2>1. SUFFICES ASSUME j + 1 <= k PROVE P(j + 1)
    OBVIOUS
  <2>2. j + 1 \in 1 .. k /\ (j + 1) - 1 = j /\ P(j)
    BY <1>1, <1>5, <2>1
  <2>3. CASE j + 1 = i + 1
    <3>1. f[j + 1] = f[j]
      BY <1>2, <2>2, <2>3
    <3>2. y # i + 1 /\ j + 1 >= y => j >= y
      BY <1>1, <2>3
    <3>3. QED
      BY <2>2, <3>1, <3>2
  <2>4. CASE j + 1 # i + 1
    <3> DEFINE b == Inv(j + 1)
               d == y - (j + 1)
               z == f[j]
    <3>1. f[j + 1] = (z * d * b) % Prime
      BY <1>2, <2>2, <2>4
    <3>2. b \in Int /\ ((i + 1 - (j + 1)) * b) % Prime = 1 /\ d \in Int /\ z \in Int
      BY <1>1, <1>3, <2>2, <2>4
    <3> HIDE DEF b
    <3>3. f[j + 1] \in Int
      <4> HIDE DEF z, d
      <4>1. z * d * b \in Int
        BY <3>2
      <4>2. QED
        BY <1>1, <3>1, <4>1, DivMod
    <3>4. ASSUME y = i + 1 PROVE f[j + 1] = 1
      <4>1. z = 1 /\ d = i + 1 - (j + 1)
        BY <2>2, <3>4
      <4> HIDE DEF z, d
      <4>2. z * d * b = d * b
        BY <3>2, <4>1
      <4>3. QED
        BY <3>1, <3>2, <4>1, <4>2
    <3>5. ASSUME y # i + 1, j + 1 >= y PROVE f[j + 1] = 0
      <4>1. z = 0 \/ d = 0
        <5>1. j >= y \/ y = j + 1
          BY <1>1, <3>5
        <5>2. y = j + 1 => d = 0
          BY <1>1
        <5>3. QED
          BY <2>2, <3>5, <5>1, <5>2
      <4> HIDE DEF z, d
      <4>2. z * d * b = 0
        BY <3>2, <4>1
      <4>3. 0 % Prime = 0
        <5>1. 0 \in 0 .. Prime - 1
          BY <1>1
        <5>2. QED
          BY <1>1, <5>1, SmallRemainder
      <4>4. QED
        BY <3>1, <4>2, <4>3
    <3>6. QED
      BY <3>3, <3>4, <3>5
  <2>5. QED
    BY <2>3, <2>4
<1>6. k \in S
  <2> HIDE DEF S
  <2>1. k \in Nat
    BY <1>1
  <2>2. QED
    BY <1>4, <1>5, <2>1, Induction
<1>7. P(k)
  BY <1>1, <1>6
<1>8. Lagrange(n, i, y) = f[k]
  BY DEF Lagrange, f
<1>9. QED
  BY <1>1, <1>7, <1>8

LEMMA PolynomialsDemux ==
  ASSUME NEW n \in Sizes, NEW x \in 0 .. n-1, NEW c \in {0, 1}
  PROVE  by_polynomials(x, n, c) = UnitVector(x, n, c)
<1> DEFINE point == IF c = 1 THEN x ELSE n
<1>1. n \in Nat \ {0, 1}
  BY DemuxAssumption
<1>2. point + 1 \in 1 .. n + 1
  BY <1>1
<1>3. \A i \in 0 .. n - 1 : Lagrange(n, i, point + 1) = IF point + 1 = i + 1 THEN 1 ELSE 0
  BY <1>2, LagrangeIsUnit
<1>4. \A i \in 0 .. n - 1 : Lagrange(n, i, point + 1) = IF i = x THEN c ELSE 0
  BY <1>1, <1>3
<1>5. QED
  BY <1>4 DEF by_polynomials, UnitVector

(***************************************************************************)
(* The demultiplexer that multiplies the vectors of two halves.            *)
(***************************************************************************)

LEMMA ProductOfUnits ==
  ASSUME NEW k \in Nat \ {0}, NEW m \in Nat \ {0}, NEW r \in 0 .. k - 1, NEW s \in 0 .. m - 1, NEW c \in {0, 1}
  PROVE  OuterProduct(UnitVector(r, k, c), UnitVector(s, m, c), k, m) = UnitVector(m * r + s, k * m, c)
<1> DEFINE f == UnitVector(r, k, c)
           g == UnitVector(s, m, c)
<1>1. k * m \in Nat
  OBVIOUS
<1>2. ASSUME NEW i \in 0 .. k * m - 1
      PROVE  f[i \div m] * g[i % m] = IF i = m * r + s THEN c ELSE 0
  <2> DEFINE a == i \div m
             b == i % m
  <2>1. i \in Nat /\ i < k * m
    BY <1>1
  <2>2. i = m * a + b /\ b \in 0 .. m - 1 /\ a \in Int
    BY <2>1, DivMod
  <2>3. a \in Nat
    BY <2>1, QuotientOfNatural
  <2> HIDE DEF a, b, f, g
  <2>4. a \in 0 .. k - 1
    <3>1. ASSUME a >= k PROVE FALSE
      <4>1. m * a >= k * m
        BY <2>3, <3>1
      <4> DEFINE z == m * a
      <4>2. z \in Int /\ z >= k * m /\ i = z + b
        BY <2>2, <2>3, <4>1
      <4> HIDE DEF z
      <4>3. QED
        BY <1>1, <2>1, <2>2, <4>2
    <3>2. QED
      BY <2>3, <3>1
  <2>5. f[a] = (IF a = r THEN c ELSE 0) /\ g[b] = (IF b = s THEN c ELSE 0)
    BY <2>2, <2>4 DEF f, g, UnitVector
  <2>6. (a = r /\ b = s) <=> i = m * r + s
    <3>1. ASSUME i = m * r + s PROVE a = r /\ b = s
      <4>1. m * a + b = m * r + s
        BY <2>2, <3>1
      <4>2. /\ m \in Nat \ {0} /\ a \in Int /\ r \in Int
            /\ b \in 0 .. m - 1 /\ s \in 0 .. m - 1
        BY <2>2
      <4>3. QED
        BY ONLY <4>1, <4>2, QuotientUnique
    <3>2. QED
      BY <2>2, <3>1
  <2>7. f[a] * g[b] = IF a = r /\ b = s THEN c ELSE 0
    BY <2>5
  <2>8. QED
    BY <2>6, <2>7 DEF a, b
<1>3. OuterProduct(f, g, k, m) = [i \in 0 .. k * m - 1 |-> f[i \div m] * g[i % m]]
  BY DEF OuterProduct
<1>4. UnitVector(m * r + s, k * m, c) = [i \in 0 .. k * m - 1 |-> IF i = m * r + s THEN c ELSE 0]
  BY DEF UnitVector
<1> HIDE DEF f, g
<1>5. OuterProduct(f, g, k, m) = UnitVector(m * r + s, k * m, c)
  BY <1>2, <1>3, <1>4
<1>6. QED
  BY <1>5 DEF f, g

\* The vector of the bits a to b, counted from the highest of l.
SpanOf(x, c, l, a, b) == UnitVector((x \div 2^(l-1-b)) % 2^(b-a+1), 2^(b-a+1), c)

\* One bit.
LEMMA BitSpan ==
  ASSUME NEW x \in Nat, NEW c \in {0, 1}, NEW l \in Nat, NEW a \in 0 .. l - 1
  PROVE  [i \in {0, 1} |-> (IF i = 0 THEN 1 - Bit(x, l-1-a) ELSE Bit(x, l-1-a)) * c] = SpanOf(x, c, l, a, a)
<1> DEFINE bit == Bit(x, l-1-a)
<1>1. l-1-a \in Nat /\ a-a+1 = 1 /\ 2^1 = 2 /\ 0 .. 2 - 1 = {0, 1}
  OBVIOUS
<1>2. bit \in {0, 1} /\ bit = (x \div 2^(l-1-a)) % 2
  BY <1>1, NextBit DEF Bit
<1>3. SpanOf(x, c, l, a, a) = UnitVector(bit, 2, c)
  BY <1>1, <1>2 DEF SpanOf
<1> HIDE DEF bit
<1>4. UnitVector(bit, 2, c) = [i \in {0, 1} |-> IF i = bit THEN c ELSE 0]
  BY <1>1 DEF UnitVector
<1>5. \A i \in {0, 1} : (IF i = 0 THEN 1 - bit ELSE bit) * c = IF i = bit THEN c ELSE 0
  BY <1>2
<1>6. [i \in {0, 1} |-> (IF i = 0 THEN 1 - bit ELSE bit) * c] = UnitVector(bit, 2, c)
  BY <1>4, <1>5
<1>7. QED
  BY <1>3, <1>6 DEF bit

\* Two halves.
LEMMA SpansMultiply ==
  ASSUME NEW x \in Nat, NEW c \in {0, 1}, NEW l \in Nat, NEW a \in 0 .. l - 1, NEW b \in 0 .. l - 1,
         NEW mid \in Nat \ {0}, mid < b - a + 1
  PROVE  OuterProduct(SpanOf(x, c, l, a, a + mid - 1), SpanOf(x, c, l, a + mid, b), 2^mid, 2^(b - a + 1 - mid))
           = SpanOf(x, c, l, a, b)
<1> DEFINE size == b - a + 1
           rest == size - mid
           e == l - 1 - b
           y == x \div 2^e
           k == 2^mid
           m == 2^rest
           r == (y \div m) % k
           s == y % m
<1>1. /\ rest \in Nat /\ e \in Nat /\ l - 1 - (a + mid - 1) = e + rest
      /\ (a + mid - 1) - a + 1 = mid /\ b - (a + mid) + 1 = rest /\ rest + mid = size
  OBVIOUS
<1>2. k \in Nat \ {0} /\ m \in Nat \ {0} /\ 2^e \in Nat \ {0} /\ 2^(e + rest) = 2^e * m /\ 2^(rest + mid) = m * k
  BY <1>1, PowerIsPositive, PowerAdds
<1>3. y \in Nat
  BY <1>2, QuotientOfNatural
<1>4. x \div 2^(e + rest) = y \div m
  <2> DEFINE p == 2^e
  <2>1. p \in Nat \ {0} /\ m \in Nat \ {0}
    BY <1>2
  <2> HIDE DEF p, m
  <2>2. x \div (p * m) = (x \div p) \div m
    BY <2>1, RemainderOfProduct
  <2>3. QED
    BY <1>2, <2>2 DEF p
<1>5. y % (m * k) = m * r + s
  <2> HIDE DEF y, m, k
  <2>1. QED
    BY <1>2, <1>3, RemainderOfProduct
<1>6. SpanOf(x, c, l, a, a + mid - 1) = UnitVector(r, k, c)
  <2>1. SpanOf(x, c, l, a, a + mid - 1) = UnitVector((x \div 2^(e + rest)) % 2^mid, 2^mid, c)
    BY <1>1 DEF SpanOf
  <2>2. QED
    BY <1>4, <2>1
<1>7. SpanOf(x, c, l, a + mid, b) = UnitVector(s, m, c)
  BY <1>1 DEF SpanOf
<1>8. SpanOf(x, c, l, a, b) = UnitVector(m * r + s, k * m, c)
  <2>1. SpanOf(x, c, l, a, b) = UnitVector(y % 2^(rest + mid), 2^(rest + mid), c)
    BY <1>1 DEF SpanOf
  <2>2. m * k = k * m
    <3> HIDE DEF m, k
    <3>1. QED
      BY <1>2
  <2>3. QED
    BY <1>2, <1>5, <2>1, <2>2
<1>9. r \in 0 .. k - 1 /\ s \in 0 .. m - 1
  <2> HIDE DEF y, m, k
  <2>1. y \div m \in Int /\ y \in Int
    BY <1>2, <1>3, DivMod
  <2>2. QED
    BY <1>2, <2>1, DivMod
<1>10. OuterProduct(UnitVector(r, k, c), UnitVector(s, m, c), k, m) = UnitVector(m * r + s, k * m, c)
  <2> HIDE DEF r, s, m, k
  <2>1. k \in Nat \ {0} /\ m \in Nat \ {0} /\ r \in 0 .. k - 1 /\ s \in 0 .. m - 1 /\ c \in {0, 1}
    BY <1>2, <1>9
  <2>2. QED
    BY ONLY <2>1, ProductOfUnits
<1>11. QED
  BY <1>6, <1>7, <1>8, <1>10

\* A half of a span, which Launchburry takes first.
LEMMA HalfOf ==
  ASSUME NEW n \in Nat \ {0, 1}
  PROVE  n \div 2 \in Nat \ {0} /\ n \div 2 < n
OBVIOUS

LEMMA ProductsAreSpans ==
  ASSUME NEW x \in Nat, NEW c \in {0, 1}, NEW l \in Nat, NEW t \in Spans(l)
  PROVE  Products(x, c, l)[t] = SpanOf(x, c, l, t[1], t[2])
<1> DEFINE U(s) == SpanOf(x, c, l, s[1], s[2])
           one(s) == [i \in {0, 1} |-> (IF i = 0 THEN 1 - Bit(x, l-1-s[1]) ELSE Bit(x, l-1-s[1])) * c]
           size(s) == s[2] - s[1] + 1
           mid(s) == size(s) \div 2
           left(s) == <<s[1], s[1] + mid(s) - 1>>
           right(s) == <<s[1] + mid(s), s[2]>>
           Next1(p) == [s \in Spans(l) |-> IF s[1] = s[2] THEN one(s)
                          ELSE OuterProduct(p[left(s)], p[right(s)], 2^mid(s), 2^(size(s) - mid(s)))]
           d0 == [s \in Spans(l) |-> U(s)]
           v == Products(x, c, l)
<1>1. v = CHOOSE p : p = Next1(p)
  BY DEF Products
<1>2. ASSUME NEW s \in Spans(l)
      PROVE  s[1] \in 0 .. l-1 /\ s[2] \in 0 .. l-1 /\ s[1] <= s[2] /\ s = <<s[1], s[2]>>
  BY DEF Spans
<1>3. ASSUME NEW s \in Spans(l), s[1] = s[2] PROVE one(s) = U(s)
  BY <1>2, <1>3, BitSpan
<1>4. ASSUME NEW s \in Spans(l), s[1] # s[2]
      PROVE  /\ mid(s) \in Nat \ {0} /\ mid(s) < size(s)
             /\ left(s) \in Spans(l) /\ right(s) \in Spans(l)
             /\ left(s)[1] = s[1] /\ left(s)[2] = s[1] + mid(s) - 1
             /\ right(s)[1] = s[1] + mid(s) /\ right(s)[2] = s[2]
             /\ left(s)[2] - left(s)[1] < s[2] - s[1] /\ right(s)[2] - right(s)[1] < s[2] - s[1]
             /\ OuterProduct(U(left(s)), U(right(s)), 2^mid(s), 2^(size(s) - mid(s))) = U(s)
  <2>1. size(s) \in Nat \ {0, 1}
    BY <1>2, <1>4
  <2>2. mid(s) \in Nat \ {0} /\ mid(s) < size(s)
    <3> HIDE DEF size
    <3>1. QED
      BY <2>1, HalfOf
  <2> HIDE DEF mid
  <2>3. s[1] \in Int /\ s[2] \in Int /\ 0 <= s[1] /\ s[1] <= l-1 /\ 0 <= s[2] /\ s[2] <= l-1
    BY <1>2
  <2> DEFINE a == s[1]
             b == s[2]
  <2>4. /\ left(s) = <<a, a + mid(s) - 1>> /\ right(s) = <<a + mid(s), b>>
        /\ left(s)[1] = a /\ left(s)[2] = a + mid(s) - 1
        /\ right(s)[1] = a + mid(s) /\ right(s)[2] = b
    OBVIOUS
  <2> HIDE DEF a, b
  <2>5. /\ left(s)[1] \in 0 .. l-1 /\ left(s)[2] \in 0 .. l-1 /\ right(s)[1] \in 0 .. l-1 /\ right(s)[2] \in 0 .. l-1
        /\ left(s)[1] <= left(s)[2] /\ right(s)[1] <= right(s)[2]
        /\ left(s)[2] - left(s)[1] < b - a /\ right(s)[2] - right(s)[1] < b - a
    BY <2>2, <2>3, <2>4 DEF a, b
  <2>6. left(s) \in Spans(l) /\ right(s) \in Spans(l)
    BY <2>4, <2>5 DEF Spans
  <2>7. OuterProduct(U(left(s)), U(right(s)), 2^mid(s), 2^(size(s) - mid(s))) = U(s)
    <3> DEFINE m == mid(s)
    <3>1. m \in Nat \ {0} /\ m < b - a + 1 /\ a \in 0 .. l-1 /\ b \in 0 .. l-1
      BY <1>2, <2>2 DEF a, b
    <3>2. size(s) - m = b - a + 1 - m
      <4> HIDE DEF m
      <4>1. QED
        BY <2>3, <3>1 DEF a, b
    <3>3. U(left(s)) = SpanOf(x, c, l, a, a + m - 1) /\ U(right(s)) = SpanOf(x, c, l, a + m, b) /\ U(s) = SpanOf(x, c, l, a, b)
      BY <2>4 DEF a, b
    <3> HIDE DEF m
    <3>4. OuterProduct(SpanOf(x, c, l, a, a + m - 1), SpanOf(x, c, l, a + m, b), 2^m, 2^(b - a + 1 - m)) = SpanOf(x, c, l, a, b)
      BY <3>1, SpansMultiply
    <3>5. QED
      BY <3>2, <3>3, <3>4 DEF m
  <2>8. QED
    BY <2>2, <2>4, <2>5, <2>6, <2>7 DEF a, b
<1> HIDE DEF U, one, mid, size, left, right
<1>5. d0 = Next1(d0)
  <2>1. ASSUME NEW s \in Spans(l)
        PROVE  U(s) = IF s[1] = s[2] THEN one(s)
                      ELSE OuterProduct(d0[left(s)], d0[right(s)], 2^mid(s), 2^(size(s) - mid(s)))
    <3>1. CASE s[1] = s[2]
      BY <1>3, <3>1
    <3>2. CASE s[1] # s[2]
      <4>1. d0[left(s)] = U(left(s)) /\ d0[right(s)] = U(right(s))
        BY <1>4, <3>2
      <4>2. QED
        BY <1>4, <3>2, <4>1
    <3>3. QED
      BY <3>1, <3>2
  <2>2. QED
    BY <2>1
<1>6. v = Next1(v)
  <2> HIDE DEF Next1, d0, v
  <2>1. \E p : p = Next1(p)
    BY <1>5
  <2>2. QED
    BY <1>1, <2>1
<1> HIDE DEF v
<1> DEFINE S == {k \in Nat : \A s \in Spans(l) : s[2] - s[1] <= k => v[s] = U(s)}
<1>7. ASSUME NEW s \in Spans(l), s[1] = s[2] PROVE v[s] = U(s)
  BY <1>3, <1>6, <1>7
<1>8. 0 \in S
  <2>1. ASSUME NEW s \in Spans(l), s[2] - s[1] <= 0 PROVE v[s] = U(s)
    <3>1. s[1] = s[2]
      BY <1>2, <2>1
    <3>2. QED
      BY <1>7, <3>1
  <2>2. QED
    BY <2>1
<1>9. ASSUME NEW k \in Nat, k \in S PROVE k + 1 \in S
  <2>1. ASSUME NEW s \in Spans(l), s[2] - s[1] <= k + 1 PROVE v[s] = U(s)
    <3>1. CASE s[1] = s[2]
      BY <1>7, <3>1
    <3>2. CASE s[1] # s[2]
      <4>1. /\ left(s) \in Spans(l) /\ right(s) \in Spans(l)
            /\ left(s)[2] - left(s)[1] < s[2] - s[1] /\ right(s)[2] - right(s)[1] < s[2] - s[1]
        BY <1>4, <3>2
      <4>2. left(s)[2] - left(s)[1] <= k /\ right(s)[2] - right(s)[1] <= k
        BY <1>2, <2>1, <4>1
      <4>3. v[left(s)] = U(left(s)) /\ v[right(s)] = U(right(s))
        BY <1>9, <4>1, <4>2
      <4>4. v[s] = OuterProduct(v[left(s)], v[right(s)], 2^mid(s), 2^(size(s) - mid(s)))
        BY <1>6, <3>2
      <4>5. QED
        BY <1>4, <3>2, <4>3, <4>4
    <3>3. QED
      BY <3>1, <3>2
  <2>2. QED
    BY <2>1
<1>10. t[2] - t[1] \in Nat
  BY <1>2
<1>11. t[2] - t[1] \in S
  <2> HIDE DEF S
  <2>1. QED
    BY <1>8, <1>9, <1>10, Induction
<1>12. v[t] = U(t)
  BY <1>10, <1>11
<1>13. QED
  BY <1>12 DEF v, U

LEMMA LaunchburryDemuxes ==
  ASSUME NEW n \in Nat \ {0, 1}, NEW x \in 0 .. n-1, NEW c \in {0, 1}
  PROVE  launchburry(x, n, c) = UnitVector(x, n, c)
<1> DEFINE l == BitLength(n)
           k == 2^l
           t == <<0, l - 1>>
<1>1. l \in Nat \ {0} /\ k \in Nat /\ k >= n /\ x \in Nat
  BY BitsSuffice
<1>2. t \in Spans(l)
  <2> HIDE DEF l
  <2>1. 0 \in 0 .. l-1 /\ l - 1 \in 0 .. l-1 /\ 0 <= l - 1
    BY <1>1
  <2>2. QED
    BY <2>1 DEF Spans
<1>3. Products(x, c, l)[t] = SpanOf(x, c, l, 0, l - 1)
  <2> HIDE DEF l
  <2>1. Products(x, c, l)[t] = SpanOf(x, c, l, t[1], t[2])
    <3> HIDE DEF t
    <3>1. QED
      BY <1>1, <1>2, ProductsAreSpans
  <2>2. QED
    BY <2>1
<1>4. SpanOf(x, c, l, 0, l - 1) = UnitVector(x, k, c)
  <2> HIDE DEF l
  <2>1. l - 1 - (l - 1) = 0 /\ (l - 1) - 0 + 1 = l /\ 2^0 = 1 /\ x \div 1 = x
    BY <1>1
  <2>2. SpanOf(x, c, l, 0, l - 1) = UnitVector(x % k, k, c)
    BY <2>1 DEF SpanOf
  <2>3. x % k = x
    <3> HIDE DEF k
    <3>1. k \in Nat \ {0} /\ x \in 0 .. k - 1
      BY <1>1
    <3>2. QED
      BY <3>1, SmallRemainder
  <2>4. QED
    BY <2>2, <2>3
<1>5. launchburry(x, n, c) = Prefix(UnitVector(x, k, c), n)
  BY <1>3, <1>4 DEF launchburry
<1> HIDE DEF k, l
<1>6. n \in Nat /\ n <= k
  BY <1>1
<1>7. QED
  BY <1>1, <1>5, <1>6, PrefixOfUnit

(***************************************************************************)
(* All of them.                                                            *)
(***************************************************************************)

\* Every demultiplexer of a condition returns the unit vector of the index, or zeros,
\* for every length, index, word size, shuffle and mask.
LEMMA ResultIsUnitVector ==
  ASSUME call \in Calls, Demultiplex
  PROVE  DemuxIsUnitVector'
<1> DEFINE n == call.n
           x == call.x
           c == call.cond
<1>1. PICK n0 \in Sizes : call \in [n : {n0}, x : 0 .. n0-1, cond : {0, 1}, r : 0 .. 2^BitLength(n0) - 1,
                                    mask : 0 .. 2^BitLength(n0) - 1]
  BY DEF Calls
<1>2. /\ n = n0 /\ n \in Sizes /\ x \in 0 .. n-1 /\ c \in {0, 1}
      /\ call.r \in 0 .. 2^BitLength(n) - 1 /\ call.mask \in 0 .. 2^BitLength(n) - 1
  BY <1>1
<1>3. n \in Nat \ {0, 1}
  BY <1>2, DemuxAssumption
<1> DEFINE R(p) == CASE p = "without bitpacking" -> without_bitpacking(x, n, c)
                     [] p = "Keller"             -> keller_batch(x, n, c)
                     [] p = "Launchburry"        -> launchburry(x, n, c)
                     [] p = "comparison"         -> by_comparison(x, n)
                     [] p = "polynomials"        -> by_polynomials(x, n, c)
                     [] p = "shuffle and reveal" -> by_shuffle_reveal(x, n, c, call.r, call.mask)
<1>4. result' = [p \in Protocols |-> R(p)] /\ call' = call
  BY DEF Demultiplex
<1> HIDE DEF n, x, c
<1>5. /\ without_bitpacking(x, n, c) = UnitVector(x, n, c)
      /\ keller_batch(x, n, c) = UnitVector(x, n, c)
      /\ launchburry(x, n, c) = UnitVector(x, n, c)
      /\ by_comparison(x, n) = UnitVector(x, n, 1)
      /\ by_polynomials(x, n, c) = UnitVector(x, n, c)
      /\ by_shuffle_reveal(x, n, c, call.r, call.mask) = UnitVector(x, n, c)
  BY <1>2, <1>3, WithoutBitpackingDemuxes, KellerDemuxes, LaunchburryDemuxes, ComparisonDemuxes,
     PolynomialsDemux, ShuffleDemuxes
<1>6. /\ R("comparison") = UnitVector(x, n, 1)
      /\ \A p \in Protocols \ {"comparison"} : R(p) = UnitVector(x, n, c)
  BY <1>5 DEF Protocols
<1>7. "comparison" \in Protocols
  BY DEF Protocols
<1> HIDE DEF R
<1>8. /\ result'["comparison"] = UnitVector(x, n, 1)
      /\ \A p \in Protocols \ {"comparison"} : result'[p] = UnitVector(x, n, c)
  BY <1>4, <1>6, <1>7
<1>9. QED
  BY <1>4, <1>8 DEF DemuxIsUnitVector, n, x, c

DemuxInv == call \in Calls /\ DemuxIsUnitVector

\* The doubling demultiplexers, packed into one word, several words or none, Keller's batch
\* variant and the unbatched polynomials return the unit vector of the index if their
\* condition holds and zeros if not, and the comparison protocol returns the unit vector
\* when it is called without a condition.  The other variants of these three are left out.
THEOREM DemuxesAgree == DemuxSpec => []DemuxIsUnitVector
<1>1. DemuxInit => DemuxInv
  BY DEF DemuxInit, DemuxInv, DemuxIsUnitVector
<1>2. DemuxInv /\ [Demultiplex]_demuxVars => DemuxInv'
  <2>1. ASSUME DemuxInv, Demultiplex PROVE DemuxInv'
    <3>1. call \in Calls
      BY <2>1 DEF DemuxInv
    <3>2. DemuxIsUnitVector'
      BY <2>1, <3>1, ResultIsUnitVector
    <3>3. call' = call
      BY <2>1 DEF Demultiplex
    <3>4. QED
      BY <3>1, <3>2, <3>3 DEF DemuxInv, Calls
  <2>2. ASSUME DemuxInv, UNCHANGED demuxVars PROVE DemuxInv'
    BY <2>2 DEF DemuxInv, DemuxIsUnitVector, demuxVars, Calls, UnitVector
  <2>3. QED
    BY <2>1, <2>2
<1>3. DemuxInv => DemuxIsUnitVector
  BY DEF DemuxInv
<1>4. QED
  BY <1>1, <1>2, <1>3, PTL DEF DemuxSpec
===============================================================================
