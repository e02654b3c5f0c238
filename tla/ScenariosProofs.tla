--------------------------- MODULE ScenariosProofs ---------------------------
(***************************************************************************)
(* What a black-box scenario concludes, for every budget of the polls and  *)
(* every number of shards.  The argument has two halves.  One is about any *)
(* script: if the reads of the script come when what they look for can be  *)
(* seen, then no run of it fails without a cause, passes over the faults   *)
(* it is documented to catch, or leaves a job behind.  The other goes      *)
(* through the scripts and finds that each one is such a script.           *)
(***************************************************************************)
EXTENDS Scenarios, SequenceTheorems, TLAPS

-----------------------------------------------------------------------------
\* A script and its plot: told[i] is what a server without a fault shows before step
\* i, and due[i] what it has acknowledged and may not show yet.

Standing == {"secret", "scrapes"}    \* what every server shows from the start
Judged   == {"check", "note", "try", "refused"}
Jobs     == {"backfill", "txn_open"}

Steps(s)   == 1..Len(s)
Same(a, b) == \A f : f \in a <=> f \in b
Empty(a)   == \A f : f \notin a

Opens(s, told, due) ==
    /\ Len(s) \in Nat
    /\ Same(told[1], Standing) /\ Empty(due[1])
    /\ \A i \in Steps(s) : s[i].op \in Judged \cup {"open", "do", "poll"}

Reads(s, told, due) ==
    \A i \in Steps(s) : s[i].op \in Judged \cup {"open"} =>
        Same(told[i + 1], told[i]) /\ Same(due[i + 1], due[i])

\* A call is made when nothing is due.
Calls(s, told, due) ==
    \A i \in Steps(s) : s[i].op = "do" =>
        /\ Empty(due[i])
        /\ \A f : f \in told[i + 1] <=>
                    IF f \in DOMAIN s[i].facts THEN s[i].facts[f] ELSE f \in told[i]

Acks(s, due) ==
    \A i \in Steps(s) : s[i].op = "do" =>
        /\ Same(DOMAIN s[i].later, due[i + 1])
        /\ \A f \in due[i + 1] : s[i].later[f]
        /\ s[i].later = [f \in DOMAIN s[i].later |-> s[i].later[f]]

\* A poll that ends well has seen one of the facts that were due, so all of them came.
Waits(s, told, due) ==
    \A i \in Steps(s) : s[i].op = "poll" =>
        /\ Empty(due[i + 1])
        /\ \A f : f \in told[i + 1] <=> f \in told[i] \/ f \in due[i]
        /\ Empty(due[i]) \/ \E f \in due[i] \cap DOMAIN s[i].facts : s[i].facts[f]

\* What is due cannot be taken for something older.
Fresh(s, told, due) ==
    \A i \in 1..(Len(s) + 1) : \A f : f \in due[i] => f \notin told[i]

Plays(s, told, due) ==
    /\ Opens(s, told, due) /\ Reads(s, told, due) /\ Calls(s, told, due)
    /\ Acks(s, due) /\ Waits(s, told, due) /\ Fresh(s, told, due)

\* The script asks for what it has told the server to show, and for nothing due.
Truthful(s, told, due) ==
    \A i \in Steps(s) : s[i].op \in Judged =>
        \A f \in DOMAIN s[i].facts :
            /\ f # "none"
            /\ f \notin due[i]
            /\ IF f \in told[i] THEN s[i].facts[f] = TRUE ELSE s[i].facts[f] = FALSE

\* Step i does not agree with a server where f is stuck at v.
Exposes(s, due, i, f, v) ==
    /\ s[i].op \in {"check", "note", "try", "poll"}
    /\ f \in DOMAIN s[i].facts
    /\ ~(s[i].facts[f] <=> v)
    /\ Empty(due[i + 1])

Catches(s, due, caught) ==
    \A f \in DOMAIN caught : \E i \in Steps(s) : Exposes(s, due, i, f, caught[f])

Clears(s, told, due) ==
    \A job \in Jobs : job \notin told[Len(s) + 1] /\ job \notin due[Len(s) + 1]

Sound(name, told, due) ==
    /\ Plays(Script[name], told, due)
    /\ Truthful(Script[name], told, due)
    /\ Catches(Script[name], due, Documented[name])
    /\ Clears(Script[name], told, due)

Rehearsed(name) == \E told, due : Sound(name, told, due)

-----------------------------------------------------------------------------
\* The invariant: while no check has failed, the world is where the plot says.

Holds(f) == f \in DOMAIN world /\ world[f]

Derived(told, due) ==
    /\ pending = Nothing
    /\ \A f : Holds(f) <=> f \in told[at] \/ f \in due[at]

Deriving(told, due) ==
    /\ pending # Nothing
    /\ Same(DOMAIN pending, due[at])
    /\ \A f \in due[at] : pending[f]
    /\ pending = [f \in DOMAIN pending |-> pending[f]]
    /\ \A f : Holds(f) <=> f \in told[at]

Scene ==
    /\ scenario \in DOMAIN Script
    /\ at \in 1..(Len(steps) + 1)
    /\ stage \in {"run", "close", "done"}
    /\ good \in BOOLEAN

\* No step behind the scenario exposes the server's fault.
Unexposed(due) ==
    \A i \in 1..(at - 1) : ~Exposes(steps, due, i, fault.fact, fault.value)

Caused == ~good => fault # NoFault \/ lost \/ spent

ScenesInv(told, due) ==
    /\ Scene
    /\ Sound(scenario, told, due)
    /\ good => Derived(told, due) \/ Deriving(told, due)
    /\ good /\ stage # "run" => at = Len(steps) + 1
    /\ good => Unexposed(due)
    /\ Caused

Closes == stage = "done" /\ ~lost => open = {}

-----------------------------------------------------------------------------
\* Nothing is the only function without facts.
LEMMA NothingIsEmpty ==
    /\ DOMAIN Nothing = {}
    /\ \A g : DOMAIN g = {} /\ g = [f \in DOMAIN g |-> g[f]] => g = Nothing
BY DEF Nothing

\* A read that changes nothing keeps the world where the plot says.
LEMMA ReadAdvances ==
    ASSUME NEW told, NEW due, ScenesInv(told, due), good, at \in Steps(steps),
           step.op \in Judged \cup {"open"},
           at' = at + 1, UNCHANGED <<scenario, world, pending>>
    PROVE  (Derived(told, due) \/ Deriving(told, due))'
<1>1. Same(told[at + 1], told[at]) /\ Same(due[at + 1], due[at])
  BY DEF ScenesInv, Sound, Plays, Reads, steps, step
<1>2. CASE Derived(told, due)
  BY <1>1, <1>2 DEF Derived, Holds, Same
<1>3. CASE Deriving(told, due)
  BY <1>1, <1>3 DEF Deriving, Holds, Same
<1> QED
  BY <1>2, <1>3 DEF ScenesInv

\* So does a poll that ends well: had nothing been derived yet, the fact it waits for
\* would not have shown.
LEMMA MatchAdvances ==
    ASSUME NEW told, NEW due, ScenesInv(told, due), good, at \in Steps(steps),
           step.op \in Judged \cup {"poll"}, Matches(step.facts),
           at' = at + 1, UNCHANGED <<scenario, world, pending>>
    PROVE  (Derived(told, due) \/ Deriving(told, due))'
<1>1. CASE step.op \in Judged
  BY <1>1, ReadAdvances
<1>2. CASE step.op = "poll"
  <2>1. /\ Empty(due[at + 1])
        /\ \A f : f \in told[at + 1] <=> f \in told[at] \/ f \in due[at]
        /\ Empty(due[at]) \/ \E f \in due[at] \cap DOMAIN step.facts : step.facts[f]
    BY <1>2 DEF ScenesInv, Sound, Plays, Waits, steps, step
  <2>2. CASE Derived(told, due)
    BY <2>1, <2>2 DEF Derived, Holds, Empty
  <2>3. CASE Deriving(told, due)
    <3>1. ~Empty(due[at])
      BY <2>3, NothingIsEmpty DEF Deriving, Same, Empty
    <3>2. PICK f \in due[at] \cap DOMAIN step.facts : step.facts[f]
      BY <2>1, <3>1
    <3>3. f \notin told[at]
      BY <3>2 DEF ScenesInv, Sound, Plays, Fresh, Scene, steps
    <3>4. ~Seen(f)
      BY <2>3, <3>3 DEF Deriving, Holds, Seen
    <3> QED
      BY <3>2, <3>4 DEF Matches
  <2> QED
    BY <2>2, <2>3 DEF ScenesInv
<1> QED
  BY <1>1, <1>2

\* No agreement is had on a step that exposes the fault: by then all is derived, and
\* the fault shows.
LEMMA MatchExposes ==
    ASSUME NEW told, NEW due, ScenesInv(told, due), good, at \in Steps(steps),
           step.op \in Judged \cup {"poll"}, Matches(step.facts),
           at' = at + 1, UNCHANGED <<scenario, fault, world, pending>>
    PROVE  Unexposed(due)'
<1>1. ~Exposes(steps, due, at, fault.fact, fault.value)
  <2>1. SUFFICES ASSUME Exposes(steps, due, at, fault.fact, fault.value)
                 PROVE  FALSE
    OBVIOUS
  <2>2. pending = Nothing
    <3>1. (Derived(told, due) \/ Deriving(told, due))'
      BY MatchAdvances
    <3>2. ~Deriving(told, due)'
      BY <2>1, NothingIsEmpty DEF Exposes, Deriving, Same, Empty
    <3> QED
      BY <3>1, <3>2 DEF Derived
  <2>3. Seen(fault.fact) = step.facts[fault.fact]
    BY <2>1 DEF Exposes, Matches, step
  <2> QED
    BY <2>1, <2>2, <2>3 DEF Exposes, Seen, step
<1>2. \A i \in 1..(at - 1) : ~Exposes(steps, due, i, fault.fact, fault.value)
  BY DEF ScenesInv, Unexposed
<1>3. at \in Nat
  BY DEF Steps
<1> QED
  BY <1>1, <1>2, <1>3 DEF Unexposed, steps

\* A server without a fault is never read otherwise than the script expects.
LEMMA Misread ==
    ASSUME NEW told, NEW due, ScenesInv(told, due), good, at \in Steps(steps),
           step.op \in Judged, fault = NoFault
    PROVE  Matches(step.facts)
<1>1. SUFFICES ASSUME NEW f \in DOMAIN step.facts
               PROVE  Seen(f) = step.facts[f]
  BY DEF Matches
<1>2. /\ f # "none" /\ f \notin due[at]
      /\ IF f \in told[at] THEN step.facts[f] = TRUE ELSE step.facts[f] = FALSE
  BY DEF ScenesInv, Sound, Truthful, step, steps
<1>3. Seen(f) = Holds(f)
  BY <1>2 DEF Seen, Holds, NoFault
<1>4. Holds(f) <=> f \in told[at]
  BY <1>2 DEF ScenesInv, Derived, Deriving
<1>5. Holds(f) \in BOOLEAN
  BY DEF Holds
<1> QED
  BY <1>2, <1>3, <1>4, <1>5

\* The parts of the invariant that speak of the whole scenario.
LEMMA SceneFrame ==
    ASSUME NEW told, NEW due, ScenesInv(told, due), [ScenariosNext]_scenarioVars
    PROVE  /\ UNCHANGED <<scenario, fault>>
           /\ Sound(scenario, told, due)'
           /\ Scene'
           /\ Caused'
<1>1. UNCHANGED <<scenario, fault>>
  BY DEF ScenariosNext, RunScenario, ScenarioDone, scenarioVars, Connect, Act, Agree, Remember,
     Mismatch, PollAgain, PollOut, CallFails, AnswerFails, RunEnds, Close, CloseFails, Verdict,
     Derive, Advance
<1>2. Sound(scenario, told, due)'
  BY <1>1 DEF ScenesInv, Sound
<1>3. Len(steps) \in Nat
  BY DEF ScenesInv, Sound, Plays, Opens, steps
<1>4. Scene'
  <2>1. stage' \in {"run", "close", "done"} /\ good' \in BOOLEAN
    BY DEF ScenesInv, Scene, ScenariosNext, RunScenario, ScenarioDone, scenarioVars, Connect, Act,
       Agree, Remember, Mismatch, PollAgain, PollOut, CallFails, AnswerFails, RunEnds, Close,
       CloseFails, Verdict, Derive, Advance
  <2>2. \/ at' = at
        \/ at' = at + 1 /\ at <= Len(steps)
    BY DEF ScenariosNext, RunScenario, ScenarioDone, scenarioVars, Connect, Act,
       Agree, Remember, Mismatch, PollAgain, PollOut, CallFails, AnswerFails, RunEnds, Close,
       CloseFails, Verdict, Derive, Advance, AtStep
  <2> QED
    BY <1>1, <1>3, <2>1, <2>2 DEF ScenesInv, Scene, steps
<1>5. Caused'
  <2>1. SUFFICES ASSUME ~good', fault = NoFault
                 PROVE  lost' \/ spent'
    BY <1>1 DEF Caused
  <2>2. CASE ~good
    <3>1. lost \/ spent
      BY <2>1, <2>2 DEF ScenesInv, Caused
    <3>2. (lost => lost') /\ (spent => spent')
      BY DEF ScenariosNext, RunScenario, ScenarioDone, scenarioVars, Connect, Act,
         Agree, Remember, Mismatch, PollAgain, PollOut, CallFails, AnswerFails, RunEnds, Close,
         CloseFails, Verdict, Derive, Advance
    <3> QED
      BY <3>1, <3>2
  <2>3. CASE good
    <3>1. Remember \/ Mismatch \/ PollOut \/ CallFails \/ AnswerFails \/ CloseFails
      BY <2>1, <2>3 DEF ScenariosNext, RunScenario, ScenarioDone, scenarioVars, Connect, Act,
         Agree, PollAgain, RunEnds, Close, Verdict, Derive, Advance
    <3>2. PollOut \/ CallFails \/ AnswerFails \/ CloseFails => lost' \/ spent'
      BY DEF PollOut, CallFails, AnswerFails, CloseFails
    <3>3. ASSUME Remember \/ Mismatch
          PROVE  FALSE
      <4>1. at \in Steps(steps) /\ step.op \in Judged /\ ~Matches(step.facts)
        BY <1>3, <3>3 DEF Remember, Mismatch, AtStep, Judged, Steps, ScenesInv, Scene
      <4> QED
        BY <2>1, <2>3, <4>1, Misread
    <3> QED
      BY <3>1, <3>2, <3>3
  <2> QED
    BY <2>2, <2>3
<1> QED
  BY <1>1, <1>2, <1>4, <1>5

\* Derivation brings about what was due.
LEMMA DeriveKeeps ==
    ASSUME NEW told, NEW due, ScenesInv(told, due), good, Derive
    PROVE  Derived(told, due)'
<1>1. Deriving(told, due)
  BY DEF ScenesInv, Derived, Derive
<1>2. /\ DOMAIN world' = DOMAIN world \cup DOMAIN pending
      /\ \A f \in DOMAIN world' : world'[f] = IF f \in DOMAIN pending THEN pending[f] ELSE world[f]
  BY DEF Derive, Updated
<1>3. \A f : Holds(f)' <=> f \in due[at] \/ Holds(f)
  BY <1>1, <1>2 DEF Deriving, Same, Holds
<1> QED
  BY <1>1, <1>3 DEF Derive, Derived, Deriving

\* A call does what the plot says of it.
LEMMA ActKeeps ==
    ASSUME NEW told, NEW due, ScenesInv(told, due), good, Act
    PROVE  (Derived(told, due) \/ Deriving(told, due))'
<1>1. at \in Steps(steps) /\ step.op = "do" /\ at' = at + 1 /\ scenario' = scenario
  BY DEF ScenesInv, Scene, Sound, Plays, Opens, Act, AtStep, Advance, Steps, steps
<1>2. /\ Empty(due[at])
      /\ \A f : f \in told[at + 1] <=>
                  IF f \in DOMAIN step.facts THEN step.facts[f] ELSE f \in told[at]
      /\ Same(DOMAIN step.later, due[at + 1])
      /\ \A f \in due[at + 1] : step.later[f]
      /\ step.later = [f \in DOMAIN step.later |-> step.later[f]]
  BY <1>1 DEF ScenesInv, Sound, Plays, Calls, Acks, step, steps
<1>3. Derived(told, due)
  BY <1>2, NothingIsEmpty DEF ScenesInv, Deriving, Same, Empty
<1>4. /\ DOMAIN world' = DOMAIN world \cup DOMAIN step.facts
      /\ \A f \in DOMAIN world' :
           world'[f] = IF f \in DOMAIN step.facts THEN step.facts[f] ELSE world[f]
  BY DEF Act, Updated
<1>5. \A f : Holds(f)' <=> f \in told[at + 1]
  BY <1>2, <1>3, <1>4 DEF Derived, Holds, Empty
<1>6. pending' = [f \in DOMAIN step.later |-> step.later[f]]
  BY <1>3, NothingIsEmpty DEF Act, Updated, Derived
<1>7. pending' = step.later
  BY <1>2, <1>6
<1>8. CASE step.later = Nothing
  <2>1. Empty(due[at + 1])
    BY <1>2, <1>8, NothingIsEmpty DEF Same, Empty
  <2> QED
    BY <1>1, <1>5, <1>7, <1>8, <2>1 DEF Derived, Empty
<1>9. CASE step.later # Nothing
  BY <1>1, <1>2, <1>5, <1>7, <1>9 DEF Deriving
<1> QED
  BY <1>8, <1>9

\* Every step keeps the invariant.
LEMMA StepKeeps ==
    ASSUME NEW told, NEW due, ScenesInv(told, due), [ScenariosNext]_scenarioVars
    PROVE  ScenesInv(told, due)'
<1>1. /\ scenario' = scenario /\ fault' = fault /\ steps' = steps
      /\ Sound(scenario, told, due)' /\ Scene' /\ Caused'
  BY SceneFrame DEF steps
<1>2. SUFFICES ASSUME good'
               PROVE  /\ (Derived(told, due) \/ Deriving(told, due))'
                      /\ (stage # "run" => at = Len(steps) + 1)'
                      /\ Unexposed(due)'
  BY <1>1 DEF ScenesInv
<1>3. good
  BY <1>2 DEF ScenariosNext, RunScenario, ScenarioDone, scenarioVars, Connect, Act, Agree, Remember,
     Mismatch, PollAgain, PollOut, CallFails, AnswerFails, RunEnds, Close, CloseFails, Verdict,
     Derive, Advance
<1>4. /\ Derived(told, due) \/ Deriving(told, due)
      /\ stage # "run" => at = Len(steps) + 1
      /\ Unexposed(due)
      /\ Len(steps) \in Nat /\ at \in 1..(Len(steps) + 1)
  BY <1>3 DEF ScenesInv, Scene, Sound, Plays, Opens, steps
<1>5. CASE UNCHANGED <<at, world, pending>>
  <2>1. stage' # "run" => at' = Len(steps)' + 1
    BY <1>1, <1>2, <1>4, <1>5 DEF ScenariosNext, RunScenario, ScenarioDone, scenarioVars, Connect,
       Act, Agree, Remember, Mismatch, PollAgain, PollOut, CallFails, AnswerFails, RunEnds, Close,
       CloseFails, Verdict, Derive, Advance
  <2> QED
    BY <1>1, <1>4, <1>5, <2>1 DEF Derived, Deriving, Holds, Unexposed
<1>6. CASE Derive
  BY <1>1, <1>3, <1>4, <1>6, DeriveKeeps DEF Derive, Unexposed
<1>7. ASSUME at' = at + 1, at \in Steps(steps), stage' = "run",
             ~Exposes(steps, due, at, fault.fact, fault.value)
      PROVE  Unexposed(due)' /\ (stage # "run" => at = Len(steps) + 1)'
  BY <1>1, <1>4, <1>7 DEF Unexposed
<1>8. CASE Connect
  <2>1. /\ at' = at + 1 /\ at \in Steps(steps) /\ stage' = "run" /\ step.op = "open"
        /\ UNCHANGED <<world, pending>>
    BY <1>4, <1>8 DEF Connect, AtStep, Advance, Steps
  <2>2. ~Exposes(steps, due, at, fault.fact, fault.value)
    BY <2>1 DEF Exposes, step
  <2> QED
    BY <1>1, <1>3, <1>7, <2>1, <2>2, ReadAdvances
<1>9. CASE Act
  <2>1. at' = at + 1 /\ at \in Steps(steps) /\ stage' = "run" /\ step.op = "do"
    BY <1>4, <1>9 DEF Act, AtStep, Advance, Steps
  <2>2. ~Exposes(steps, due, at, fault.fact, fault.value)
    BY <2>1 DEF Exposes, step
  <2> QED
    BY <1>3, <1>7, <1>9, <2>1, <2>2, ActKeeps
<1>10. CASE Agree
  <2>1. /\ at' = at + 1 /\ at \in Steps(steps) /\ stage' = "run"
        /\ step.op \in Judged \cup {"poll"} /\ Matches(step.facts)
        /\ UNCHANGED <<world, pending>>
    BY <1>4, <1>10 DEF Agree, Advance, Steps, Judged
  <2>2. (Derived(told, due) \/ Deriving(told, due))'
    BY <1>1, <1>3, <2>1, MatchAdvances
  <2>3. Unexposed(due)'
    BY <1>1, <1>3, <2>1, MatchExposes
  <2> QED
    BY <2>1, <2>2, <2>3
<1>11. CASE AnswerFails
  <2>1. /\ at' = at + 1 /\ at \in Steps(steps) /\ stage' = "run" /\ step.op = "refused"
        /\ UNCHANGED <<world, pending>>
    <3>1. step.op = "refused"
      BY <1>2, <1>3, <1>11 DEF AnswerFails
    <3> QED
      BY <1>4, <1>11, <3>1 DEF AnswerFails, AtStep, Advance, Steps
  <2>2. ~Exposes(steps, due, at, fault.fact, fault.value)
    BY <2>1 DEF Exposes, step
  <2>3. step.op \in Judged
    BY <2>1 DEF Judged
  <2> QED
    BY <1>1, <1>3, <1>7, <2>1, <2>2, <2>3, ReadAdvances
<1>12. CASE Remember \/ Mismatch \/ PollOut \/ CallFails \/ CloseFails
  BY <1>2, <1>12 DEF Remember, Mismatch, PollOut, CallFails, CloseFails
<1>13. CASE PollAgain \/ RunEnds \/ Close \/ Verdict \/ ScenarioDone \/ UNCHANGED scenarioVars
  BY <1>5, <1>13 DEF PollAgain, RunEnds, Close, Verdict, ScenarioDone, scenarioVars
<1> QED
  BY <1>6, <1>8, <1>9, <1>10, <1>11, <1>12, <1>13 DEF ScenariosNext, RunScenario

\* The plot starts where the scenario does.
LEMMA FirstScene ==
    ASSUME ScenariosInit, NEW told, NEW due, Sound(scenario, told, due)
    PROVE  ScenesInv(told, due)
<1>1. Same(told[1], Standing) /\ Empty(due[1]) /\ Len(steps) \in Nat
  BY DEF Sound, Plays, Opens, steps
<1>2. Derived(told, due)
  <2>1. /\ DOMAIN world = Standing
        /\ world["secret"] /\ world["scrapes"]
    BY DEF ScenariosInit, Standing
  <2>2. \A f : Holds(f) <=> f \in Standing
    BY <2>1 DEF Holds, Standing
  <2> QED
    BY <1>1, <2>2 DEF ScenariosInit, Derived, Empty, Same
<1>3. Scene
  <2>1. scenario \in DOMAIN Script /\ at = 1 /\ stage = "run" /\ good = TRUE
    BY DEF ScenariosInit
  <2>2. at \in 1..(Len(steps) + 1)
    BY <1>1, <2>1
  <2> QED
    BY <2>1, <2>2 DEF Scene
<1> QED
  BY <1>2, <1>3 DEF ScenariosInit, ScenesInv, Unexposed, Caused

\* What the invariant says of the verdict.
LEMMA FinalScene ==
    ASSUME NEW told, NEW due, ScenesInv(told, due), Closes
    PROVE  /\ FaultsAreCaught
           /\ PassLeavesNothing
           /\ HealthyServerPasses
<1>1. HealthyServerPasses
  BY DEF ScenesInv, Caused, HealthyServerPasses
<1>2. FaultsAreCaught
  <2>1. SUFFICES ASSUME Passed, fault.fact \in DOMAIN Documented[scenario],
                        Documented[scenario][fault.fact] = fault.value
                 PROVE  FALSE
    BY DEF FaultsAreCaught
  <2>2. PICK i \in Steps(steps) : Exposes(steps, due, i, fault.fact, fault.value)
    BY <2>1 DEF ScenesInv, Sound, Catches, steps
  <2>3. at = Len(steps) + 1 /\ Len(steps) \in Nat
    BY <2>1 DEF ScenesInv, Passed, Sound, Plays, Opens, steps
  <2> QED
    BY <2>1, <2>2, <2>3 DEF ScenesInv, Passed, Unexposed, Steps
<1>3. ASSUME Passed, NEW job \in Jobs
      PROVE  ~Holds(job)
  <2>1. at = Len(steps) + 1 /\ (Derived(told, due) \/ Deriving(told, due))
    BY <1>3 DEF ScenesInv, Passed
  <2>2. job \notin told[at] /\ job \notin due[at]
    BY <2>1 DEF ScenesInv, Sound, Clears, steps
  <2> QED
    BY <2>1, <2>2 DEF Derived, Deriving
<1> QED
  BY <1>1, <1>2, <1>3 DEF PassLeavesNothing, Closes, Holds, Jobs

-----------------------------------------------------------------------------
\* The scripts.  Most acknowledge nothing before it is done, and nothing is ever due.

PlainPlays(s, told) ==
    /\ Same(told[1], Standing)
    /\ \A i \in Steps(s) : s[i].op \in {"open", "do", "check", "note", "try", "refused"}
    /\ \A i \in Steps(s) : s[i].op # "do" => Same(told[i + 1], told[i])
    /\ \A i \in Steps(s) : s[i].op = "do" =>
          /\ s[i].later = Nothing
          /\ \A f : f \in told[i + 1] <=>
                      IF f \in DOMAIN s[i].facts THEN s[i].facts[f] ELSE f \in told[i]

PlainTruth(s, told) ==
    \A i \in Steps(s) : s[i].op \in Judged =>
        \A f \in DOMAIN s[i].facts :
            /\ f # "none"
            /\ IF f \in told[i] THEN s[i].facts[f] = TRUE ELSE s[i].facts[f] = FALSE

PlainCatches(s, caught) ==
    \A f \in DOMAIN caught : \E i \in Steps(s) :
        /\ s[i].op \in {"check", "note", "try"}
        /\ f \in DOMAIN s[i].facts
        /\ ~(s[i].facts[f] <=> caught[f])

PlainClears(s, told) == \A job \in Jobs : job \notin told[Len(s) + 1]

LEMMA PlainRehearsed ==
    ASSUME NEW name, NEW told,
           Len(Script[name]) \in Nat,
           PlainPlays(Script[name], told),
           PlainTruth(Script[name], told),
           PlainCatches(Script[name], Documented[name]),
           PlainClears(Script[name], told)
    PROVE  Rehearsed(name)
<1> DEFINE s == Script[name]
           due == [i \in 1..(Len(s) + 1) |-> {}]
<1>1. /\ Empty(due[1])
      /\ \A i \in Steps(s) : Empty(due[i]) /\ Empty(due[i + 1])
  BY DEF Empty, Steps
<1>2. \A i \in 1..(Len(s) + 1) : due[i] = {}
  OBVIOUS
<1> HIDE DEF due, s
<1>3. Opens(s, told, due)
  BY <1>1 DEF Opens, PlainPlays, Judged, s
<1>4. Reads(s, told, due)
  BY <1>1 DEF Reads, PlainPlays, Judged, Same, Empty, s
<1>5. Calls(s, told, due)
  BY <1>1 DEF Calls, PlainPlays, s
<1>6. Acks(s, due)
  BY <1>1, NothingIsEmpty DEF Acks, PlainPlays, Same, Empty, Nothing, s
<1>7. Waits(s, told, due) /\ Fresh(s, told, due)
  BY <1>2 DEF Waits, Fresh, PlainPlays, Steps, s
<1>8. Truthful(s, told, due)
  BY <1>1 DEF Truthful, PlainTruth, Empty, s
<1>9. Catches(s, due, Documented[name])
  BY <1>1 DEF Catches, PlainCatches, Exposes, s
<1>10. Clears(s, told, due)
  BY <1>2 DEF Clears, PlainClears, s
<1> QED
  BY <1>3, <1>4, <1>5, <1>6, <1>7, <1>8, <1>9, <1>10 DEF Rehearsed, Sound, Plays, s

LEMMA MultiSpaceIsolationRehearsed == Rehearsed("multi_space_isolation")
<1> DEFINE s == Script["multi_space_isolation"]
           told == [i \in 1..6 |-> Standing \cup (IF i < 4 THEN {} ELSE {"a_reads"})]
<1>1. /\ Len(s) = 5
      /\ s[1] = Open("A") /\ s[2] = Open("B") /\ s[3] = Do([a_reads |-> TRUE])
      /\ s[4] = Note([b_reads |-> FALSE]) /\ s[5] = Note([a_reads |-> TRUE])
  BY DEF Script, MultiSpaceIsolation
<1>2. Documented["multi_space_isolation"] = [b_reads |-> TRUE, a_reads |-> FALSE]
  BY DEF Documented
<1> HIDE DEF s
<1>3. PlainPlays(s, told)
  BY <1>1, NothingIsEmpty DEF PlainPlays, Steps, Same, Standing, Do, Note, Open
<1>4. PlainTruth(s, told) /\ PlainClears(s, told)
  BY <1>1, NothingIsEmpty DEF PlainTruth, PlainClears, Jobs, Steps, Judged, Standing, Do,
     Note, Open
<1>5. PlainCatches(s, Documented["multi_space_isolation"])
  BY <1>1, <1>2, NothingIsEmpty DEF PlainCatches, Steps, Do, Note, Open
<1>6. Len(s) \in Nat
  BY <1>1
<1> HIDE DEF told
<1> QED
  BY <1>3, <1>4, <1>5, <1>6, PlainRehearsed DEF s

LEMMA PlanReasonIsolationRehearsed == Rehearsed("plan_reason_isolation")
<1> DEFINE s == Script["plan_reason_isolation"]
           told == [i \in 1..7 |-> Standing \cup (IF i < 4 THEN {} ELSE {"a_reads"})]
<1>1. /\ Len(s) = 6
      /\ s[1] = Open("A") /\ s[2] = Open("B") /\ s[3] = Do([a_reads |-> TRUE])
      /\ s[4] = Check([a_reads |-> TRUE]) /\ s[5] = Check([b_plans |-> FALSE])
      /\ s[6] = Check([b_reasons |-> FALSE])
  BY DEF Script, PlanReasonIsolation
<1>2. Documented["plan_reason_isolation"] =
        [b_plans |-> TRUE, b_reasons |-> TRUE, a_reads |-> FALSE]
  BY DEF Documented
<1> HIDE DEF s
<1>3. PlainPlays(s, told)
  BY <1>1, NothingIsEmpty DEF PlainPlays, Steps, Same, Standing, Check, Do, Open
<1>4. PlainTruth(s, told) /\ PlainClears(s, told)
  BY <1>1, NothingIsEmpty DEF PlainTruth, PlainClears, Jobs, Steps, Judged, Standing, Check,
     Do, Open
<1>5. PlainCatches(s, Documented["plan_reason_isolation"])
  BY <1>1, <1>2, NothingIsEmpty DEF PlainCatches, Steps, Check, Do, Open
<1>6. Len(s) \in Nat
  BY <1>1
<1> HIDE DEF told
<1> QED
  BY <1>3, <1>4, <1>5, <1>6, PlainRehearsed DEF s

LEMMA EncodeRecallForgetRehearsed == Rehearsed("encode_recall_forget")
<1> DEFINE s == Script["encode_recall_forget"]
           told == [i \in 1..6 |-> Standing \cup (
                        IF i < 3 THEN {} ELSE
                        IF i < 5 THEN {"reads"} ELSE
                        {})]
<1>1. /\ Len(s) = 5
      /\ s[1] = Open("A") /\ s[2] = Do([reads |-> TRUE]) /\ s[3] = Check([reads |-> TRUE])
      /\ s[4] = Do([reads |-> FALSE]) /\ s[5] = Note([reads |-> FALSE])
  BY DEF Script, EncodeRecallForget
<1>2. Documented["encode_recall_forget"] = [reads |-> TRUE]
  BY DEF Documented
<1> HIDE DEF s
<1>3. PlainPlays(s, told)
  BY <1>1, NothingIsEmpty DEF PlainPlays, Steps, Same, Standing, Check, Do, Note, Open
<1>4. PlainTruth(s, told) /\ PlainClears(s, told)
  BY <1>1, NothingIsEmpty DEF PlainTruth, PlainClears, Jobs, Steps, Judged, Standing, Check,
     Do, Note, Open
<1>5. PlainCatches(s, Documented["encode_recall_forget"])
  BY <1>1, <1>2, NothingIsEmpty DEF PlainCatches, Steps, Check, Do, Note, Open
<1>6. Len(s) \in Nat
  BY <1>1
<1> HIDE DEF told
<1> QED
  BY <1>3, <1>4, <1>5, <1>6, PlainRehearsed DEF s

LEMMA TxnReadYourWritesRehearsed == Rehearsed("txn_read_your_writes")
<1> DEFINE s == Script["txn_read_your_writes"]
           told == [i \in 1..7 |-> Standing \cup (
                        IF i < 3 THEN {} ELSE
                        IF i < 4 THEN {"txn_open"} ELSE
                        IF i < 6 THEN {"txn_open", "txn_reads"} ELSE
                        IF i < 7 THEN {"txn_reads"} ELSE
                        {"reads", "txn_reads"})]
           due == [i \in 1..7 |-> IF i < 6 THEN {} ELSE IF i < 7 THEN {"reads"} ELSE {}]
<1>1. /\ Len(s) = 6
      /\ s[1] = Open("A") /\ s[2] = Do([txn_open |-> TRUE]) /\ s[3] = Do([txn_reads |-> TRUE])
      /\ s[4] = Note([txn_reads |-> TRUE])
      /\ s[5] = Ack([txn_open |-> FALSE], [reads |-> TRUE])
      /\ s[6] = PollNote([reads |-> TRUE])
  BY DEF Script, TxnReadYourWrites
<1>2. Documented["txn_read_your_writes"] = [txn_reads |-> FALSE, reads |-> FALSE]
  BY DEF Documented
<1> HIDE DEF s
<1>3. Opens(s, told, due)
  BY <1>1, NothingIsEmpty DEF Opens, Steps, Judged, Same, Empty, Standing, Ack, Do, Note,
     Open, PollNote
<1>4. Reads(s, told, due)
  BY <1>1, NothingIsEmpty DEF Reads, Steps, Judged, Same, Ack, Do, Note, Open, PollNote
<1>5. Calls(s, told, due)
  BY <1>1, NothingIsEmpty DEF Calls, Steps, Empty, Standing, Ack, Do, Note, Open, PollNote
<1>6. Acks(s, due)
  BY <1>1, NothingIsEmpty DEF Acks, Steps, Same, Ack, Do, Note, Open, PollNote
<1>7. Waits(s, told, due)
  <2>1. \A i \in Steps(s) : s[i].op = "poll" => i \in {6}
    BY <1>1 DEF Steps, Ack, Do, Note, Open, PollNote
  <2>2. \A i \in {6} :
          /\ Empty(due[i + 1])
          /\ \A f : f \in told[i + 1] <=> f \in told[i] \/ f \in due[i]
    BY DEF Empty
  <2>3. /\ "reads" \in due[6] \cap DOMAIN s[6].facts /\ s[6].facts["reads"]
    BY <1>1 DEF Empty, PollNote
  <2> QED
    BY <2>1, <2>2, <2>3 DEF Waits
<1>8. Fresh(s, told, due)
  BY <1>1, NothingIsEmpty DEF Fresh, Standing, Ack, Do, Note, Open, PollNote
<1>9. Truthful(s, told, due)
  BY <1>1, NothingIsEmpty DEF Truthful, Steps, Judged, Standing, Ack, Do, Note, Open, PollNote
<1>10. Catches(s, due, Documented["txn_read_your_writes"])
  BY <1>1, <1>2, NothingIsEmpty DEF Catches, Steps, Exposes, Empty, Ack, Do, Note, Open,
     PollNote
<1>11. Clears(s, told, due)
  BY <1>1, NothingIsEmpty DEF Clears, Jobs, Standing, Ack, Do, Note, Open, PollNote
<1> QED
  BY <1>3, <1>4, <1>5, <1>6, <1>7, <1>8, <1>9, <1>10, <1>11 DEF Rehearsed, Sound, Plays, s

LEMMA DelegatedTxnRehearsed == Rehearsed("delegated_txn")
<1> DEFINE s == Script["delegated_txn"]
           told == [i \in 1..8 |-> Standing \cup (
                        IF i < 4 THEN {} ELSE
                        IF i < 6 THEN {"txn_open"} ELSE
                        IF i < 7 THEN {} ELSE
                        {"tenant_reads"})]
           due == [i \in 1..8 |-> IF i < 6 THEN {} ELSE IF i < 7 THEN {"tenant_reads"} ELSE {}]
<1>1. /\ Len(s) = 7
      /\ s[1] = Call /\ s[2] = Open("A") /\ s[3] = Do([txn_open |-> TRUE]) /\ s[4] = Call
      /\ s[5] = Ack([txn_open |-> FALSE], [tenant_reads |-> TRUE])
      /\ s[6] = PollNote([tenant_reads |-> TRUE]) /\ s[7] = Note([own_reads |-> FALSE])
  BY DEF Script, DelegatedTxn
<1>2. Documented["delegated_txn"] = [tenant_reads |-> FALSE, own_reads |-> TRUE]
  BY DEF Documented
<1> HIDE DEF s
<1>3. Opens(s, told, due)
  BY <1>1, NothingIsEmpty DEF Opens, Steps, Judged, Same, Empty, Standing, Ack, Call, Do,
     Note, Open, PollNote
<1>4. Reads(s, told, due)
  BY <1>1, NothingIsEmpty DEF Reads, Steps, Judged, Same, Ack, Call, Do, Note, Open, PollNote
<1>5. Calls(s, told, due)
  BY <1>1, NothingIsEmpty DEF Calls, Steps, Empty, Standing, Ack, Call, Do, Note, Open,
     PollNote
<1>6. Acks(s, due)
  BY <1>1, NothingIsEmpty DEF Acks, Steps, Same, Ack, Call, Do, Note, Open, PollNote
<1>7. Waits(s, told, due)
  <2>1. \A i \in Steps(s) : s[i].op = "poll" => i \in {6}
    BY <1>1 DEF Steps, Ack, Call, Do, Note, Open, PollNote
  <2>2. \A i \in {6} :
          /\ Empty(due[i + 1])
          /\ \A f : f \in told[i + 1] <=> f \in told[i] \/ f \in due[i]
    BY DEF Empty
  <2>3. /\ "tenant_reads" \in due[6] \cap DOMAIN s[6].facts /\ s[6].facts["tenant_reads"]
    BY <1>1 DEF Empty, PollNote
  <2> QED
    BY <2>1, <2>2, <2>3 DEF Waits
<1>8. Fresh(s, told, due)
  BY <1>1, NothingIsEmpty DEF Fresh, Standing, Ack, Call, Do, Note, Open, PollNote
<1>9. Truthful(s, told, due)
  BY <1>1, NothingIsEmpty DEF Truthful, Steps, Judged, Standing, Ack, Call, Do, Note, Open,
     PollNote
<1>10. Catches(s, due, Documented["delegated_txn"])
  BY <1>1, <1>2, NothingIsEmpty DEF Catches, Steps, Exposes, Empty, Ack, Call, Do, Note, Open,
     PollNote
<1>11. Clears(s, told, due)
  BY <1>1, NothingIsEmpty DEF Clears, Jobs, Standing, Ack, Call, Do, Note, Open, PollNote
<1> QED
  BY <1>3, <1>4, <1>5, <1>6, <1>7, <1>8, <1>9, <1>10, <1>11 DEF Rehearsed, Sound, Plays, s

LEMMA IdempotencyRehearsed == Rehearsed("inv_idempotency_request_id")
<1> DEFINE s == Script["inv_idempotency_request_id"]
           told == [i \in 1..7 |-> Standing \cup (
                        IF i < 4 THEN {} ELSE
                        IF i < 6 THEN {"same_id"} ELSE
                        {"conflict", "same_id"})]
<1>1. /\ Len(s) = 6
      /\ s[1] = Open("A") /\ s[2] = Call /\ s[3] = Do([same_id |-> TRUE])
      /\ s[4] = Check([same_id |-> TRUE]) /\ s[5] = Do([conflict |-> TRUE])
      /\ s[6] = Try([conflict |-> TRUE])
  BY DEF Script, Idempotency
<1>2. Documented["inv_idempotency_request_id"] = [same_id |-> FALSE, conflict |-> FALSE]
  BY DEF Documented
<1> HIDE DEF s
<1>3. PlainPlays(s, told)
  BY <1>1, NothingIsEmpty DEF PlainPlays, Steps, Same, Standing, Call, Check, Do, Open, Try
<1>4. PlainTruth(s, told) /\ PlainClears(s, told)
  BY <1>1, NothingIsEmpty DEF PlainTruth, PlainClears, Jobs, Steps, Judged, Standing, Call,
     Check, Do, Open, Try
<1>5. PlainCatches(s, Documented["inv_idempotency_request_id"])
  BY <1>1, <1>2, NothingIsEmpty DEF PlainCatches, Steps, Call, Check, Do, Open, Try
<1>6. Len(s) \in Nat
  BY <1>1
<1> HIDE DEF told
<1> QED
  BY <1>3, <1>4, <1>5, <1>6, PlainRehearsed DEF s

LEMMA TombstoneVisibilityRehearsed == Rehearsed("inv_tombstone_visibility")
<1> DEFINE s == Script["inv_tombstone_visibility"]
           told == [i \in 1..13 |-> Standing \cup (
                        IF i < 4 THEN {} ELSE
                        IF i < 5 THEN {"reads"} ELSE
                        IF i < 8 THEN {} ELSE
                        IF i < 11 THEN {"already"} ELSE
                        IF i < 12 THEN {"already", "reads_second"} ELSE
                        {"already"})]
           due == [i \in 1..13 |->
                       IF i < 3 THEN {} ELSE
                       IF i < 4 THEN {"reads"} ELSE
                       IF i < 10 THEN {} ELSE
                       IF i < 11 THEN {"reads_second"} ELSE
                       {}]
<1>1. /\ Len(s) = 12
      /\ s[1] = Open("A") /\ s[2] = Ack(Nothing, [reads |-> TRUE])
      /\ s[3] = Poll([reads |-> TRUE]) /\ s[4] = Do([reads |-> FALSE, already |-> FALSE])
      /\ s[5] = Check([already |-> FALSE]) /\ s[6] = Check([reads |-> FALSE])
      /\ s[7] = Do([already |-> TRUE]) /\ s[8] = Check([already |-> TRUE])
      /\ s[9] = Ack(Nothing, [reads_second |-> TRUE]) /\ s[10] = Poll([reads_second |-> TRUE])
      /\ s[11] = Do([reads_second |-> FALSE]) /\ s[12] = Check([reads_second |-> FALSE])
  BY DEF Script, TombstoneVisibility
<1>2. Documented["inv_tombstone_visibility"] = [reads |-> TRUE, reads_second |-> TRUE]
  BY DEF Documented
<1> HIDE DEF s
<1>3. Opens(s, told, due)
  BY <1>1, NothingIsEmpty DEF Opens, Steps, Judged, Same, Empty, Standing, Ack, Check, Do,
     Open, Poll
<1>4. Reads(s, told, due)
  BY <1>1, NothingIsEmpty DEF Reads, Steps, Judged, Same, Ack, Check, Do, Open, Poll
<1>5. Calls(s, told, due)
  BY <1>1, NothingIsEmpty DEF Calls, Steps, Empty, Standing, Ack, Check, Do, Open, Poll
<1>6. Acks(s, due)
  BY <1>1, NothingIsEmpty DEF Acks, Steps, Same, Ack, Check, Do, Open, Poll
<1>7. Waits(s, told, due)
  <2>1. \A i \in Steps(s) : s[i].op = "poll" => i \in {3, 10}
    BY <1>1 DEF Steps, Ack, Check, Do, Open, Poll
  <2>2. \A i \in {3, 10} :
          /\ Empty(due[i + 1])
          /\ \A f : f \in told[i + 1] <=> f \in told[i] \/ f \in due[i]
    BY DEF Empty
  <2>3. /\ "reads" \in due[3] \cap DOMAIN s[3].facts /\ s[3].facts["reads"]
        /\ "reads_second" \in due[10] \cap DOMAIN s[10].facts /\ s[10].facts["reads_second"]
    BY <1>1 DEF Empty, Poll
  <2> QED
    BY <2>1, <2>2, <2>3 DEF Waits
<1>8. Fresh(s, told, due)
  BY <1>1, NothingIsEmpty DEF Fresh, Standing, Ack, Check, Do, Open, Poll
<1>9. Truthful(s, told, due)
  BY <1>1, NothingIsEmpty DEF Truthful, Steps, Judged, Standing, Ack, Check, Do, Open, Poll
<1>10. Catches(s, due, Documented["inv_tombstone_visibility"])
  BY <1>1, <1>2, NothingIsEmpty DEF Catches, Steps, Exposes, Empty, Ack, Check, Do, Open, Poll
<1>11. Clears(s, told, due)
  BY <1>1, NothingIsEmpty DEF Clears, Jobs, Standing, Ack, Check, Do, Open, Poll
<1> QED
  BY <1>3, <1>4, <1>5, <1>6, <1>7, <1>8, <1>9, <1>10, <1>11 DEF Rehearsed, Sound, Plays, s

LEMMA SlotVersionRehearsed == Rehearsed("inv_slot_version_stale_id")
<1> DEFINE s == Script["inv_slot_version_stale_id"]
           told == [i \in 1..7 |-> Standing \cup (
                        IF i < 5 THEN {} ELSE
                        {"live_links", "stale_unknown"})]
<1>1. /\ Len(s) = 6
      /\ s[1] = Open("A") /\ s[2] = Call /\ s[3] = Call
      /\ s[4] = Do([stale_unknown |-> TRUE, live_links |-> TRUE])
      /\ s[5] = Try([stale_unknown |-> TRUE]) /\ s[6] = Try([live_links |-> TRUE])
  BY DEF Script, SlotVersion
<1>2. Documented["inv_slot_version_stale_id"] =
        [stale_unknown |-> FALSE, live_links |-> FALSE]
  BY DEF Documented
<1> HIDE DEF s
<1>3. PlainPlays(s, told)
  BY <1>1, NothingIsEmpty DEF PlainPlays, Steps, Same, Standing, Call, Do, Open, Try
<1>4. PlainTruth(s, told) /\ PlainClears(s, told)
  BY <1>1, NothingIsEmpty DEF PlainTruth, PlainClears, Jobs, Steps, Judged, Standing, Call,
     Do, Open, Try
<1>5. PlainCatches(s, Documented["inv_slot_version_stale_id"])
  BY <1>1, <1>2, NothingIsEmpty DEF PlainCatches, Steps, Call, Do, Open, Try
<1>6. Len(s) \in Nat
  BY <1>1
<1> HIDE DEF told
<1> QED
  BY <1>3, <1>4, <1>5, <1>6, PlainRehearsed DEF s

LEMMA AuditRehearsed == Rehearsed("audit_derivation_logged")
<1> DEFINE s == Script["audit_derivation_logged"]
           told == [i \in 1..8 |-> Standing \cup (
                        IF i < 4 THEN {} ELSE
                        IF i < 6 THEN {"by_time", "pages_valid"} ELSE
                        {"by_time", "extraction_rows", "pages_valid", "resolution_rows"})]
           due == [i \in 1..8 |->
                       IF i < 4 THEN {} ELSE
                       IF i < 6 THEN {"extraction_rows", "resolution_rows"} ELSE
                       {}]
<1>1. /\ Len(s) = 7
      /\ s[1] = Secret /\ s[2] = Open("A")
      /\ s[3] = Ack([by_time |-> TRUE, pages_valid |-> TRUE], [extraction_rows |-> TRUE,
                     resolution_rows |-> TRUE])
      /\ s[4] = Check([pages_valid |-> TRUE]) /\ s[5] = Poll([extraction_rows |-> TRUE])
      /\ s[6] = Check([by_time |-> TRUE, pages_valid |-> TRUE])
      /\ s[7] = PollNote([resolution_rows |-> TRUE])
  BY DEF Script, Audit
<1>2. Documented["audit_derivation_logged"] =
        [extraction_rows |-> FALSE, resolution_rows |-> FALSE,
              by_time |-> FALSE]
  BY DEF Documented
<1> HIDE DEF s
<1>3. Opens(s, told, due)
  BY <1>1, NothingIsEmpty DEF Opens, Steps, Judged, Same, Empty, Standing, Ack, Check, Do,
     Open, Poll, PollNote, Secret
<1>4. Reads(s, told, due)
  BY <1>1, NothingIsEmpty DEF Reads, Steps, Judged, Same, Ack, Check, Do, Open, Poll,
     PollNote, Secret
<1>5. Calls(s, told, due)
  BY <1>1, NothingIsEmpty DEF Calls, Steps, Empty, Standing, Ack, Check, Do, Open, Poll,
     PollNote, Secret
<1>6. Acks(s, due)
  BY <1>1, NothingIsEmpty DEF Acks, Steps, Same, Ack, Check, Do, Open, Poll, PollNote, Secret
<1>7. Waits(s, told, due)
  <2>1. \A i \in Steps(s) : s[i].op = "poll" => i \in {5, 7}
    BY <1>1 DEF Steps, Ack, Check, Do, Open, Poll, PollNote, Secret
  <2>2. \A i \in {5, 7} :
          /\ Empty(due[i + 1])
          /\ \A f : f \in told[i + 1] <=> f \in told[i] \/ f \in due[i]
    BY DEF Empty
  <2>3. /\ "extraction_rows" \in due[5] \cap DOMAIN s[5].facts /\ s[5].facts["extraction_rows"]
        /\ Empty(due[7])
    BY <1>1 DEF Empty, Poll, PollNote
  <2> QED
    BY <2>1, <2>2, <2>3 DEF Waits
<1>8. Fresh(s, told, due)
  BY <1>1, NothingIsEmpty DEF Fresh, Standing, Ack, Check, Do, Open, Poll, PollNote, Secret
<1>9. Truthful(s, told, due)
  BY <1>1, NothingIsEmpty DEF Truthful, Steps, Judged, Standing, Ack, Check, Do, Open, Poll,
     PollNote, Secret
<1>10. Catches(s, due, Documented["audit_derivation_logged"])
  BY <1>1, <1>2, NothingIsEmpty DEF Catches, Steps, Exposes, Empty, Ack, Check, Do, Open,
     Poll, PollNote, Secret
<1>11. Clears(s, told, due)
  BY <1>1, NothingIsEmpty DEF Clears, Jobs, Standing, Ack, Check, Do, Open, Poll, PollNote,
     Secret
<1> QED
  BY <1>3, <1>4, <1>5, <1>6, <1>7, <1>8, <1>9, <1>10, <1>11 DEF Rehearsed, Sound, Plays, s

\* Where the elements of a concatenation are.
LEMMA Joined ==
  ASSUME NEW S, NEW a \in Seq(S), NEW b \in Seq(S)
  PROVE  /\ a \o b \in Seq(S)
         /\ Len(a \o b) = Len(a) + Len(b)
         /\ \A i \in 1..Len(a) : (a \o b)[i] = a[i]
         /\ \A i \in (Len(a) + 1)..(Len(a) + Len(b)) : (a \o b)[i] = b[i - Len(a)]
  BY ConcatProperties

\* The walks over the shards make this script as long as there are shards.
LEMMA RebuildRehearsed == Rehearsed("index_rebuild")
<1> DEFINE s == Script["index_rebuild"]
           sane == Check([rebuild_sane |-> TRUE])
           has == Check([has_shard |-> TRUE])
           after == Note([reads_after |-> TRUE])
           all == Do([rebuild_sane |-> TRUE, has_shard |-> TRUE, reads_after |-> TRUE])
           first == <<Secret, Open("A"), Do([reads |-> TRUE]), Call, Call,
                      Check([reads |-> TRUE]), all>>
           S == {first[i] : i \in 1..7} \cup {sane, has, after}
           told == [i \in 1..(2 * SHARDS + 10) |-> Standing \cup (
                        IF i < 4 THEN {} ELSE
                        IF i < 8 THEN {"reads"} ELSE
                        {"has_shard", "reads", "reads_after", "rebuild_sane"})]
<1>1. SHARDS \in Nat /\ SHARDS > 0
  BY ShardsAssumption
<1>2. /\ first \in Seq(S) /\ Len(first) = 7
      /\ RebuildWalk \in Seq(S) /\ Len(RebuildWalk) = SHARDS
      /\ \A i \in 1..SHARDS : RebuildWalk[i] = sane
      /\ <<has>> \in Seq(S) /\ <<after>> \in Seq(S)
  BY <1>1 DEF RebuildWalk
<1>3. s = first \o RebuildWalk \o <<has>> \o RebuildWalk \o <<after>>
  BY DEF Script, Rebuild
<1> HIDE DEF S, sane, has, after, all
<1>4. /\ Len(s) = 2 * SHARDS + 9
      /\ \A i \in 1..7 : s[i] = first[i]
      /\ s[8] = sane /\ s[SHARDS + 8] = has /\ s[2 * SHARDS + 9] = after
      /\ \A i \in 8..Len(s) : s[i] \in {sane, has, after}
  <2> DEFINE s1 == first \o RebuildWalk
             s2 == s1 \o <<has>>
             s3 == s2 \o RebuildWalk
  <2> HIDE DEF s, first
  <2>1. /\ s1 \in Seq(S) /\ Len(s1) = SHARDS + 7
        /\ \A i \in 1..7 : s1[i] = first[i]
        /\ \A i \in 8..(SHARDS + 7) : s1[i] = sane
    <3>1. /\ first \o RebuildWalk \in Seq(S) /\ Len(first \o RebuildWalk) = Len(first) + Len(RebuildWalk)
          /\ \A i \in 1..Len(first) : (first \o RebuildWalk)[i] = first[i]
          /\ \A i \in (Len(first) + 1)..(Len(first) + Len(RebuildWalk)) :
                 (first \o RebuildWalk)[i] = RebuildWalk[i - Len(first)]
      BY <1>2, Joined, Zenon
    <3>2. s1 = first \o RebuildWalk
      OBVIOUS
    <3> HIDE DEF s1
    <3> QED
      BY <1>1, <1>2, <3>1, <3>2
  <2> HIDE DEF s1
  <2>2. /\ s2 \in Seq(S) /\ Len(s2) = SHARDS + 8
        /\ \A i \in 1..(SHARDS + 7) : s2[i] = s1[i]
        /\ s2[SHARDS + 8] = has
    <3> DEFINE one == <<has>>
    <3>1. one \in Seq(S) /\ Len(one) = 1 /\ one[1] = has
      BY <1>2
    <3> HIDE DEF one
    <3>2. /\ s1 \o one \in Seq(S) /\ Len(s1 \o one) = Len(s1) + Len(one)
          /\ \A i \in 1..Len(s1) : (s1 \o one)[i] = s1[i]
          /\ \A i \in (Len(s1) + 1)..(Len(s1) + Len(one)) :
                 (s1 \o one)[i] = one[i - Len(s1)]
      BY <2>1, <3>1, Joined, Zenon
    <3> HIDE DEF s2
    <3>3. s2 = s1 \o one
      BY DEF s2, one
    <3> QED
      BY <1>1, <2>1, <3>1, <3>2, <3>3
  <2> HIDE DEF s2
  <2>3. /\ s3 \in Seq(S) /\ Len(s3) = 2 * SHARDS + 8
        /\ \A i \in 1..(SHARDS + 8) : s3[i] = s2[i]
        /\ \A i \in (SHARDS + 9)..(2 * SHARDS + 8) : s3[i] = sane
    <3>1. /\ s2 \o RebuildWalk \in Seq(S) /\ Len(s2 \o RebuildWalk) = Len(s2) + Len(RebuildWalk)
          /\ \A i \in 1..Len(s2) : (s2 \o RebuildWalk)[i] = s2[i]
          /\ \A i \in (Len(s2) + 1)..(Len(s2) + Len(RebuildWalk)) :
                 (s2 \o RebuildWalk)[i] = RebuildWalk[i - Len(s2)]
      <4>1. s2 \in Seq(S) /\ RebuildWalk \in Seq(S)
        BY <1>2, <2>2
      <4> QED
        BY <4>1, Joined, Zenon
    <3>2. s3 = s2 \o RebuildWalk
      OBVIOUS
    <3> HIDE DEF s3
    <3> QED
      BY <1>1, <1>2, <2>2, <3>1, <3>2
  <2> HIDE DEF s3
  <2>4. /\ Len(s) = 2 * SHARDS + 9
        /\ \A i \in 1..(2 * SHARDS + 8) : s[i] = s3[i]
        /\ s[2 * SHARDS + 9] = after
    <3> DEFINE one == <<after>>
    <3>1. one \in Seq(S) /\ Len(one) = 1 /\ one[1] = after
      BY <1>2
    <3>2. s = s3 \o one
      BY <1>3 DEF s1, s2, s3
    <3> HIDE DEF one
    <3>3. /\ s3 \o one \in Seq(S) /\ Len(s3 \o one) = Len(s3) + Len(one)
          /\ \A i \in 1..Len(s3) : (s3 \o one)[i] = s3[i]
          /\ \A i \in (Len(s3) + 1)..(Len(s3) + Len(one)) :
                 (s3 \o one)[i] = one[i - Len(s3)]
      BY <2>3, <3>1, Joined, Zenon
    <3>4. /\ Len(s3) = 2 * SHARDS + 8 /\ 2 * SHARDS + 8 \in Nat
          /\ 2 * SHARDS + 9 = Len(s3) + 1
      BY <1>1, <2>3
    <3> QED
      BY <3>1, <3>2, <3>3, <3>4
  <2>5. \A i \in 1..7 : s[i] = first[i]
    <3>1. \A i \in 1..7 : i \in 1..(SHARDS + 7) /\ i \in 1..(SHARDS + 8)
                          /\ i \in 1..(2 * SHARDS + 8)
      BY <1>1
    <3> QED
      BY <2>1, <2>2, <2>3, <2>4, <3>1, Zenon
  <2>6. s[8] = sane /\ s[SHARDS + 8] = has
    <3>1. 8 \in 8..(SHARDS + 7) /\ 8 \in 1..(SHARDS + 7) /\ 8 \in 1..(SHARDS + 8)
          /\ 8 \in 1..(2 * SHARDS + 8)
      BY <1>1
    <3>2. SHARDS + 8 \in 1..(SHARDS + 8) /\ SHARDS + 8 \in 1..(2 * SHARDS + 8)
      BY <1>1
    <3> QED
      BY <2>1, <2>2, <2>3, <2>4, <3>1, <3>2, Zenon
  <2>7. \A i \in 8..(2 * SHARDS + 9) : s[i] \in {sane, has, after}
    <3>1. \A i \in 8..(SHARDS + 7) : s[i] = sane
      BY <1>1, <2>1, <2>2, <2>3, <2>4
    <3>2. \A i \in (SHARDS + 9)..(2 * SHARDS + 8) : s[i] = sane
      BY <1>1, <2>3, <2>4
    <3> QED
      BY <1>1, <2>4, <2>6, <3>1, <3>2
  <2> QED
    BY <2>4, <2>5, <2>6, <2>7
<1>5. /\ s[1] = Secret /\ s[2] = Open("A") /\ s[3] = Do([reads |-> TRUE])
      /\ s[4] = Call /\ s[5] = Call /\ s[6] = Check([reads |-> TRUE]) /\ s[7] = all
  BY <1>4
<1>6. Documented["index_rebuild"] =
        [rebuild_sane |-> FALSE, reads_after |-> FALSE, has_shard |-> FALSE]
  BY DEF Documented
<1> HIDE DEF s, first
<1>7. \A i \in 8..Len(s) :
        /\ s[i].op \in {"check", "note"}
        /\ DOMAIN s[i].facts \subseteq {"rebuild_sane", "has_shard", "reads_after"}
        /\ \A f \in DOMAIN s[i].facts : s[i].facts[f] = TRUE
  BY <1>4 DEF sane, has, after, Check, Note
<1>8. /\ \A i \in 1..3 : \A f : f \in told[i] <=> f \in Standing
      /\ \A i \in 4..7 : \A f : f \in told[i] <=> f \in Standing \/ f = "reads"
      /\ \A i \in 8..(Len(s) + 1) : \A f : f \in told[i] <=>
           f \in Standing \/ f \in {"has_shard", "reads", "reads_after", "rebuild_sane"}
  <2>1. Len(s) + 1 = 2 * SHARDS + 10
    BY <1>1, <1>4
  <2> HIDE DEF s
  <2>2. \A i \in 1..3 : i \in 1..(2 * SHARDS + 10) /\ i < 4
    BY <1>1
  <2>3. \A i \in 4..7 : i \in 1..(2 * SHARDS + 10) /\ ~(i < 4) /\ i < 8
    BY <1>1
  <2>4. \A i \in 8..(2 * SHARDS + 10) :
          i \in 1..(2 * SHARDS + 10) /\ ~(i < 4) /\ ~(i < 8)
    BY <1>1
  <2>5. \A i \in 1..3 : told[i] = Standing
    BY <2>2
  <2>6. \A i \in 4..7 : told[i] = Standing \cup {"reads"}
    BY <2>3
  <2>7. \A i \in 8..(Len(s) + 1) : told[i] =
          Standing \cup {"has_shard", "reads", "reads_after", "rebuild_sane"}
    BY <2>1, <2>4
  <2> HIDE DEF told
  <2> QED
    BY <2>5, <2>6, <2>7
<1>9. /\ Len(s) \in Nat
      /\ \A i \in Steps(s) : i \in 1..7 \/ i \in 8..Len(s)
  BY <1>1, <1>4 DEF Steps
<1> HIDE DEF told
<1>10. PlainPlays(s, told)
  <2>1. Same(told[1], Standing)
    BY <1>8 DEF Same
  <2>2. \A i \in 1..7 :
          /\ s[i].op \in {"open", "do", "check"}
          /\ s[i].op # "do" => i \in {1, 2, 6}
          /\ s[i].op = "do" => i \in {3, 4, 5, 7} /\ s[i].later = Nothing
    BY <1>5 DEF Secret, Open, Do, Call, Check, all
  <2>3. \A i \in {1, 2, 6} : Same(told[i + 1], told[i])
    BY <1>8 DEF Same
  <2>4. \A i \in {3, 4, 5, 7} : \A f : f \in told[i + 1] <=>
          IF f \in DOMAIN s[i].facts THEN s[i].facts[f] ELSE f \in told[i]
    <3>1. \A f : f \in told[4] <=>
            IF f \in DOMAIN s[3].facts THEN s[3].facts[f] ELSE f \in told[3]
      BY <1>5, <1>8 DEF Do
    <3>2. \A i \in {4, 5} : \A f : f \in told[i + 1] <=>
            IF f \in DOMAIN s[i].facts THEN s[i].facts[f] ELSE f \in told[i]
      BY <1>5, <1>8, NothingIsEmpty DEF Call, Do
    <3>3. \A f : f \in told[8] <=>
            IF f \in DOMAIN s[7].facts THEN s[7].facts[f] ELSE f \in told[7]
      BY <1>1, <1>4, <1>5, <1>8 DEF Do, all
    <3> QED
      BY <3>1, <3>2, <3>3
  <2>5. \A i \in 8..Len(s) : s[i].op # "do" /\ Same(told[i + 1], told[i])
    BY <1>7, <1>8, <1>9 DEF Same
  <2> QED
    BY <1>7, <1>9, <2>1, <2>2, <2>3, <2>4, <2>5 DEF PlainPlays
<1>11. PlainTruth(s, told) /\ PlainClears(s, told)
  <2>1. \A i \in 1..7 : s[i].op \in Judged => i \in {1, 6}
    BY <1>5 DEF Judged, Secret, Open, Do, Call, Check, all
  <2>2. /\ s[1].facts = [secret |-> TRUE] /\ "secret" \in told[1]
        /\ s[6].facts = [reads |-> TRUE] /\ "reads" \in told[6]
    BY <1>5, <1>8 DEF Secret, Check, Standing
  <2>3. \A i \in {1, 6} : \A f \in DOMAIN s[i].facts :
          f # "none" /\ f \in told[i] /\ s[i].facts[f] = TRUE
    BY <2>2
  <2>4. \A i \in 8..Len(s) : \A f \in DOMAIN s[i].facts :
          f # "none" /\ f \in told[i] /\ s[i].facts[f] = TRUE
    BY <1>7, <1>8, <1>9
  <2>5. PlainClears(s, told)
    BY <1>1, <1>4, <1>8 DEF PlainClears, Jobs, Standing
  <2> QED
    BY <1>9, <2>1, <2>3, <2>4, <2>5 DEF PlainTruth
<1>12. PlainCatches(s, Documented["index_rebuild"])
  BY <1>1, <1>4, <1>6 DEF PlainCatches, Steps, sane, has, after, Check, Note
<1> QED
  BY <1>9, <1>10, <1>11, <1>12, PlainRehearsed DEF s

LEMMA BackfillRehearsed == Rehearsed("resumable_backfill")
<1> DEFINE s == Script["resumable_backfill"]
           told == [i \in 1..13 |-> Standing \cup (
                        IF i < 7 THEN {} ELSE
                        IF i < 10 THEN {"backfill", "listed", "started"} ELSE
                        {"cancelled", "listed", "needs_extractors", "needs_hex", "started"})]
<1>1. /\ Len(s) = 12
      /\ s[1] = Secret /\ s[2] = Open("A") /\ s[3] = Call /\ s[4] = Call /\ s[5] = Call
      /\ s[6] = Do([backfill |-> TRUE, started |-> TRUE, listed |-> TRUE])
      /\ s[7] = Check([started |-> TRUE]) /\ s[8] = Check([listed |-> TRUE])
      /\ s[9] = Do([backfill |-> FALSE, cancelled |-> TRUE, needs_extractors |-> TRUE,
                    needs_hex |-> TRUE])
      /\ s[10] = Check([cancelled |-> TRUE]) /\ s[11] = Check([needs_extractors |-> TRUE])
      /\ s[12] = Note([needs_hex |-> TRUE])
  BY DEF Script, Backfill
<1>2. Documented["resumable_backfill"] =
        [started |-> FALSE, listed |-> FALSE, cancelled |-> FALSE,
              needs_extractors |-> FALSE, needs_hex |-> FALSE]
  BY DEF Documented
<1> HIDE DEF s
<1>3. PlainPlays(s, told)
  BY <1>1, NothingIsEmpty DEF PlainPlays, Steps, Same, Standing, Call, Check, Do, Note, Open,
     Secret
<1>4. PlainTruth(s, told) /\ PlainClears(s, told)
  BY <1>1, NothingIsEmpty DEF PlainTruth, PlainClears, Jobs, Steps, Judged, Standing, Call,
     Check, Do, Note, Open, Secret
<1>5. PlainCatches(s, Documented["resumable_backfill"])
  BY <1>1, <1>2, NothingIsEmpty DEF PlainCatches, Steps, Call, Check, Do, Note, Open, Secret
<1>6. Len(s) \in Nat
  BY <1>1
<1> HIDE DEF told
<1> QED
  BY <1>3, <1>4, <1>5, <1>6, PlainRehearsed DEF s

LEMMA MetricsFamiliesRehearsed == Rehearsed("metrics_families_present")
<1> DEFINE s == Script["metrics_families_present"]
           told == [i \in 1..11 |-> Standing \cup (
                        IF i < 7 THEN {} ELSE
                        {"advanced", "families", "monotonic"})]
<1>1. /\ Len(s) = 10
      /\ s[1] = Open("A") /\ s[2] = Call /\ s[3] = Call /\ s[4] = Call
      /\ s[5] = Check([scrapes |-> TRUE])
      /\ s[6] = Do([families |-> TRUE, monotonic |-> TRUE, advanced |-> TRUE])
      /\ s[7] = Check([scrapes |-> TRUE]) /\ s[8] = Note([families |-> TRUE])
      /\ s[9] = Note([monotonic |-> TRUE]) /\ s[10] = Note([advanced |-> TRUE])
  BY DEF Script, MetricsFamilies
<1>2. Documented["metrics_families_present"] =
        [families |-> FALSE, monotonic |-> FALSE, advanced |-> FALSE]
  BY DEF Documented
<1> HIDE DEF s
<1>3. PlainPlays(s, told)
  BY <1>1, NothingIsEmpty DEF PlainPlays, Steps, Same, Standing, Call, Check, Do, Note, Open
<1>4. PlainTruth(s, told) /\ PlainClears(s, told)
  BY <1>1, NothingIsEmpty DEF PlainTruth, PlainClears, Jobs, Steps, Judged, Standing, Call,
     Check, Do, Note, Open
<1>5. PlainCatches(s, Documented["metrics_families_present"])
  BY <1>1, <1>2, NothingIsEmpty DEF PlainCatches, Steps, Call, Check, Do, Note, Open
<1>6. Len(s) \in Nat
  BY <1>1
<1> HIDE DEF told
<1> QED
  BY <1>3, <1>4, <1>5, <1>6, PlainRehearsed DEF s

LEMMA StorageFootprintRehearsed == Rehearsed("storage_footprint")
<1> DEFINE s == Script["storage_footprint"]
           told == [i \in 1..6 |-> Standing \cup (
                        IF i < 5 THEN {} ELSE
                        {"capacity", "gauges", "grew", "slots", "wal"})]
<1>1. /\ Len(s) = 5
      /\ s[1] = Open("server") /\ s[2] = Call /\ s[3] = Open("A")
      /\ s[4] = Do([gauges |-> TRUE, slots |-> TRUE, grew |-> TRUE, wal |-> TRUE,
                    capacity |-> TRUE])
      /\ s[5] = Note([gauges |-> TRUE, slots |-> TRUE, grew |-> TRUE, wal |-> TRUE,
                      capacity |-> TRUE])
  BY DEF Script, StorageFootprint
<1>2. Documented["storage_footprint"] = [gauges |-> FALSE, slots |-> FALSE, wal |-> FALSE]
  BY DEF Documented
<1> HIDE DEF s
<1>3. PlainPlays(s, told)
  BY <1>1, NothingIsEmpty DEF PlainPlays, Steps, Same, Standing, Call, Do, Note, Open
<1>4. PlainTruth(s, told) /\ PlainClears(s, told)
  BY <1>1, NothingIsEmpty DEF PlainTruth, PlainClears, Jobs, Steps, Judged, Standing, Call,
     Do, Note, Open
<1>5. PlainCatches(s, Documented["storage_footprint"])
  BY <1>1, <1>2, NothingIsEmpty DEF PlainCatches, Steps, Call, Do, Note, Open
<1>6. Len(s) \in Nat
  BY <1>1
<1> HIDE DEF told
<1> QED
  BY <1>3, <1>4, <1>5, <1>6, PlainRehearsed DEF s

LEMMA SchemaLifecycleRehearsed == Rehearsed("tg_schema_lifecycle")
<1> DEFINE s == Script["tg_schema_lifecycle"]
           told == [i \in 1..8 |-> Standing \cup (
                        IF i < 3 THEN {} ELSE
                        IF i < 6 THEN {"active", "clean", "ns", "version"} ELSE
                        {"active", "bad_invalid", "clean", "good_valid", "ns", "version"})]
<1>1. /\ Len(s) = 7
      /\ s[1] = Open("A")
      /\ s[2] = Do([clean |-> TRUE, ns |-> TRUE, version |-> TRUE, active |-> TRUE])
      /\ s[3] = Check([clean |-> TRUE, ns |-> TRUE, version |-> TRUE])
      /\ s[4] = Check([ns |-> TRUE, active |-> TRUE])
      /\ s[5] = Do([good_valid |-> TRUE, bad_invalid |-> TRUE, bad_versioned |-> FALSE])
      /\ s[6] = Check([good_valid |-> TRUE])
      /\ s[7] = Note([bad_invalid |-> TRUE, bad_versioned |-> FALSE])
  BY DEF Script, SchemaLifecycle
<1>2. Documented["tg_schema_lifecycle"] =
        [active |-> FALSE, good_valid |-> FALSE, bad_invalid |-> FALSE]
  BY DEF Documented
<1> HIDE DEF s
<1>3. PlainPlays(s, told)
  BY <1>1, NothingIsEmpty DEF PlainPlays, Steps, Same, Standing, Check, Do, Note, Open
<1>4. PlainTruth(s, told) /\ PlainClears(s, told)
  BY <1>1, NothingIsEmpty DEF PlainTruth, PlainClears, Jobs, Steps, Judged, Standing, Check,
     Do, Note, Open
<1>5. PlainCatches(s, Documented["tg_schema_lifecycle"])
  BY <1>1, <1>2, NothingIsEmpty DEF PlainCatches, Steps, Check, Do, Note, Open
<1>6. Len(s) \in Nat
  BY <1>1
<1> HIDE DEF told
<1> QED
  BY <1>3, <1>4, <1>5, <1>6, PlainRehearsed DEF s

LEMMA SchemaDropRehearsed == Rehearsed("tg_schema_drop")
<1> DEFINE s == Script["tg_schema_drop"]
           told == [i \in 1..9 |-> Standing \cup (
                        IF i < 3 THEN {} ELSE
                        IF i < 5 THEN {"clean"} ELSE
                        IF i < 8 THEN {"active", "bumped", "clean", "drop_clean", "dropped"} ELSE
                        {"active", "bumped", "clean", "drop_clean", "dropped", "version_kept"})]
<1>1. /\ Len(s) = 8
      /\ s[1] = Open("A") /\ s[2] = Do([clean |-> TRUE]) /\ s[3] = Check([clean |-> TRUE])
      /\ s[4] = Do([drop_clean |-> TRUE, dropped |-> TRUE, live_rows |-> FALSE, bumped |-> TRUE,
                    active |-> TRUE])
      /\ s[5] = Check([drop_clean |-> TRUE, dropped |-> TRUE, live_rows |-> FALSE,
                       bumped |-> TRUE])
      /\ s[6] = Check([active |-> TRUE])
      /\ s[7] = Do([redropped |-> FALSE, version_kept |-> TRUE])
      /\ s[8] = Note([redropped |-> FALSE, version_kept |-> TRUE])
  BY DEF Script, SchemaDrop
<1>2. Documented["tg_schema_drop"] =
        [dropped |-> FALSE, live_rows |-> TRUE, bumped |-> FALSE,
              redropped |-> TRUE, version_kept |-> FALSE]
  BY DEF Documented
<1> HIDE DEF s
<1>3. PlainPlays(s, told)
  BY <1>1, NothingIsEmpty DEF PlainPlays, Steps, Same, Standing, Check, Do, Note, Open
<1>4. PlainTruth(s, told) /\ PlainClears(s, told)
  BY <1>1, NothingIsEmpty DEF PlainTruth, PlainClears, Jobs, Steps, Judged, Standing, Check,
     Do, Note, Open
<1>5. PlainCatches(s, Documented["tg_schema_drop"])
  BY <1>1, <1>2, NothingIsEmpty DEF PlainCatches, Steps, Check, Do, Note, Open
<1>6. Len(s) \in Nat
  BY <1>1
<1> HIDE DEF told
<1> QED
  BY <1>3, <1>4, <1>5, <1>6, PlainRehearsed DEF s

LEMMA EntityLifecycleRehearsed == Rehearsed("tg_entity_lifecycle")
<1> DEFINE s == Script["tg_entity_lifecycle"]
           told == [i \in 1..7 |-> Standing \cup (
                        IF i < 3 THEN {} ELSE
                        {"id", "listed", "name", "resolves", "type"})]
<1>1. /\ Len(s) = 6
      /\ s[1] = Open("A")
      /\ s[2] = Do([id |-> TRUE, name |-> TRUE, type |-> TRUE, resolves |-> TRUE,
                    listed |-> TRUE])
      /\ s[3] = Check([id |-> TRUE])
      /\ s[4] = Check([id |-> TRUE, name |-> TRUE, type |-> TRUE])
      /\ s[5] = Check([resolves |-> TRUE]) /\ s[6] = Note([listed |-> TRUE])
  BY DEF Script, EntityLifecycle
<1>2. Documented["tg_entity_lifecycle"] =
        [name |-> FALSE, resolves |-> FALSE, listed |-> FALSE]
  BY DEF Documented
<1> HIDE DEF s
<1>3. PlainPlays(s, told)
  BY <1>1, NothingIsEmpty DEF PlainPlays, Steps, Same, Standing, Check, Do, Note, Open
<1>4. PlainTruth(s, told) /\ PlainClears(s, told)
  BY <1>1, NothingIsEmpty DEF PlainTruth, PlainClears, Jobs, Steps, Judged, Standing, Check,
     Do, Note, Open
<1>5. PlainCatches(s, Documented["tg_entity_lifecycle"])
  BY <1>1, <1>2, NothingIsEmpty DEF PlainCatches, Steps, Check, Do, Note, Open
<1>6. Len(s) \in Nat
  BY <1>1
<1> HIDE DEF told
<1> QED
  BY <1>3, <1>4, <1>5, <1>6, PlainRehearsed DEF s

LEMMA EntityMergeUnmergeRehearsed == Rehearsed("tg_entity_merge_unmerge")
<1> DEFINE s == Script["tg_entity_merge_unmerge"]
           told == [i \in 1..17 |-> Standing \cup (
                        IF i < 4 THEN {} ELSE
                        IF i < 7 THEN {"distinct"} ELSE
                        IF i < 10 THEN {"distinct", "under_b"} ELSE
                        IF i < 13 THEN {"distinct", "redirects", "under_a", "under_b"} ELSE
                        {"distinct", "restored", "under_b"})]
<1>1. /\ Len(s) = 16
      /\ s[1] = Open("A") /\ s[2] = Person /\ s[3] = Do([distinct |-> TRUE])
      /\ s[4] = Check([distinct |-> TRUE]) /\ s[5] = Tone /\ s[6] = Do([under_b |-> TRUE])
      /\ s[7] = UnderA(FALSE) /\ s[8] = UnderB(TRUE)
      /\ s[9] = Do([under_a |-> TRUE, redirects |-> TRUE])
      /\ s[10] = Check([redirects |-> TRUE]) /\ s[11] = UnderA(TRUE)
      /\ s[12] = Do([under_a |-> FALSE, redirects |-> FALSE, restored |-> TRUE])
      /\ s[13] = Check([restored |-> TRUE]) /\ s[14] = Check([redirects |-> FALSE])
      /\ s[15] = Note([under_b |-> TRUE]) /\ s[16] = Note([under_a |-> FALSE])
  BY DEF Script, EntityMergeUnmerge
<1>2. Documented["tg_entity_merge_unmerge"] =
        [redirects |-> FALSE, under_a |-> TRUE, under_b |-> FALSE,
              restored |-> FALSE]
  BY DEF Documented
<1> HIDE DEF s
<1>3. PlainPlays(s, told)
  BY <1>1, NothingIsEmpty DEF PlainPlays, Steps, Same, Standing, Call, Check, Do, Note, Open,
     Person, Tone, UnderA, UnderB
<1>4. PlainTruth(s, told) /\ PlainClears(s, told)
  BY <1>1, NothingIsEmpty DEF PlainTruth, PlainClears, Jobs, Steps, Judged, Standing, Call,
     Check, Do, Note, Open, Person, Tone, UnderA, UnderB
<1>5. PlainCatches(s, Documented["tg_entity_merge_unmerge"])
  BY <1>1, <1>2, NothingIsEmpty DEF PlainCatches, Steps, Call, Check, Do, Note, Open, Person,
     Tone, UnderA, UnderB
<1>6. Len(s) \in Nat
  BY <1>1
<1> HIDE DEF told
<1> QED
  BY <1>3, <1>4, <1>5, <1>6, PlainRehearsed DEF s

LEMMA ResolutionBreadthRehearsed == Rehearsed("tg_resolution_breadth")
<1> DEFINE s == Script["tg_resolution_breadth"]
           told == [i \in 1..12 |-> Standing \cup (
                        IF i < 3 THEN {} ELSE
                        IF i < 6 THEN {"exact"} ELSE
                        IF i < 9 THEN {"created", "created_resolves", "exact"} ELSE
                        {"by_alias", "by_new", "created", "created_resolves", "exact", "same_id"})]
<1>1. /\ Len(s) = 11
      /\ s[1] = Open("A") /\ s[2] = Do([exact |-> TRUE]) /\ s[3] = Check([exact |-> TRUE])
      /\ s[4] = Check([unknown_minted |-> FALSE])
      /\ s[5] = Do([created |-> TRUE, created_resolves |-> TRUE])
      /\ s[6] = Check([created |-> TRUE]) /\ s[7] = Check([created_resolves |-> TRUE])
      /\ s[8] = Do([same_id |-> TRUE, by_new |-> TRUE, by_alias |-> TRUE])
      /\ s[9] = Check([same_id |-> TRUE]) /\ s[10] = Check([by_new |-> TRUE])
      /\ s[11] = Note([by_alias |-> TRUE])
  BY DEF Script, ResolutionBreadth
<1>2. Documented["tg_resolution_breadth"] =
        [exact |-> FALSE, unknown_minted |-> TRUE, created |-> FALSE,
              created_resolves |-> FALSE, by_new |-> FALSE, by_alias |-> FALSE]
  BY DEF Documented
<1> HIDE DEF s
<1>3. PlainPlays(s, told)
  BY <1>1, NothingIsEmpty DEF PlainPlays, Steps, Same, Standing, Check, Do, Note, Open
<1>4. PlainTruth(s, told) /\ PlainClears(s, told)
  BY <1>1, NothingIsEmpty DEF PlainTruth, PlainClears, Jobs, Steps, Judged, Standing, Check,
     Do, Note, Open
<1>5. PlainCatches(s, Documented["tg_resolution_breadth"])
  BY <1>1, <1>2, NothingIsEmpty DEF PlainCatches, Steps, Check, Do, Note, Open
<1>6. Len(s) \in Nat
  BY <1>1
<1> HIDE DEF told
<1> QED
  BY <1>3, <1>4, <1>5, <1>6, PlainRehearsed DEF s

LEMMA StatementLifecycleRehearsed == Rehearsed("tg_statement_lifecycle")
<1> DEFINE s == Script["tg_statement_lifecycle"]
           told == [i \in 1..9 |-> Standing \cup (
                        IF i < 4 THEN {} ELSE
                        IF i < 8 THEN {"id", "listed", "predicate", "subject"} ELSE
                        {"chained", "id", "listed", "predicate", "subject", "superseded"})]
<1>1. /\ Len(s) = 8
      /\ s[1] = Open("A") /\ s[2] = Person
      /\ s[3] = Do([id |-> TRUE, subject |-> TRUE, predicate |-> TRUE, listed |-> TRUE])
      /\ s[4] = Check([id |-> TRUE])
      /\ s[5] = Check([id |-> TRUE, subject |-> TRUE, predicate |-> TRUE])
      /\ s[6] = Check([listed |-> TRUE]) /\ s[7] = Do([superseded |-> TRUE, chained |-> TRUE])
      /\ s[8] = Note([superseded |-> TRUE, chained |-> TRUE])
  BY DEF Script, StatementLifecycle
<1>2. Documented["tg_statement_lifecycle"] = [listed |-> FALSE, superseded |-> FALSE]
  BY DEF Documented
<1> HIDE DEF s
<1>3. PlainPlays(s, told)
  BY <1>1, NothingIsEmpty DEF PlainPlays, Steps, Same, Standing, Call, Check, Do, Note, Open,
     Person
<1>4. PlainTruth(s, told) /\ PlainClears(s, told)
  BY <1>1, NothingIsEmpty DEF PlainTruth, PlainClears, Jobs, Steps, Judged, Standing, Call,
     Check, Do, Note, Open, Person
<1>5. PlainCatches(s, Documented["tg_statement_lifecycle"])
  BY <1>1, <1>2, NothingIsEmpty DEF PlainCatches, Steps, Call, Check, Do, Note, Open, Person
<1>6. Len(s) \in Nat
  BY <1>1
<1> HIDE DEF told
<1> QED
  BY <1>3, <1>4, <1>5, <1>6, PlainRehearsed DEF s

LEMMA StatementDepthRehearsed == Rehearsed("tg_statement_depth")
<1> DEFINE s == Script["tg_statement_depth"]
           told == [i \in 1..16 |-> Standing \cup (
                        IF i < 6 THEN {} ELSE
                        IF i < 8 THEN {"listed"} ELSE
                        IF i < 12 THEN {"flagged", "kept"} ELSE
                        IF i < 15 THEN {"flagged", "grace", "kept", "retracted"} ELSE
                        {"flagged", "grace", "history", "kept", "retracted"})]
<1>1. /\ Len(s) = 15
      /\ s[1] = Open("A") /\ s[2] = Person /\ s[3] = Person /\ s[4] = Person
      /\ s[5] = Do([listed |-> TRUE]) /\ s[6] = Check([listed |-> TRUE])
      /\ s[7] = Do([listed |-> FALSE, kept |-> TRUE, flagged |-> TRUE])
      /\ s[8] = Check([listed |-> FALSE]) /\ s[9] = Check([kept |-> TRUE, flagged |-> TRUE])
      /\ s[10] = Tone /\ s[11] = Do([retracted |-> TRUE, grace |-> TRUE])
      /\ s[12] = Check([retracted |-> TRUE, grace |-> TRUE]) /\ s[13] = Tone
      /\ s[14] = Do([history |-> TRUE]) /\ s[15] = Note([history |-> TRUE])
  BY DEF Script, StatementDepth
<1>2. Documented["tg_statement_depth"] =
        [listed |-> TRUE, kept |-> FALSE, flagged |-> FALSE,
              grace |-> FALSE, history |-> FALSE]
  BY DEF Documented
<1> HIDE DEF s
<1>3. PlainPlays(s, told)
  BY <1>1, NothingIsEmpty DEF PlainPlays, Steps, Same, Standing, Call, Check, Do, Note, Open,
     Person, Tone
<1>4. PlainTruth(s, told) /\ PlainClears(s, told)
  BY <1>1, NothingIsEmpty DEF PlainTruth, PlainClears, Jobs, Steps, Judged, Standing, Call,
     Check, Do, Note, Open, Person, Tone
<1>5. PlainCatches(s, Documented["tg_statement_depth"])
  BY <1>1, <1>2, NothingIsEmpty DEF PlainCatches, Steps, Call, Check, Do, Note, Open, Person,
     Tone
<1>6. Len(s) \in Nat
  BY <1>1
<1> HIDE DEF told
<1> QED
  BY <1>3, <1>4, <1>5, <1>6, PlainRehearsed DEF s

LEMMA ProvenanceRehearsed == Rehearsed("tg_provenance_versioning")
<1> DEFINE s == Script["tg_provenance_versioning"]
           told == [i \in 1..5 |-> Standing \cup (
                        IF i < 4 THEN {} ELSE
                        {"first_version", "stamped"})]
<1>1. /\ Len(s) = 4
      /\ s[1] = Open("A") /\ s[2] = Person
      /\ s[3] = Do([stamped |-> TRUE, first_version |-> TRUE])
      /\ s[4] = Note([stamped |-> TRUE, first_version |-> TRUE, tombstoned |-> FALSE,
                      superseded |-> FALSE, supersedes |-> FALSE, redirected |-> FALSE])
  BY DEF Script, Provenance
<1>2. Documented["tg_provenance_versioning"] =
        [stamped |-> FALSE, first_version |-> FALSE, redirected |-> TRUE]
  BY DEF Documented
<1> HIDE DEF s
<1>3. PlainPlays(s, told)
  BY <1>1, NothingIsEmpty DEF PlainPlays, Steps, Same, Standing, Call, Do, Note, Open, Person
<1>4. PlainTruth(s, told) /\ PlainClears(s, told)
  BY <1>1, NothingIsEmpty DEF PlainTruth, PlainClears, Jobs, Steps, Judged, Standing, Call,
     Do, Note, Open, Person
<1>5. PlainCatches(s, Documented["tg_provenance_versioning"])
  BY <1>1, <1>2, NothingIsEmpty DEF PlainCatches, Steps, Call, Do, Note, Open, Person
<1>6. Len(s) \in Nat
  BY <1>1
<1> HIDE DEF told
<1> QED
  BY <1>3, <1>4, <1>5, <1>6, PlainRehearsed DEF s

LEMMA RelationLifecycleRehearsed == Rehearsed("tg_relation_lifecycle")
<1> DEFINE s == Script["tg_relation_lifecycle"]
           told == [i \in 1..8 |-> Standing \cup (
                        IF i < 5 THEN {} ELSE
                        {"id", "in_from", "in_to"})]
<1>1. /\ Len(s) = 7
      /\ s[1] = Open("A") /\ s[2] = Person /\ s[3] = Person
      /\ s[4] = Do([id |-> TRUE, in_from |-> TRUE, in_to |-> TRUE])
      /\ s[5] = Check([id |-> TRUE]) /\ s[6] = Note([in_from |-> TRUE])
      /\ s[7] = Note([in_to |-> TRUE])
  BY DEF Script, RelationLifecycle
<1>2. Documented["tg_relation_lifecycle"] = [in_from |-> FALSE, in_to |-> FALSE]
  BY DEF Documented
<1> HIDE DEF s
<1>3. PlainPlays(s, told)
  BY <1>1, NothingIsEmpty DEF PlainPlays, Steps, Same, Standing, Call, Check, Do, Note, Open,
     Person
<1>4. PlainTruth(s, told) /\ PlainClears(s, told)
  BY <1>1, NothingIsEmpty DEF PlainTruth, PlainClears, Jobs, Steps, Judged, Standing, Call,
     Check, Do, Note, Open, Person
<1>5. PlainCatches(s, Documented["tg_relation_lifecycle"])
  BY <1>1, <1>2, NothingIsEmpty DEF PlainCatches, Steps, Call, Check, Do, Note, Open, Person
<1>6. Len(s) \in Nat
  BY <1>1
<1> HIDE DEF told
<1> QED
  BY <1>3, <1>4, <1>5, <1>6, PlainRehearsed DEF s

LEMMA RelationTraversalRehearsed == Rehearsed("tg_relation_traversal")
<1> DEFINE s == Script["tg_relation_traversal"]
           told == [i \in 1..11 |-> Standing \cup (
                        IF i < 9 THEN {} ELSE
                        {"past_neighbour", "paths"})]
<1>1. /\ Len(s) = 10
      /\ s[1] = Open("A") /\ s[2] = Person /\ s[3] = Person /\ s[4] = Person /\ s[5] = Person
      /\ s[6] = Call /\ s[7] = Call /\ s[8] = Do([paths |-> TRUE, past_neighbour |-> TRUE])
      /\ s[9] = Check([paths |-> TRUE, past_neighbour |-> TRUE, past_three |-> FALSE])
      /\ s[10] = Note([past_one |-> FALSE])
  BY DEF Script, RelationTraversal
<1>2. Documented["tg_relation_traversal"] =
        [past_neighbour |-> FALSE, past_three |-> TRUE, past_one |-> TRUE]
  BY DEF Documented
<1> HIDE DEF s
<1>3. PlainPlays(s, told)
  BY <1>1, NothingIsEmpty DEF PlainPlays, Steps, Same, Standing, Call, Check, Do, Note, Open,
     Person
<1>4. PlainTruth(s, told) /\ PlainClears(s, told)
  BY <1>1, NothingIsEmpty DEF PlainTruth, PlainClears, Jobs, Steps, Judged, Standing, Call,
     Check, Do, Note, Open, Person
<1>5. PlainCatches(s, Documented["tg_relation_traversal"])
  BY <1>1, <1>2, NothingIsEmpty DEF PlainCatches, Steps, Call, Check, Do, Note, Open, Person
<1>6. Len(s) \in Nat
  BY <1>1
<1> HIDE DEF told
<1> QED
  BY <1>3, <1>4, <1>5, <1>6, PlainRehearsed DEF s

LEMMA ReadIntrospectionRehearsed == Rehearsed("tg_read_introspection")
<1> DEFINE s == Script["tg_read_introspection"]
           told == [i \in 1..11 |-> Standing \cup (
                        IF i < 5 THEN {} ELSE
                        {"funnel", "graph_lane", "hit", "lexical", "semantic", "trace"})]
<1>1. /\ Len(s) = 10
      /\ s[1] = Open("A") /\ s[2] = Call /\ s[3] = Call
      /\ s[4] = Do([trace |-> TRUE, semantic |-> TRUE, lexical |-> TRUE, graph_lane |-> TRUE,
                    funnel |-> TRUE, hit |-> TRUE])
      /\ s[5] = Check([trace |-> TRUE, semantic |-> TRUE, lexical |-> TRUE, funnel |-> TRUE])
      /\ s[6] = Check([kind_leaks |-> FALSE]) /\ s[7] = Call
      /\ s[8] = Check([high_grew |-> FALSE]) /\ s[9] = Check([hit |-> TRUE])
      /\ s[10] = Note([fabricated |-> FALSE])
  BY DEF Script, ReadIntrospection
<1>2. Documented["tg_read_introspection"] =
        [trace |-> FALSE, semantic |-> FALSE, lexical |-> FALSE,
              funnel |-> FALSE, kind_leaks |-> TRUE, hit |-> FALSE, fabricated |-> TRUE]
  BY DEF Documented
<1> HIDE DEF s
<1>3. PlainPlays(s, told)
  BY <1>1, NothingIsEmpty DEF PlainPlays, Steps, Same, Standing, Call, Check, Do, Note, Open
<1>4. PlainTruth(s, told) /\ PlainClears(s, told)
  BY <1>1, NothingIsEmpty DEF PlainTruth, PlainClears, Jobs, Steps, Judged, Standing, Call,
     Check, Do, Note, Open
<1>5. PlainCatches(s, Documented["tg_read_introspection"])
  BY <1>1, <1>2, NothingIsEmpty DEF PlainCatches, Steps, Call, Check, Do, Note, Open
<1>6. Len(s) \in Nat
  BY <1>1
<1> HIDE DEF told
<1> QED
  BY <1>3, <1>4, <1>5, <1>6, PlainRehearsed DEF s

LEMMA ExtractionPipelineRehearsed == Rehearsed("tg_extraction_pipeline")
<1> DEFINE s == Script["tg_extraction_pipeline"]
           told == [i \in 1..5 |-> Standing \cup (
                        IF i < 3 THEN {} ELSE
                        IF i < 5 THEN {"queued"} ELSE
                        {"entity", "queued"})]
           due == [i \in 1..5 |-> IF i < 3 THEN {} ELSE IF i < 5 THEN {"entity"} ELSE {}]
<1>1. /\ Len(s) = 4
      /\ s[1] = Open("A") /\ s[2] = Ack([queued |-> TRUE], [entity |-> TRUE])
      /\ s[3] = Check([queued |-> TRUE]) /\ s[4] = Poll([entity |-> TRUE])
  BY DEF Script, ExtractionPipeline
<1>2. Documented["tg_extraction_pipeline"] = [entity |-> FALSE]
  BY DEF Documented
<1> HIDE DEF s
<1>3. Opens(s, told, due)
  BY <1>1, NothingIsEmpty DEF Opens, Steps, Judged, Same, Empty, Standing, Ack, Check, Do,
     Open, Poll
<1>4. Reads(s, told, due)
  BY <1>1, NothingIsEmpty DEF Reads, Steps, Judged, Same, Ack, Check, Do, Open, Poll
<1>5. Calls(s, told, due)
  BY <1>1, NothingIsEmpty DEF Calls, Steps, Empty, Standing, Ack, Check, Do, Open, Poll
<1>6. Acks(s, due)
  BY <1>1, NothingIsEmpty DEF Acks, Steps, Same, Ack, Check, Do, Open, Poll
<1>7. Waits(s, told, due)
  <2>1. \A i \in Steps(s) : s[i].op = "poll" => i \in {4}
    BY <1>1 DEF Steps, Ack, Check, Do, Open, Poll
  <2>2. \A i \in {4} :
          /\ Empty(due[i + 1])
          /\ \A f : f \in told[i + 1] <=> f \in told[i] \/ f \in due[i]
    BY DEF Empty
  <2>3. /\ "entity" \in due[4] \cap DOMAIN s[4].facts /\ s[4].facts["entity"]
    BY <1>1 DEF Empty, Poll
  <2> QED
    BY <2>1, <2>2, <2>3 DEF Waits
<1>8. Fresh(s, told, due)
  BY <1>1, NothingIsEmpty DEF Fresh, Standing, Ack, Check, Do, Open, Poll
<1>9. Truthful(s, told, due)
  BY <1>1, NothingIsEmpty DEF Truthful, Steps, Judged, Standing, Ack, Check, Do, Open, Poll
<1>10. Catches(s, due, Documented["tg_extraction_pipeline"])
  BY <1>1, <1>2, NothingIsEmpty DEF Catches, Steps, Exposes, Empty, Ack, Check, Do, Open, Poll
<1>11. Clears(s, told, due)
  BY <1>1, NothingIsEmpty DEF Clears, Jobs, Standing, Ack, Check, Do, Open, Poll
<1> QED
  BY <1>3, <1>4, <1>5, <1>6, <1>7, <1>8, <1>9, <1>10, <1>11 DEF Rehearsed, Sound, Plays, s

LEMMA SchemaTransitionRehearsed == Rehearsed("tg_scaffold_schema_transition")
<1> DEFINE s == Script["tg_scaffold_schema_transition"]
           told == [i \in 1..9 |-> Standing \cup (
                        IF i < 4 THEN {} ELSE
                        IF i < 7 THEN {"anchor"} ELSE
                        {"anchor", "declared_stored", "uploaded"})]
<1>1. /\ Len(s) = 8
      /\ s[1] = Open("A") /\ s[2] = Person /\ s[3] = Do([anchor |-> TRUE])
      /\ s[4] = Check([anchor |-> TRUE]) /\ s[5] = Refused([undeclared_stored |-> FALSE])
      /\ s[6] = Do([uploaded |-> TRUE, declared_stored |-> TRUE])
      /\ s[7] = Check([uploaded |-> TRUE]) /\ s[8] = Try([declared_stored |-> TRUE])
  BY DEF Script, SchemaTransition
<1>2. Documented["tg_scaffold_schema_transition"] = [declared_stored |-> FALSE]
  BY DEF Documented
<1> HIDE DEF s
<1>3. PlainPlays(s, told)
  BY <1>1, NothingIsEmpty DEF PlainPlays, Steps, Same, Standing, Call, Check, Do, Open,
     Person, Refused, Try
<1>4. PlainTruth(s, told) /\ PlainClears(s, told)
  BY <1>1, NothingIsEmpty DEF PlainTruth, PlainClears, Jobs, Steps, Judged, Standing, Call,
     Check, Do, Open, Person, Refused, Try
<1>5. PlainCatches(s, Documented["tg_scaffold_schema_transition"])
  BY <1>1, <1>2, NothingIsEmpty DEF PlainCatches, Steps, Call, Check, Do, Open, Person,
     Refused, Try
<1>6. Len(s) \in Nat
  BY <1>1
<1> HIDE DEF told
<1> QED
  BY <1>3, <1>4, <1>5, <1>6, PlainRehearsed DEF s

LEMMA StatementContradictionRehearsed == Rehearsed("tg_scaffold_contradiction")
<1> DEFINE s == Script["tg_scaffold_contradiction"]
           told == [i \in 1..8 |-> Standing \cup (
                        IF i < 3 THEN {} ELSE
                        IF i < 7 THEN {"uploaded"} ELSE
                        {"both_stored", "uploaded"})]
<1>1. /\ Len(s) = 7
      /\ s[1] = Open("A") /\ s[2] = Do([uploaded |-> TRUE])
      /\ s[3] = Check([uploaded |-> TRUE]) /\ s[4] = Person /\ s[5] = Call
      /\ s[6] = Do([both_stored |-> TRUE]) /\ s[7] = Note([both_stored |-> TRUE])
  BY DEF Script, StatementContradiction
<1>2. Documented["tg_scaffold_contradiction"] = [both_stored |-> FALSE]
  BY DEF Documented
<1> HIDE DEF s
<1>3. PlainPlays(s, told)
  BY <1>1, NothingIsEmpty DEF PlainPlays, Steps, Same, Standing, Call, Check, Do, Note, Open,
     Person
<1>4. PlainTruth(s, told) /\ PlainClears(s, told)
  BY <1>1, NothingIsEmpty DEF PlainTruth, PlainClears, Jobs, Steps, Judged, Standing, Call,
     Check, Do, Note, Open, Person
<1>5. PlainCatches(s, Documented["tg_scaffold_contradiction"])
  BY <1>1, <1>2, NothingIsEmpty DEF PlainCatches, Steps, Call, Check, Do, Note, Open, Person
<1>6. Len(s) \in Nat
  BY <1>1
<1> HIDE DEF told
<1> QED
  BY <1>3, <1>4, <1>5, <1>6, PlainRehearsed DEF s

LEMMA ResolutionFuzzyTiersRehearsed == Rehearsed("tg_scaffold_resolution_fuzzy")
<1> DEFINE s == Script["tg_scaffold_resolution_fuzzy"]
           told == [i \in 1..4 |-> Standing]
<1>1. /\ Len(s) = 3
      /\ s[1] = Open("A") /\ s[2] = Person /\ s[3] = Call
  BY DEF Script, ResolutionFuzzyTiers
<1>2. Documented["tg_scaffold_resolution_fuzzy"] = Nothing
  BY DEF Documented
<1> HIDE DEF s
<1>3. PlainPlays(s, told)
  BY <1>1, NothingIsEmpty DEF PlainPlays, Steps, Same, Standing, Call, Do, Open, Person
<1>4. PlainTruth(s, told) /\ PlainClears(s, told)
  BY <1>1, NothingIsEmpty DEF PlainTruth, PlainClears, Jobs, Steps, Judged, Standing, Call,
     Do, Open, Person
<1>5. PlainCatches(s, Documented["tg_scaffold_resolution_fuzzy"])
  BY <1>1, <1>2, NothingIsEmpty DEF PlainCatches, Steps, Call, Do, Open, Person
<1>6. Len(s) \in Nat
  BY <1>1
<1> HIDE DEF told
<1> QED
  BY <1>3, <1>4, <1>5, <1>6, PlainRehearsed DEF s

LEMMA ConfidenceAndSchemaVersionRehearsed == Rehearsed("tg_scaffold_confidence_schema")
<1> DEFINE s == Script["tg_scaffold_confidence_schema"]
           told == [i \in 1..5 |-> Standing \cup (
                        IF i < 4 THEN {} ELSE
                        {"confidence_in_range"})]
<1>1. /\ Len(s) = 4
      /\ s[1] = Open("A") /\ s[2] = Person /\ s[3] = Do([confidence_in_range |-> TRUE])
      /\ s[4] = Note([confidence_in_range |-> TRUE])
  BY DEF Script, ConfidenceAndSchemaVersion
<1>2. Documented["tg_scaffold_confidence_schema"] = [confidence_in_range |-> FALSE]
  BY DEF Documented
<1> HIDE DEF s
<1>3. PlainPlays(s, told)
  BY <1>1, NothingIsEmpty DEF PlainPlays, Steps, Same, Standing, Call, Do, Note, Open, Person
<1>4. PlainTruth(s, told) /\ PlainClears(s, told)
  BY <1>1, NothingIsEmpty DEF PlainTruth, PlainClears, Jobs, Steps, Judged, Standing, Call,
     Do, Note, Open, Person
<1>5. PlainCatches(s, Documented["tg_scaffold_confidence_schema"])
  BY <1>1, <1>2, NothingIsEmpty DEF PlainCatches, Steps, Call, Do, Note, Open, Person
<1>6. Len(s) \in Nat
  BY <1>1
<1> HIDE DEF told
<1> QED
  BY <1>3, <1>4, <1>5, <1>6, PlainRehearsed DEF s

LEMMA ExtractionTierObserveRehearsed == Rehearsed("tg_scaffold_extraction_tiers")
<1> DEFINE s == Script["tg_scaffold_extraction_tiers"]
           told == [i \in 1..4 |-> Standing \cup (IF i < 3 THEN {} ELSE {"reads"})]
<1>1. /\ Len(s) = 3
      /\ s[1] = Open("A") /\ s[2] = Do([reads |-> TRUE]) /\ s[3] = Note([reads |-> TRUE])
  BY DEF Script, ExtractionTierObserve
<1>2. Documented["tg_scaffold_extraction_tiers"] = [reads |-> FALSE]
  BY DEF Documented
<1> HIDE DEF s
<1>3. PlainPlays(s, told)
  BY <1>1, NothingIsEmpty DEF PlainPlays, Steps, Same, Standing, Do, Note, Open
<1>4. PlainTruth(s, told) /\ PlainClears(s, told)
  BY <1>1, NothingIsEmpty DEF PlainTruth, PlainClears, Jobs, Steps, Judged, Standing, Do,
     Note, Open
<1>5. PlainCatches(s, Documented["tg_scaffold_extraction_tiers"])
  BY <1>1, <1>2, NothingIsEmpty DEF PlainCatches, Steps, Do, Note, Open
<1>6. Len(s) \in Nat
  BY <1>1
<1> HIDE DEF told
<1> QED
  BY <1>3, <1>4, <1>5, <1>6, PlainRehearsed DEF s

LEMMA ExtractionGuardrailsObserveRehearsed == Rehearsed("tg_scaffold_extraction_guardrails")
<1> DEFINE s == Script["tg_scaffold_extraction_guardrails"]
           told == [i \in 1..4 |-> Standing \cup (IF i < 3 THEN {} ELSE {"reads"})]
<1>1. /\ Len(s) = 3
      /\ s[1] = Open("A") /\ s[2] = Do([reads |-> TRUE]) /\ s[3] = Note([reads |-> TRUE])
  BY DEF Script, ExtractionGuardrailsObserve
<1>2. Documented["tg_scaffold_extraction_guardrails"] = [reads |-> FALSE]
  BY DEF Documented
<1> HIDE DEF s
<1>3. PlainPlays(s, told)
  BY <1>1, NothingIsEmpty DEF PlainPlays, Steps, Same, Standing, Do, Note, Open
<1>4. PlainTruth(s, told) /\ PlainClears(s, told)
  BY <1>1, NothingIsEmpty DEF PlainTruth, PlainClears, Jobs, Steps, Judged, Standing, Do,
     Note, Open
<1>5. PlainCatches(s, Documented["tg_scaffold_extraction_guardrails"])
  BY <1>1, <1>2, NothingIsEmpty DEF PlainCatches, Steps, Do, Note, Open
<1>6. Len(s) \in Nat
  BY <1>1
<1> HIDE DEF told
<1> QED
  BY <1>3, <1>4, <1>5, <1>6, PlainRehearsed DEF s

LEMMA AllRehearsed == \A name \in DOMAIN Script : Rehearsed(name)
BY MultiSpaceIsolationRehearsed, PlanReasonIsolationRehearsed, EncodeRecallForgetRehearsed,
     TxnReadYourWritesRehearsed, DelegatedTxnRehearsed, IdempotencyRehearsed,
     TombstoneVisibilityRehearsed, SlotVersionRehearsed, AuditRehearsed, RebuildRehearsed,
     BackfillRehearsed, MetricsFamiliesRehearsed, StorageFootprintRehearsed,
     SchemaLifecycleRehearsed, SchemaDropRehearsed, EntityLifecycleRehearsed,
     EntityMergeUnmergeRehearsed, ResolutionBreadthRehearsed, StatementLifecycleRehearsed,
     StatementDepthRehearsed, ProvenanceRehearsed, RelationLifecycleRehearsed,
     RelationTraversalRehearsed, ReadIntrospectionRehearsed, ExtractionPipelineRehearsed,
     SchemaTransitionRehearsed, StatementContradictionRehearsed,
     ResolutionFuzzyTiersRehearsed, ConfidenceAndSchemaVersionRehearsed,
     ExtractionTierObserveRehearsed, ExtractionGuardrailsObserveRehearsed
   DEF Script

-----------------------------------------------------------------------------
\* The theorems.

LEMMA ClosesAlways == ScenariosSpec => []Closes
<1>1. ScenariosInit => Closes
  BY DEF ScenariosInit, Closes
<1>2. Closes /\ [ScenariosNext]_scenarioVars => Closes'
  <2>1. SUFFICES ASSUME Closes, [ScenariosNext]_scenarioVars
                 PROVE  Closes'
    OBVIOUS
  <2>2. CASE UNCHANGED scenarioVars
    BY <2>1, <2>2 DEF Closes, scenarioVars
  <2>3. CASE stage = "run" /\ RunScenario
    BY <2>3 DEF Closes, RunScenario, Connect, Act, Agree, Remember, Mismatch, PollAgain,
       PollOut, CallFails, AnswerFails, RunEnds, Close, CloseFails, Verdict, Advance
  <2>4. CASE stage # "run" /\ RunScenario
    BY <2>4 DEF Closes, RunScenario, Connect, Act, Agree, Remember, Mismatch, PollAgain,
       PollOut, CallFails, AnswerFails, RunEnds, Close, CloseFails, Verdict, AtStep
  <2>5. CASE Derive
    BY <2>1, <2>5 DEF Closes, Derive
  <2> QED
    BY <2>1, <2>2, <2>3, <2>4, <2>5 DEF ScenariosNext, ScenarioDone
<1> QED
  BY <1>1, <1>2, PTL DEF ScenariosSpec

PlotInv == \E told, due : ScenesInv(told, due)

LEMMA PlotAlways == ScenariosSpec => []PlotInv
<1>1. ScenariosInit => PlotInv
  <2>1. SUFFICES ASSUME ScenariosInit
                 PROVE  PlotInv
    OBVIOUS
  <2>2. Rehearsed(scenario)
    BY <2>1, AllRehearsed DEF ScenariosInit
  <2> QED
    BY <2>1, <2>2, FirstScene DEF Rehearsed, PlotInv
<1>2. PlotInv /\ [ScenariosNext]_scenarioVars => PlotInv'
  BY StepKeeps DEF PlotInv
<1> QED
  BY <1>1, <1>2, PTL DEF ScenariosSpec

\* A scenario never passes against a server with a fault it is documented to catch,
\* however late the server derives what it acknowledged.
THEOREM FaultsCaught == ScenariosSpec => []FaultsAreCaught
<1>1. PlotInv /\ Closes => FaultsAreCaught
  BY FinalScene DEF PlotInv
<1> QED
  BY <1>1, PlotAlways, ClosesAlways, PTL

\* A scenario that passes leaves no connection open, no backfill running and no
\* transaction begun.
THEOREM PassesLeaveNothing == ScenariosSpec => []PassLeavesNothing
<1>1. PlotInv /\ Closes => PassLeavesNothing
  BY FinalScene DEF PlotInv
<1> QED
  BY <1>1, PlotAlways, ClosesAlways, PTL

\* A scenario fails only for a fault of the server, a failed call, or a poll that ran
\* out of rereads.
THEOREM HealthyPasses == ScenariosSpec => []HealthyServerPasses
<1>1. PlotInv /\ Closes => HealthyServerPasses
  BY FinalScene DEF PlotInv
<1> QED
  BY <1>1, PlotAlways, ClosesAlways, PTL
=============================================================================
