----------------------------- MODULE EvalRunner -----------------------------
(***************************************************************************)
(* EvalRunner::run of src/src/bench/runner.rs: one benchmark run.          *)
(*                                                                         *)
(*   plan     a space and a data-plane key for each conversation           *)
(*   ingest   write every conversation, a bounded number at a time         *)
(*   merge    record the questions of the conversations that failed        *)
(*   barrier  wait once for the server's write pipeline                    *)
(*   read     recall and judge, a bounded number of conversations at a time*)
(*   record   merge the results in instance order and report them          *)
(*                                                                         *)
(* The barrier is the one DrainContract states and DrainBarrier implements.*)
(* After the run a read-only run may follow over the manifest it left.     *)
(* Conversations are numbered in the order of their keys in the BTreeMap.  *)
(***************************************************************************)
EXTENDS Integers, SequencesExt

CONSTANTS
    Turns,         \* Turns[c][s]: the user turns of session s of conversation c
    Conversation,  \* Conversation[q]: the conversation instance q asks about
    Configs        \* the RunConfigs and environments considered

Conversations == DOMAIN Turns
Instances == DOMAIN Conversation
InstancesOf(c) == {q \in Instances : Conversation[q] = c}

\* concurrency         BRAIN_EVAL_CONCURRENCY
\* persist             persist_spaces is set
\* verify              verify_memory_list
\* retrievalOnly       retrieval_only
\* drain               BRAIN_EVAL_NO_DRAIN is not set
\* outputDir           output_dir can be created and written to
RunConfigs ==
    [concurrency : Nat, persist : BOOLEAN, verify : BOOLEAN,
     retrievalOnly : BOOLEAN, drain : BOOLEAN, outputDir : BOOLEAN]

ASSUME RunnerAssumption ==
    /\ Turns \in Seq(Seq(Nat))
    /\ Conversation \in Seq(Conversations)
    /\ Configs \subseteq RunConfigs

VARIABLES
    config,
    readOnly,   \* read_only_spaces is set: the second run
    pc,         \* the phase of the run
    plan,       \* plan[c]: Planned.space and its reason
    tokens,     \* the conversations whose space has a cached token
    persisted,  \* the conversations in the in-memory manifest
    task,       \* task[c]: the future of conversation c
    at,         \* at[c]: the session being ingested and its turns sent so far
    sent,       \* sent[c]: that session's counts, held by harness.ingest
    cw,         \* cw[c]: ConvWrite
    answer,     \* answer[q]: the QuestionResult of q, once there is one
    ledger,     \* the conversations with a ConversationWrite row
    report,     \* question_results and question_records, in order
    tracker,    \* the .partial.jsonl file, in order
    manifest,   \* the manifest file: absent or broken, or the conversations it names
    store,      \* store[c]: the memories the server holds of c
    pipeline,   \* the server's write pipeline: busy or settled
    verdict,    \* what the barrier found out
    early       \* the questions whose recall ran on a busy pipeline

clientVars == <<plan, tokens, persisted, task, at, sent, cw, answer, ledger, report>>
diskVars == <<tracker, manifest>>
serverVars == <<store, pipeline, verdict, early>>
vars == <<config, readOnly, pc, clientVars, diskVars, serverVars>>

Barrier == INSTANCE DrainContract

Phases == {"plan", "ingest", "merge", "barrier", "read", "record", "report"}
Ends == {"done", "aborted", "panicked", "crashed"}

Counts == [attempted : Nat, stored : Nat, deduplicated : Nat]
NoCounts == [attempted |-> 0, stored |-> 0, deduplicated |-> 0]
Writes == [counts : Counts, failed : BOOLEAN]
Skipped == [counts |-> NoCounts, failed |-> FALSE]

\* Grading is abstracted to whether a judge saw the answer.
Results == [graded : {"judged", "not_judged", "incorrect"},
            ingestFailed : BOOLEAN, retrievalFailed : BOOLEAN, counts : Counts]
Unanswered == [graded |-> "none"]
Absent == [present |-> FALSE, spaces |-> {}]

Tasks == {"waiting", "connecting", "writing", "failed", "ingested",
          "reconnecting", "reading", "read"}

\* The types of a run's locals, of the files it leaves and of the server's state.
TypeOK ==
    /\ config \in RunConfigs
    /\ readOnly \in BOOLEAN
    /\ pc \in {"preflight"} \cup Phases \cup Ends
    /\ plan \in [Conversations -> {"unplanned", "ready", "no_space", "no_key"}]
    /\ tokens \subseteq Conversations
    /\ persisted \subseteq Conversations
    /\ task \in [Conversations -> Tasks]
    /\ at \in [Conversations -> [session : Nat, turn : Nat]]
    /\ sent \in [Conversations -> Counts]
    /\ cw \in [Conversations -> Writes]
    /\ answer \in [Instances -> Results \cup {Unanswered}]
    /\ ledger \subseteq Conversations
    /\ report \in Seq(Instances)
    /\ tracker \in Seq(Instances)
    /\ manifest \in [present : BOOLEAN, spaces : SUBSET Conversations]
    /\ store \in [Conversations -> Nat]
    /\ pipeline \in {"busy", "settled"}
    /\ verdict \in {"waiting", "settled", "guessed", "gave_up"}
    /\ early \subseteq Instances

\* The results as a reader of the run sees them, for RunContract.
ResultLog == [i \in DOMAIN report |-> [question |-> report[i], result |-> answer[report[i]]]]

PhaseOfLog ==
    CASE pc \in Ends -> "over"
      [] pc \in {"read", "record", "report"} -> "reading"
      [] OTHER -> "writing"

\* A run starts with nothing but the files and the server of the run before it.
FreshRun(plan0, task0, at0, counts0, cw0, answer0) ==
    /\ plan0 = [c \in Conversations |-> "unplanned"]
    /\ task0 = [c \in Conversations |-> "waiting"]
    /\ at0 = [c \in Conversations |-> [session |-> 1, turn |-> 0]]
    /\ counts0 = [c \in Conversations |-> NoCounts]
    /\ cw0 = [c \in Conversations |-> Skipped]
    /\ answer0 = [q \in Instances |-> Unanswered]

Init ==
    /\ config \in Configs
    /\ readOnly = FALSE
    /\ pc = "preflight"
    /\ FreshRun(plan, task, at, sent, cw, answer)
    /\ tokens = {} /\ persisted = {} /\ ledger = {} /\ report = <<>>
    /\ tracker = <<>>
    /\ manifest = Absent
    /\ store = [c \in Conversations |-> 0]
    /\ pipeline = "settled"
    /\ verdict = "waiting"
    /\ early = {}

\* The least of S, if S has any.
First(S) == {n \in S : \A m \in S : n <= m}

-----------------------------------------------------------------------------
(***************************************************************************)
(* Before any conversation: the manifest of a read-only run must load, and *)
(* the admin plane must mint a throwaway key.                              *)
(***************************************************************************)
Preflight ==
    /\ pc = "preflight"
    /\ readOnly => manifest.present
    /\ pc' = "plan"
    /\ UNCHANGED <<config, readOnly, clientVars, diskVars, serverVars>>

PreflightFails ==
    /\ pc = "preflight"
    /\ pc' = "aborted"
    /\ UNCHANGED <<config, readOnly, clientVars, diskVars, serverVars>>

Unplanned == {c \in Conversations : plan[c] = "unplanned"}

\* A read-only run without a recorded space cannot run this conversation.
PlanWithoutSpace ==
    /\ pc = "plan"
    /\ readOnly
    /\ \E c \in First(Unplanned) :
         /\ c \notin manifest.spaces
         /\ plan' = [plan EXCEPT ![c] = "no_space"]
    /\ UNCHANGED <<config, readOnly, pc, tokens, persisted, task, at, sent, cw,
                   answer, ledger, report, diskVars, serverVars>>

\* Faulty variant of CacheToken: the minted key is used and not cached.
UseTokenOnce(c) == tokens

CacheToken(c) == tokens \cup {c}

\* Faulty variant of RecordSpace: the last conversation replaces the others.
RecordLastSpace(c) == IF readOnly \/ ~config.persist THEN persisted ELSE {c}

RecordSpace(c) == IF readOnly \/ ~config.persist THEN persisted ELSE persisted \cup {c}

\* A key for the space, which persist mode records; or the mint fails.
PlanSpace ==
    /\ pc = "plan"
    /\ \E c \in First(Unplanned) :
         /\ readOnly => c \in manifest.spaces
         /\ \/ /\ plan' = [plan EXCEPT ![c] = "ready"]
               /\ tokens' = CacheToken(c)
               /\ persisted' = RecordSpace(c)
            \/ /\ plan' = [plan EXCEPT ![c] = "no_key"]
               /\ UNCHANGED <<tokens, persisted>>
    /\ UNCHANGED <<config, readOnly, pc, task, at, sent, cw, answer, ledger, report,
                   diskVars, serverVars>>

EndPlan ==
    /\ pc = "plan"
    /\ Unplanned = {}
    /\ pc' = "ingest"
    /\ UNCHANGED <<config, readOnly, clientVars, diskVars, serverVars>>

-----------------------------------------------------------------------------
(***************************************************************************)
(* buffer_unordered over the conversations: futures start in the order of  *)
(* the map, a bounded number at a time, and finish in any order.           *)
(***************************************************************************)
\* Faulty variant of Slots: the .max(1) forgotten.
UncheckedSlots == config.concurrency

Slots == IF config.concurrency = 0 THEN 1 ELSE config.concurrency

InFlight == {c \in Conversations :
               task[c] \in {"connecting", "writing", "reconnecting", "reading"}}

MayStart(c, state) ==
    /\ Cardinality(InFlight) < Slots
    /\ c \in First({d \in Conversations : task[d] = state})

Becomes(c, state) == task' = [task EXCEPT ![c] = state]

StartIngest(c) ==
    /\ pc = "ingest"
    /\ MayStart(c, "waiting")
    /\ Becomes(c, IF plan[c] = "ready" THEN "connecting" ELSE "failed")
    /\ UNCHANGED <<config, readOnly, pc, plan, tokens, persisted, at, sent, cw,
                   answer, ledger, report, diskVars, serverVars>>

\* Faulty variant of AfterConnect: the read-only check forgotten.
AlwaysWrite == "writing"

AfterConnect == IF readOnly THEN "ingested" ELSE "writing"

Connects(c) ==
    /\ task[c] = "connecting"
    /\ Becomes(c, AfterConnect)
    /\ UNCHANGED <<config, readOnly, pc, plan, tokens, persisted, at, sent, cw,
                   answer, ledger, report, diskVars, serverVars>>

ConnectFails(c) ==
    /\ task[c] = "connecting"
    /\ Becomes(c, "failed")
    /\ UNCHANGED <<config, readOnly, pc, plan, tokens, persisted, at, sent, cw,
                   answer, ledger, report, diskVars, serverVars>>

\* Faulty variant of Add: a merged turn counted as a fresh memory.
AddAllAsStored(total, more) ==
    [attempted |-> total.attempted + more.attempted,
     stored |-> total.stored + more.attempted,
     deduplicated |-> total.deduplicated]

Add(total, more) ==
    [attempted |-> total.attempted + more.attempted,
     stored |-> total.stored + more.stored,
     deduplicated |-> total.deduplicated + more.deduplicated]

FreshTurn == [attempted |-> 1, stored |-> 1, deduplicated |-> 0]
MergedTurn == [attempted |-> 1, stored |-> 0, deduplicated |-> 1]

SendTurn(c, turn) ==
    /\ sent' = [sent EXCEPT ![c] = Add(@, turn)]
    /\ at' = [at EXCEPT ![c] = [session |-> @.session, turn |-> @.turn + 1]]

\* The server holds one more memory of c and has work to do for it.
ServerStores(c) ==
    /\ store' = [store EXCEPT ![c] = @ + 1]
    /\ pipeline' = "busy"

TurnLeft(c) ==
    /\ task[c] = "writing"
    /\ at[c].session \in DOMAIN Turns[c]
    /\ at[c].turn < Turns[c][at[c].session]

EncodeStores(c) ==
    /\ TurnLeft(c)
    /\ SendTurn(c, FreshTurn)
    /\ ServerStores(c)
    /\ UNCHANGED <<config, readOnly, pc, plan, tokens, persisted, task, cw, answer,
                   ledger, report, diskVars, verdict, early>>

\* The write router merges the turn into a memory the space already holds.
EncodeDeduplicates(c) ==
    /\ TurnLeft(c)
    /\ store[c] > 0
    /\ SendTurn(c, MergedTurn)
    /\ UNCHANGED <<config, readOnly, pc, plan, tokens, persisted, task, cw, answer,
                   ledger, report, diskVars, serverVars>>

NextSession(c) ==
    /\ at' = [at EXCEPT ![c] = [session |-> @.session + 1, turn |-> 0]]
    /\ sent' = [sent EXCEPT ![c] = NoCounts]

\* Faulty variant of AfterFailure: the error logged and not remembered.
ForgetFailure(w) == w

AfterFailure(w) == [w EXCEPT !.failed = TRUE]

\* An encode fails, before or after the server applied it.  The session's
\* remaining turns are not sent and what was counted of it is lost.
EncodeFails(c) ==
    /\ TurnLeft(c)
    /\ NextSession(c)
    /\ cw' = [cw EXCEPT ![c] = AfterFailure(@)]
    /\ ServerStores(c) \/ UNCHANGED <<store, pipeline>>
    /\ UNCHANGED <<config, readOnly, pc, plan, tokens, persisted, task, answer,
                   ledger, report, diskVars, verdict, early>>

SessionEnds(c) ==
    /\ task[c] = "writing"
    /\ at[c].session \in DOMAIN Turns[c]
    /\ at[c].turn = Turns[c][at[c].session]
    /\ cw' = [cw EXCEPT ![c].counts = Add(@, sent[c])]
    /\ NextSession(c)
    /\ UNCHANGED <<config, readOnly, pc, plan, tokens, persisted, task, answer,
                   ledger, report, diskVars, serverVars>>

\* The last session is written; the socket is released.
IngestEnds(c) ==
    /\ task[c] = "writing"
    /\ at[c].session \notin DOMAIN Turns[c]
    /\ Becomes(c, "ingested")
    /\ UNCHANGED <<config, readOnly, pc, plan, tokens, persisted, at, sent, cw,
                   answer, ledger, report, diskVars, serverVars>>

EndIngest ==
    /\ pc = "ingest"
    /\ \A c \in Conversations : task[c] \in {"ingested", "failed"}
    /\ pc' = "merge"
    /\ UNCHANGED <<config, readOnly, clientVars, diskVars, serverVars>>

-----------------------------------------------------------------------------
(***************************************************************************)
(* The questions of a conversation that could not be established are       *)
(* recorded before anything is read, in the order of the groups.           *)
(***************************************************************************)
\* Faulty variant of FailedAnswer: the write record where its counts belong.
UntypedFailure(ingestFailed) ==
    [graded |-> "incorrect", ingestFailed |-> ingestFailed,
     retrievalFailed |-> ~ingestFailed, counts |-> Skipped]

FailedAnswer(ingestFailed) ==
    [graded |-> "incorrect", ingestFailed |-> ingestFailed,
     retrievalFailed |-> ~ingestFailed, counts |-> NoCounts]

Open(c) == {q \in InstancesOf(c) : answer[q] = Unanswered}

\* Faulty variant of Unmerged: one failed question for the whole group.
UntouchedGroups ==
    {c \in Conversations : task[c] = "failed" /\ Open(c) = InstancesOf(c)}

Unmerged == {c \in Conversations : task[c] = "failed" /\ Open(c) # {}}

\* IncrementalTracker::record, whose errors are only logged, and the two lists of
\* the report.
Record(q) ==
    /\ report' = Append(report, q)
    /\ tracker' = IF config.outputDir THEN Append(tracker, q) ELSE tracker

RecordFailed ==
    /\ pc = "merge"
    /\ \E c \in First(Unmerged) : \E q \in First(Open(c)) :
         /\ answer' = [answer EXCEPT ![q] = FailedAnswer(TRUE)]
         /\ Record(q)
    /\ UNCHANGED <<config, readOnly, pc, plan, tokens, persisted, task, at, sent, cw,
                   ledger, manifest, serverVars>>

EndMerge ==
    /\ pc = "merge"
    /\ Unmerged = {}
    /\ pc' = "barrier"
    /\ UNCHANGED <<config, readOnly, clientVars, diskVars, serverVars>>

Prepared == {c \in Conversations : task[c] # "failed"}

\* Faulty variant of IngestedAny: a conversation that lost a session not counted.
IngestedAnyWhole == ~readOnly /\ \E c \in Prepared : ~cw[c].failed

IngestedAny == ~readOnly /\ Prepared # {}

\* One barrier for the whole run, when something was written.
AwaitFlush ==
    /\ pc = "barrier"
    /\ IngestedAny /\ config.drain
    /\ Barrier!ReturnSettled \/ Barrier!ReturnUnsure
    /\ pc' = "read"
    /\ UNCHANGED <<config, readOnly, clientVars, diskVars, store, early>>

SkipFlush ==
    /\ pc = "barrier"
    /\ ~(IngestedAny /\ config.drain)
    /\ pc' = "read"
    /\ UNCHANGED <<config, readOnly, clientVars, diskVars, serverVars>>

-----------------------------------------------------------------------------
(***************************************************************************)
(* Reading back, on a new connection with the cached token.                *)
(***************************************************************************)
\* Faulty variant of FailGroup: the results of every conversation are replaced.
FailEveryGroup(c) == answer' = [q \in Instances |-> FailedAnswer(FALSE)]

FailGroup(c) ==
    answer' = [q \in Instances |->
                 IF Conversation[q] = c THEN FailedAnswer(FALSE) ELSE answer[q]]

StartRead(c) ==
    /\ pc = "read"
    /\ MayStart(c, "ingested")
    /\ IF c \in tokens
       THEN Becomes(c, "reconnecting") /\ UNCHANGED answer
       ELSE Becomes(c, "read") /\ FailGroup(c)
    /\ UNCHANGED <<config, readOnly, pc, plan, tokens, persisted, at, sent, cw,
                   ledger, report, diskVars, serverVars>>

\* An ingesting run ledgers the conversation's writes here.
Reconnects(c) ==
    /\ task[c] = "reconnecting"
    /\ Becomes(c, "reading")
    /\ ledger' = IF readOnly THEN ledger ELSE ledger \cup {c}
    /\ UNCHANGED <<config, readOnly, pc, plan, tokens, persisted, at, sent, cw,
                   answer, report, diskVars, serverVars>>

ReconnectFails(c) ==
    /\ task[c] = "reconnecting"
    /\ Becomes(c, "read")
    /\ FailGroup(c)
    /\ UNCHANGED <<config, readOnly, pc, plan, tokens, persisted, at, sent, cw,
                   ledger, report, diskVars, serverVars>>

\* verify_memory_list walks the pages of the space; a failed page ends the walk.
\* With nothing listed its assertion takes the whole run down.
VerifyList(c) ==
    /\ config.verify
    /\ task[c] = "reading"
    /\ \E listed \in {0, store[c]} :
         IF listed > 0
         THEN Becomes(c, "read") /\ UNCHANGED pc
         ELSE pc' = "panicked" /\ UNCHANGED task
    /\ UNCHANGED <<config, readOnly, plan, tokens, persisted, at, sent, cw,
                   answer, ledger, report, diskVars, serverVars>>

\* run_question: recall, then unless the run is retrieval-only synthesise and
\* judge, also what a failed recall returned.
Ask(c) ==
    /\ ~config.verify
    /\ task[c] = "reading"
    /\ \E q \in First(Open(c)), recallFails \in BOOLEAN :
         /\ answer' = [answer EXCEPT ![q] =
              [graded |-> IF config.retrievalOnly THEN "not_judged" ELSE "judged",
               ingestFailed |-> cw[c].failed,
               retrievalFailed |-> recallFails,
               counts |-> cw[c].counts]]
         /\ early' = IF pipeline = "busy" THEN early \cup {q} ELSE early
    /\ UNCHANGED <<config, readOnly, pc, plan, tokens, persisted, task, at, sent, cw,
                   ledger, report, diskVars, store, pipeline, verdict>>

ReadEnds(c) ==
    /\ ~config.verify
    /\ task[c] = "reading"
    /\ Open(c) = {}
    /\ Becomes(c, "read")
    /\ UNCHANGED <<config, readOnly, pc, plan, tokens, persisted, at, sent, cw,
                   answer, ledger, report, diskVars, serverVars>>

EndRead ==
    /\ pc = "read"
    /\ \A c \in Prepared : task[c] = "read"
    /\ pc' = "record"
    /\ UNCHANGED <<config, readOnly, clientVars, diskVars, serverVars>>

-----------------------------------------------------------------------------
(***************************************************************************)
(* The results of the read phase are recorded in instance order, whatever  *)
(* order the conversations finished in.  The run ends with its files.      *)
(***************************************************************************)
Reported == {report[i] : i \in DOMAIN report}

Unrecorded == {q \in Instances : answer[q] # Unanswered} \ Reported

\* Faulty variant of NextToRecord: results taken as they come.
AnyUnrecorded == Unrecorded

NextToRecord == First(Unrecorded)

RecordRead ==
    /\ pc = "record"
    /\ \E q \in NextToRecord : Record(q)
    /\ UNCHANGED <<config, readOnly, pc, plan, tokens, persisted, task, at, sent, cw,
                   answer, ledger, manifest, serverVars>>

\* The manifest is written whenever persist_spaces is set.  The write may fail before
\* it touches the file, or half-way, which leaves a file that does not load.
SaveManifest ==
    /\ pc = "record"
    /\ Unrecorded = {}
    /\ pc' = "report"
    /\ manifest' \in IF config.persist
                     THEN {[present |-> TRUE, spaces |-> persisted], manifest, Absent}
                     ELSE {manifest}
    /\ UNCHANGED <<config, readOnly, clientVars, tracker, serverVars>>

WriteReports ==
    /\ pc = "report"
    /\ pc' = "done"
    /\ UNCHANGED <<config, readOnly, clientVars, diskVars, serverVars>>

-----------------------------------------------------------------------------
\* The process dies: what remains is on disk and in the server.
Crash ==
    /\ pc \notin Ends
    /\ pc' = "crashed"
    /\ UNCHANGED <<config, readOnly, clientVars, diskVars, serverVars>>

\* A read-only run over the manifest of the run before, in the same environment.
ReadOnlyRun ==
    /\ pc \in Ends
    /\ ~readOnly
    /\ readOnly' = TRUE
    /\ pc' = "preflight"
    /\ FreshRun(plan', task', at', sent', cw', answer')
    /\ tokens' = {} /\ persisted' = {} /\ ledger' = {} /\ report' = <<>>
    /\ tracker' = <<>>
    /\ early' = {}
    /\ UNCHANGED <<config, manifest, store, pipeline, verdict>>

\* The server's write pipeline catches up.
Settles ==
    /\ Barrier!Settle
    /\ UNCHANGED <<config, readOnly, pc, clientVars, diskVars, store, early>>

\* Both runs are over.
Idle == pc \in Ends /\ readOnly /\ UNCHANGED vars

IngestTask(c) ==
    \/ StartIngest(c) \/ Connects(c) \/ ConnectFails(c)
    \/ EncodeStores(c) \/ EncodeDeduplicates(c) \/ EncodeFails(c)
    \/ SessionEnds(c) \/ IngestEnds(c)

ReadTask(c) ==
    \/ StartRead(c) \/ Reconnects(c) \/ ReconnectFails(c)
    \/ VerifyList(c) \/ Ask(c) \/ ReadEnds(c)

\* The tasks are polled from within run: a panic or a crash ends them with it.
Running ==
    \/ Preflight \/ PreflightFails
    \/ PlanWithoutSpace \/ PlanSpace \/ EndPlan
    \/ pc = "ingest" /\ \E c \in Conversations : IngestTask(c)
    \/ EndIngest
    \/ RecordFailed \/ EndMerge
    \/ AwaitFlush \/ SkipFlush
    \/ pc = "read" /\ \E c \in Conversations : ReadTask(c)
    \/ EndRead
    \/ RecordRead \/ SaveManifest \/ WriteReports

Next == Running \/ Crash \/ ReadOnlyRun \/ Settles \/ Idle

Spec == Init /\ [][Next]_vars

\* The run waits for a call to which the code gives no timeout: the mint of a key, the
\* barrier with its scrapes, the scrape for the report.
AwaitsUntimed ==
    \/ pc = "preflight" /\ (readOnly => manifest.present)
    \/ pc = "plan" /\ \E c \in First(Unplanned) : readOnly => c \in manifest.spaces
    \/ pc = "barrier" /\ IngestedAny /\ config.drain
    \/ pc = "report" /\ ~readOnly /\ config.drain

\* The other calls end, with an answer or an error, by their request timeout.
FairSpec == Spec /\ WF_vars(~AwaitsUntimed /\ Running)

-----------------------------------------------------------------------------
\* A finished run has recorded each question it answered once, in the report and
\* in the tracker alike, if that can be written; and it has answered all, but for
\* the conversations that a verifying run only lists.
EveryQuestionOnce ==
    pc = "done" =>
        /\ tracker = IF config.outputDir THEN report ELSE <<>>
        /\ \A i, j \in DOMAIN report : i # j => report[i] # report[j]
        /\ Reported = {q \in Instances : ~config.verify \/ task[Conversation[q]] = "failed"
                                            \/ answer[q] # Unanswered}

FailedFirst(q) == answer[q] = FailedAnswer(TRUE)

\* The order of a report does not depend on which task finished first: questions of
\* conversations that never started come first, by conversation, then the others
\* in instance order.
ReportOrderIsScheduleFree ==
    \A i, j \in DOMAIN report : i < j =>
        LET p == report[i]
            q == report[j]
        IN  IF FailedFirst(q)
            THEN /\ FailedFirst(p)
                 /\ Conversation[p] <= Conversation[q]
                 /\ Conversation[p] = Conversation[q] => p < q
            ELSE FailedFirst(p) \/ p < q

Contract == INSTANCE RunContract
    WITH Questions <- Instances, Failure <- FailedAnswer(TRUE),
         log <- ResultLog, phase <- PhaseOfLog

\* A run's results are the log that RunContract describes: what a conversation's failure
\* or a later phase does never changes a result already recorded, and the read phase
\* records nothing before the barrier is over.
ImplementsRunContract == Contract!Spec

\* No question is asked of a graph still being built, unless the barrier gave up or
\* guessed, or was switched off; also in the read-only run that skips it.
ReadsSeeSettledGraph ==
    early # {} => ~config.drain \/ verdict \in {"guessed", "gave_up"}

TurnsOf(c) == FoldLeft(LAMBDA sum, n : sum + n, 0, Turns[c])

\* A question graded without a failure flag was asked of a complete haystack: each
\* turn of its conversation is in the store or merged into one that is.
UnflaggedMeansComplete ==
    ~readOnly =>
        \A q \in Instances :
            LET c == Conversation[q]
            IN  /\ answer[q] # Unanswered
                /\ ~answer[q].ingestFailed /\ ~answer[q].retrievalFailed
                => store[c] + cw[c].counts.deduplicated = TurnsOf(c)

\* A ledger row never claims more fresh memories than the server holds, and is
\* exact for a conversation that lost nothing.
LedgerIsHonest ==
    \A c \in ledger :
        /\ cw[c].counts.stored <= store[c]
        /\ ~cw[c].failed => cw[c].counts.stored = store[c]

\* A manifest that an ingesting run leaves names every conversation the run wrote
\* to: none of the memories a later read-only run could use is lost.
ManifestCoversStore ==
    manifest.present /\ ~readOnly =>
        {c \in Conversations : store[c] > 0} \subseteq manifest.spaces

\* A conversation that reached the read phase has its token cached, so the read
\* phase never reports "no cached data-plane token".
TokensOutliveIngest ==
    \A c \in Conversations :
        task[c] \in {"ingested", "reconnecting", "reading", "read"} => c \in tokens

\* A read-only run adds nothing to the store.
ReadOnlyNeverWrites == [][readOnly => store' = store]_vars

\* Every run comes to an end, a report, an error, a panic or a crash, unless it is stuck in
\* one of the calls without a timeout: its two phases of concurrent conversations cannot
\* hold each other up.
EveryRunEnds == pc \notin Ends ~> pc \in Ends \/ []AwaitsUntimed

\* "streams every graded question to <output_dir>/<id>-<ts>.partial.jsonl as it
\* goes, so even an interrupted run leaves a complete record" (brain-eval.rs:488).
GradedIsTracked ==
    \A q \in Instances :
        answer[q] # Unanswered => \E i \in DOMAIN tracker : tracker[i] = q

\* Of verify_memory_list: "a failed page is logged and stops the walk, never aborts the run"
\* (runner.rs:1160-1161).  A run that panics listed a space that holds nothing.
FailedPageNeverAborts ==
    pc = "panicked" => \E c \in Conversations : task[c] = "reading" /\ store[c] = 0

=============================================================================
