-------------------------- MODULE TypedGraphScripts --------------------------
(***************************************************************************)
(* The typed-graph scenarios of src/src/blackbox/system/typed_graph, and   *)
(* its scaffolds, in the form of module ScenarioScripts.                   *)
(***************************************************************************)
EXTENDS ScenarioScripts

\* make_person, create_person and create_tone, when their answer is not judged.
Person == Call
Tone   == Call

SchemaLifecycle == <<
    Open("A"),
    Do([clean |-> TRUE, ns |-> TRUE, version |-> TRUE, active |-> TRUE]),
    Check([clean |-> TRUE, ns |-> TRUE, version |-> TRUE]),
    Check([ns |-> TRUE, active |-> TRUE]),
    Do([good_valid |-> TRUE, bad_invalid |-> TRUE, bad_versioned |-> FALSE]),
    Check([good_valid |-> TRUE]),
    Note([bad_invalid |-> TRUE, bad_versioned |-> FALSE])>>

\* The second drop finds nothing to drop and leaves the version.
SchemaDrop == <<
    Open("A"),
    Do([clean |-> TRUE]),
    Check([clean |-> TRUE]),
    Do([drop_clean |-> TRUE, dropped |-> TRUE, live_rows |-> FALSE, bumped |-> TRUE,
        active |-> TRUE]),
    Check([drop_clean |-> TRUE, dropped |-> TRUE, live_rows |-> FALSE, bumped |-> TRUE]),
    Check([active |-> TRUE]),
    Do([redropped |-> FALSE, version_kept |-> TRUE]),
    Note([redropped |-> FALSE, version_kept |-> TRUE])>>

EntityLifecycle == <<
    Open("A"),
    Do([id |-> TRUE, name |-> TRUE, type |-> TRUE, resolves |-> TRUE, listed |-> TRUE]),
    Check([id |-> TRUE]),
    Check([id |-> TRUE, name |-> TRUE, type |-> TRUE]),
    Check([resolves |-> TRUE]),
    Note([listed |-> TRUE])>>

\* statement_reachable: the second statement, listed under the survivor A or under B.
UnderA(yes) == Check([under_a |-> yes])
UnderB(yes) == Check([under_b |-> yes])

EntityMergeUnmerge == <<
    Open("A"),
    Person,
    Do([distinct |-> TRUE]),
    Check([distinct |-> TRUE]),
    Tone,
    Do([under_b |-> TRUE]),
    UnderA(FALSE), UnderB(TRUE),
    Do([under_a |-> TRUE, redirects |-> TRUE]),
    Check([redirects |-> TRUE]),
    UnderA(TRUE),
    Do([under_a |-> FALSE, redirects |-> FALSE, restored |-> TRUE]),
    Check([restored |-> TRUE]),
    Check([redirects |-> FALSE]),
    Note([under_b |-> TRUE]), Note([under_a |-> FALSE])>>

ResolutionBreadth == <<
    Open("A"),
    Do([exact |-> TRUE]),
    Check([exact |-> TRUE]),
    Check([unknown_minted |-> FALSE]),
    Do([created |-> TRUE, created_resolves |-> TRUE]),
    Check([created |-> TRUE]),
    Check([created_resolves |-> TRUE]),
    Do([same_id |-> TRUE, by_new |-> TRUE, by_alias |-> TRUE]),
    Check([same_id |-> TRUE]),
    Check([by_new |-> TRUE]),
    Note([by_alias |-> TRUE])>>

\* A second statement on the predicate supersedes the first.
StatementLifecycle == <<
    Open("A"),
    Person,
    Do([id |-> TRUE, subject |-> TRUE, predicate |-> TRUE, listed |-> TRUE]),
    Check([id |-> TRUE]),
    Check([id |-> TRUE, subject |-> TRUE, predicate |-> TRUE]),
    Check([listed |-> TRUE]),
    Do([superseded |-> TRUE, chained |-> TRUE]),
    Note([superseded |-> TRUE, chained |-> TRUE])>>

\* list_ids, by default and with include_tombstoned.
StatementDepth == <<
    Open("A"),
    Person, Person, Person,
    Do([listed |-> TRUE]),
    Check([listed |-> TRUE]),
    Do([listed |-> FALSE, kept |-> TRUE, flagged |-> TRUE]),
    Check([listed |-> FALSE]),
    Check([kept |-> TRUE, flagged |-> TRUE]),
    Tone,
    Do([retracted |-> TRUE, grace |-> TRUE]),
    Check([retracted |-> TRUE, grace |-> TRUE]),
    Tone,
    Do([history |-> TRUE]),
    Note([history |-> TRUE])>>

\* All six problems are collected before the verdict.
Provenance == <<
    Open("A"),
    Person,
    Do([stamped |-> TRUE, first_version |-> TRUE]),
    Note([stamped |-> TRUE, first_version |-> TRUE, tombstoned |-> FALSE,
          superseded |-> FALSE, supersedes |-> FALSE, redirected |-> FALSE])>>

RelationLifecycle == <<
    Open("A"),
    Person, Person,
    Do([id |-> TRUE, in_from |-> TRUE, in_to |-> TRUE]),
    Check([id |-> TRUE]),
    Note([in_from |-> TRUE]), Note([in_to |-> TRUE])>>

\* The shallow traversal may be empty: only a step past its bound is looked for.
RelationTraversal == <<
    Open("A"),
    Person, Person, Person, Person, Call, Call,
    Do([paths |-> TRUE, past_neighbour |-> TRUE]),
    Check([paths |-> TRUE, past_neighbour |-> TRUE, past_three |-> FALSE]),
    Note([past_one |-> FALSE])>>

\* high_grew: the thresholded recall returned more memories than the plain one.
\* graph_lane and below_threshold are what the server does and no check reads.
ReadIntrospection == <<
    Open("A"),
    Call, Call,
    Do([trace |-> TRUE, semantic |-> TRUE, lexical |-> TRUE, graph_lane |-> TRUE,
        funnel |-> TRUE, hit |-> TRUE]),
    Check([trace |-> TRUE, semantic |-> TRUE, lexical |-> TRUE, funnel |-> TRUE]),
    Check([kind_leaks |-> FALSE]),
    Call,
    Check([high_grew |-> FALSE]),
    Check([hit |-> TRUE]),
    Note([fabricated |-> FALSE])>>

\* The poll accepts the entity by resolve or by list.
ExtractionPipeline == <<
    Open("A"),
    Ack([queued |-> TRUE], [entity |-> TRUE]),
    Check([queued |-> TRUE]),
    Poll([entity |-> TRUE])>>

-----------------------------------------------------------------------------
\* The scaffolds: what they are sure of fails them, the rest is advisory.

SchemaTransition == <<
    Open("A"),
    Person,
    Do([anchor |-> TRUE]),
    Check([anchor |-> TRUE]),
    Refused([undeclared_stored |-> FALSE]),
    Do([uploaded |-> TRUE, declared_stored |-> TRUE]),
    Check([uploaded |-> TRUE]),
    Try([declared_stored |-> TRUE])>>

StatementContradiction == <<
    Open("A"),
    Do([uploaded |-> TRUE]),
    Check([uploaded |-> TRUE]),
    Person, Call,
    Do([both_stored |-> TRUE]),
    Note([both_stored |-> TRUE])>>

ResolutionFuzzyTiers == <<Open("A"), Person, Call>>

ConfidenceAndSchemaVersion == <<
    Open("A"), Person,
    Do([confidence_in_range |-> TRUE]),
    Note([confidence_in_range |-> TRUE])>>

ExtractionTierObserve == <<
    Open("A"),
    Do([reads |-> TRUE]),
    Note([reads |-> TRUE])>>

ExtractionGuardrailsObserve == <<
    Open("A"),
    Do([reads |-> TRUE]),
    Note([reads |-> TRUE])>>

-----------------------------------------------------------------------------
\* The suites, in the order their functions run them.

CoreSuite == <<"multi_space_isolation", "plan_reason_isolation", "encode_recall_forget",
               "txn_read_your_writes", "delegated_txn">>

InvariantSuite == <<"inv_idempotency_request_id", "inv_tombstone_visibility",
                    "inv_slot_version_stale_id">>

AdminSuite == <<"audit_derivation_logged", "index_rebuild", "resumable_backfill",
                "metrics_families_present">>

TypedGraphSuite == <<"tg_schema_lifecycle", "tg_schema_drop", "tg_entity_lifecycle",
                     "tg_entity_merge_unmerge", "tg_resolution_breadth",
                     "tg_statement_lifecycle", "tg_statement_depth",
                     "tg_provenance_versioning", "tg_relation_lifecycle",
                     "tg_relation_traversal", "tg_read_introspection",
                     "tg_extraction_pipeline">>

ScaffoldSuite == <<"tg_scaffold_schema_transition", "tg_scaffold_contradiction",
                   "tg_scaffold_resolution_fuzzy", "tg_scaffold_confidence_schema",
                   "tg_scaffold_extraction_tiers", "tg_scaffold_extraction_guardrails">>

Script == [
    multi_space_isolation |-> MultiSpaceIsolation,
    plan_reason_isolation |-> PlanReasonIsolation,
    encode_recall_forget |-> EncodeRecallForget,
    txn_read_your_writes |-> TxnReadYourWrites,
    delegated_txn |-> DelegatedTxn,
    inv_idempotency_request_id |-> Idempotency,
    inv_tombstone_visibility |-> TombstoneVisibility,
    inv_slot_version_stale_id |-> SlotVersion,
    audit_derivation_logged |-> Audit,
    index_rebuild |-> Rebuild,
    resumable_backfill |-> Backfill,
    metrics_families_present |-> MetricsFamilies,
    storage_footprint |-> StorageFootprint,
    tg_schema_lifecycle |-> SchemaLifecycle,
    tg_schema_drop |-> SchemaDrop,
    tg_entity_lifecycle |-> EntityLifecycle,
    tg_entity_merge_unmerge |-> EntityMergeUnmerge,
    tg_resolution_breadth |-> ResolutionBreadth,
    tg_statement_lifecycle |-> StatementLifecycle,
    tg_statement_depth |-> StatementDepth,
    tg_provenance_versioning |-> Provenance,
    tg_relation_lifecycle |-> RelationLifecycle,
    tg_relation_traversal |-> RelationTraversal,
    tg_read_introspection |-> ReadIntrospection,
    tg_extraction_pipeline |-> ExtractionPipeline,
    tg_scaffold_schema_transition |-> SchemaTransition,
    tg_scaffold_contradiction |-> StatementContradiction,
    tg_scaffold_resolution_fuzzy |-> ResolutionFuzzyTiers,
    tg_scaffold_confidence_schema |-> ConfidenceAndSchemaVersion,
    tg_scaffold_extraction_tiers |-> ExtractionTierObserve,
    tg_scaffold_extraction_guardrails |-> ExtractionGuardrailsObserve]
=============================================================================
