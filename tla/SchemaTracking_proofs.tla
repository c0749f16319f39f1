------------------------ MODULE SchemaTracking_proofs ------------------------
(***************************************************************************)
(* Proofs about SchemaTracking for any sequence of schemas and any number  *)
(* of commits.  Types hold whatever fails; versions follow schemas as long *)
(* as the state file can be read; files stay compatible until some run     *)
(* ends without having saved the schema of its files.                      *)
(***************************************************************************)
EXTENDS SchemaTracking, TLAPS

-----------------------------------------------------------------------------
(* Types                                                                   *)

(* A version is only given out with a commit.                              *)
VersionsEarned ==
    /\ saved # None => saved.version <= Len(log)
    /\ state # None => state.version <= Len(log)
    /\ pc # "idle" => plan \in PlanType /\ plan.version > 0
    /\ pc \in {"initialize", "commit"} => plan.version <= Len(log) + 1
    /\ pc \in {"update", "history"} => plan.version <= Len(log)

TInv == TypeOK /\ VersionsEarned

(* What the planner makes of a typed state.                                *)
LEMMA PlanTyped ==
    ASSUME NEW st \in ObjState \cup {None}, NEW s \in Schemas
    PROVE  /\ Plan(st, s) \in PlanType /\ Plan(st, s).schema = s
           /\ Plan(st, s).version > 0
           /\ st = None => Plan(st, s).version = 1 /\ Plan(st, s).mode = "full"
           /\ st # None => /\ Plan(st, s).version = st.version + (IF s # st.schema THEN 1 ELSE 0)
                           /\ Plan(st, s).mode = "incremental" => st.schema \subseteq s
  <1>1. CASE st = None
    BY <1>1 DEF Plan, PlanType, FirstVersion, Modes
  <1>2. CASE st # None
    <2>1. st \in ObjState /\ st.version \in Nat /\ st.version > 0
      BY <1>2, SchemaAssumption DEF ObjState, Versions
    <2>2. NextVersion(st, s) = st.version + (IF s # st.schema THEN 1 ELSE 0)
      BY DEF NextVersion
    <2>3. NextVersion(st, s) \in Nat /\ NextVersion(st, s) > 0
      BY <2>1, <2>2
    <2> QED
      BY <1>2, <2>2, <2>3 DEF Plan, PlanType, IsBreaking, Modes
  <1> QED
    BY <1>1, <1>2

(* Nothing was planned, committed or saved.                                *)
LEMMA TInvInit == Init => TInv
  <1> SUFFICES ASSUME Init PROVE TInv
    OBVIOUS
  <1>1. log \in Seq(CommitType) /\ Len(log) = 0
    BY DEF Init
  <1>2. strayed \in BOOLEAN
    BY DEF Init
  <1> QED
    BY <1>1, <1>2, SchemaAssumption DEF Init, TInv, TypeOK, VersionsEarned

(* The state that is put in memory after a commit.                         *)
LEMMA StateTyped ==
    ASSUME TInv, UpdateState
    PROVE  state' \in ObjState /\ state'.version <= Len(log)
  <1> USE SchemaAssumption DEF TInv, TypeOK, VersionsEarned
  <1>1. plan.schema \in Schemas /\ plan.version \in Nat
    BY DEF UpdateState, PlanType
  <1>2. plan.version \in Versions
    BY <1>1 DEF UpdateState, Versions
  <1> QED
    BY <1>1, <1>2 DEF UpdateState, ObjState

(* Every step keeps the types.                                             *)
LEMMA TInvStep == TInv /\ [Next]_vars => TInv'
  <1> SUFFICES ASSUME TInv, [Next]_vars PROVE TInv'
    OBVIOUS
  <1> USE SchemaAssumption DEF TInv, TypeOK, VersionsEarned
  <1>1. CASE Evolve
    BY <1>1 DEF Evolve, s3
  <1>2. CASE LoadAndPlan
    <2>1. state' \in ObjState \cup {None} /\ Evolution[current] \in Schemas
          /\ (state' # None => state'.version <= Len(log))
      BY <1>2 DEF LoadAndPlan, Schemas
    <2>2. plan' = Plan(state', Evolution[current])
      BY <1>2 DEF LoadAndPlan
    <2>3. plan' \in PlanType /\ plan'.version > 0 /\ plan'.version <= Len(log) + 1
      <3>1. CASE state' = None
        BY <2>1, <2>2, <3>1, PlanTyped
      <3>2. CASE state' # None
        <4>1. state'.version \in Nat
          BY <2>1, <3>2 DEF ObjState, Versions
        <4> QED
          BY <2>1, <2>2, <3>2, <4>1, PlanTyped
      <3> QED
        BY <3>1, <3>2
    <2> QED
      BY <1>2, <2>1, <2>3 DEF LoadAndPlan, s3
  <1>3. CASE Initialize
    <2>1. plan.schema \in Schemas
      BY <1>3 DEF Initialize, PlanType
    <2> QED
      BY <1>3, <2>1 DEF Initialize
  <1>4. CASE Commit
    <2>1. plan \in PlanType /\ [mode |-> plan.mode, schema |-> plan.schema] \in CommitType
      BY <1>4 DEF Commit, PlanType, CommitType
    <2>2. plan.version \in Nat /\ Len(log) \in Nat
      BY <2>1 DEF PlanType
    <2>3. CASE UNCHANGED log /\ pc' = "save"
      BY <1>4, <2>3 DEF Commit
    <2>4. CASE /\ Len(log) < MaxCommits
               /\ log' = Append(log, [mode |-> plan.mode, schema |-> plan.schema])
               /\ pc' \in {"update", "save"}
      <3>1. log' \in Seq(CommitType) /\ Len(log') = Len(log) + 1
        BY <2>1, <2>4
      <3>2. /\ saved # None => saved.version \in Nat
            /\ state # None => state.version \in Nat
        BY DEF ObjState, Versions
      <3> QED
        BY <1>4, <2>1, <2>2, <2>4, <3>1, <3>2 DEF Commit
    <2> QED
      BY <1>4, <2>3, <2>4 DEF Commit
  <1>5. CASE UpdateState
    BY <1>5, StateTyped DEF UpdateState, s3
  <1>6. CASE SaveSchemaVersion
    <2>1. plan.schema \in Schemas
      BY <1>6 DEF SaveSchemaVersion, PlanType
    <2> QED
      BY <1>6, <2>1 DEF SaveSchemaVersion
  <1>7. CASE Save \/ Crash
    <2>1. strayed' \in BOOLEAN
      BY <1>7 DEF Save, Crash, Ended
    <2> QED
      BY <1>7, <2>1 DEF Save, Crash, Ended, s3
  <1>8. CASE UNCHANGED vars
    BY <1>8 DEF vars, s3
  <1> QED
    BY <1>1, <1>2, <1>3, <1>4, <1>5, <1>6, <1>7, <1>8 DEF Next

(* Every variable keeps its type, whatever is lost, stopped or misreported.*)
THEOREM TrackingTypeCorrect == Spec => []TypeOK
  <1>1. Spec => []TInv
    BY TInvInit, TInvStep, PTL DEF Spec
  <1> QED
    BY <1>1, PTL DEF TInv

-----------------------------------------------------------------------------
(* Versions follow schemas when the state can be read                      *)

(* The state in memory is the saved one or what the plan, made from the    *)
(* saved one, makes of it.                                                 *)
FromSaved ==
    /\ pc # "idle" => plan = Plan(saved, plan.schema)
    /\ pc \in {"initialize", "commit", "update"} => state = saved
    /\ pc = "history" => state = [schema |-> plan.schema, version |-> plan.version]
    /\ pc = "save" => state \in {saved, [schema |-> plan.schema, version |-> plan.version]}

(* A run that loads the saved state keeps to it.                           *)
LEMMA FromSavedStep ==
    ASSUME ~LoadMayFail, TInv, FromSaved, [Next]_vars
    PROVE  FromSaved'
  <1> USE DEF FromSaved
  <1>1. CASE LoadAndPlan
    <2>1. state' = saved /\ saved' = saved /\ Evolution[current] \in Schemas
          /\ plan' = Plan(saved, Evolution[current]) /\ pc' = "initialize"
      BY <1>1 DEF LoadAndPlan, TInv, TypeOK, Schemas, s3
    <2>2. plan'.schema = Evolution[current]
      BY <2>1, PlanTyped DEF TInv, TypeOK
    <2> QED
      BY <2>1, <2>2
  <1>2. CASE Evolve \/ Initialize \/ Commit \/ UpdateState \/ SaveSchemaVersion
    BY <1>2 DEF Evolve, Initialize, Commit, UpdateState, SaveSchemaVersion, s3
  <1>3. CASE Save \/ Crash
    BY <1>3 DEF Save, Crash, Ended
  <1>4. CASE UNCHANGED vars
    BY <1>4 DEF vars, s3
  <1> QED
    BY <1>1, <1>2, <1>3, <1>4 DEF Next

(* The step that saves is the only one that changes what is saved.         *)
LEMMA SaveFollows ==
    ASSUME TInv, FromSaved, [Next]_vars, saved # None, saved' # saved
    PROVE  saved' # None /\ saved'.version = saved.version + 1 /\ saved'.schema # saved.schema
  <1>1. Save /\ saved' = state
    BY DEF Next, Evolve, LoadAndPlan, Initialize, Commit, UpdateState, SaveSchemaVersion, Save,
           Crash, s3, vars
  <1>2. plan \in PlanType /\ plan = Plan(saved, plan.schema) /\ plan.schema \in Schemas
    BY <1>1 DEF Save, TInv, VersionsEarned, FromSaved, PlanType
  <1>3. saved' = [schema |-> plan.schema, version |-> plan.version]
    BY <1>1 DEF Save, FromSaved
  <1>4. saved \in ObjState /\ saved = [schema |-> saved.schema, version |-> saved.version]
        /\ saved.version \in Nat
    BY SchemaAssumption DEF TInv, TypeOK, ObjState, Versions
  <1>5. plan.version = saved.version + (IF plan.schema # saved.schema THEN 1 ELSE 0)
    BY <1>2, <1>4, PlanTyped
  <1>6. plan.schema # saved.schema
    BY <1>3, <1>4, <1>5
  <1>7. saved' # None
    <2>1. saved.version <= MaxCommits /\ saved.version > 0
      BY <1>4, SchemaAssumption DEF TInv, TypeOK, VersionsEarned, ObjState, Versions
    <2>2. plan.version \in Versions
      BY <1>4, <1>5, <2>1, SchemaAssumption DEF Versions
    <2> QED
      BY <1>2, <1>3, <2>2, SchemaAssumption DEF ObjState
  <1> QED
    BY <1>3, <1>5, <1>6, <1>7

(* As long as the state file can be read, the saved version goes up by one *)
(* exactly when the saved schema changes, whatever crashes or is           *)
(* misreported.                                                            *)
THEOREM VersionsFollowSchemas ==
    ASSUME ~LoadMayFail
    PROVE  Spec => VersionFollowsSchema
  <1>1. Init => FromSaved
    BY DEF Init, FromSaved
  <1>2. TInv /\ FromSaved /\ [Next]_vars => FromSaved'
    BY FromSavedStep
  <1>3. TInv /\ FromSaved /\ [Next]_vars =>
          [saved # None /\ saved' # saved =>
             saved' # None /\ saved'.version = saved.version + 1 /\ saved'.schema # saved.schema]_vars
    BY SaveFollows
  <1> QED
    BY <1>1, <1>2, <1>3, TInvInit, TInvStep, PTL DEF Spec, VersionFollowsSchema

-----------------------------------------------------------------------------
(* Files stay compatible unless a run strayed                              *)

(* Unless some run strayed, a run that has not yet committed knows the     *)
(* schema of the newest files from the saved state.                        *)
LastCommitKnown ==
    ~strayed /\ pc \in {"idle", "initialize", "commit"} /\ Len(log) > 0 =>
        saved # None /\ saved.schema = log[Len(log)].schema

CInv == FromSaved /\ LastCommitKnown /\ FilesCompatible

(* An incremental commit extends the schema of the commit before it.       *)
LEMMA CommitCompatible ==
    ASSUME TInv, CInv, Commit
    PROVE  LastCommitKnown' /\ FilesCompatible'
  <1> DEFINE e == [mode |-> plan.mode, schema |-> plan.schema]
  <1>1. /\ plan \in PlanType /\ plan.schema \in Schemas
        /\ e \in CommitType /\ log \in Seq(CommitType) /\ Len(log) \in Nat
    BY DEF TInv, TypeOK, VersionsEarned, Commit, PlanType, CommitType
  <1>2. LastCommitKnown' /\ strayed' = strayed
    BY DEF Commit, LastCommitKnown
  <1>3. CASE strayed \/ UNCHANGED log
    BY <1>2, <1>3 DEF CInv, FilesCompatible, Compatible
  <1>4. CASE ~strayed /\ log' = Append(log, e)
    <2>1. /\ Len(log') = Len(log) + 1
          /\ log'[Len(log) + 1] = e
          /\ \A i \in 1..Len(log) : log'[i] = log[i]
      BY <1>1, <1>4
    <2>2. Len(log) > 0 /\ plan.mode = "incremental" => log[Len(log)].schema \subseteq plan.schema
      <3>1. plan = Plan(saved, plan.schema)
        BY DEF CInv, FromSaved, Commit
      <3>2. saved # None /\ plan.mode = "incremental" => saved.schema \subseteq plan.schema
        BY <1>1, <3>1, PlanTyped DEF TInv, TypeOK
      <3> QED
        BY <1>4, <3>2 DEF CInv, LastCommitKnown, Commit
    <2>3. ASSUME NEW i \in 2..Len(log'), log'[i].mode = "incremental"
          PROVE  log'[i - 1].schema \subseteq log'[i].schema
      <3>1. CASE i = Len(log) + 1
        <4>1. log'[i].mode = plan.mode /\ log'[i].schema = plan.schema /\ log'[i - 1] = log[Len(log)]
          BY <1>1, <2>1, <3>1, <2>3
        <4> QED
          BY <1>1, <2>1, <2>2, <2>3, <3>1, <4>1
      <3>2. CASE i \in 2..Len(log)
        BY <1>1, <1>4, <2>1, <2>3, <3>2 DEF CInv, FilesCompatible, Compatible
      <3> QED
        BY <1>1, <2>1, <2>3, <3>1, <3>2
    <2> QED
      BY <1>2, <2>3 DEF FilesCompatible, Compatible
  <1> QED
    BY <1>2, <1>3, <1>4 DEF Commit

(* A run that ends has strayed or leaves the newest schema saved.          *)
LEMMA EndedKnown ==
    ASSUME TInv, CInv, Ended, UNCHANGED log
    PROVE  LastCommitKnown' /\ FilesCompatible'
  <1>1. Len(log) > 0 => log # <<>>
    BY DEF TInv, TypeOK
  <1>2. ~strayed' => ~strayed
    BY DEF Ended
  <1>3. LastCommitKnown'
    BY <1>1 DEF Ended, Describes, LastCommitKnown
  <1>4. FilesCompatible'
    BY <1>2 DEF CInv, FilesCompatible, Compatible
  <1> QED
    BY <1>3, <1>4

(* Every step keeps the files compatible.                                  *)
LEMMA CInvStep ==
    ASSUME ~LoadMayFail, TInv, CInv, [Next]_vars
    PROVE  CInv'
  <1>1. FromSaved'
    BY FromSavedStep DEF CInv
  <1>2. CASE Commit
    BY <1>1, <1>2, CommitCompatible DEF CInv
  <1>3. CASE Evolve \/ LoadAndPlan \/ Initialize \/ UpdateState \/ SaveSchemaVersion
    BY <1>1, <1>3 DEF CInv, LastCommitKnown, FilesCompatible, Compatible, Evolve, LoadAndPlan,
                      Initialize, UpdateState, SaveSchemaVersion, s3
  <1>4. CASE Save \/ Crash
    <2>1. Ended /\ UNCHANGED log
      BY <1>4 DEF Save, Crash, s3
    <2> QED
      BY <1>1, <2>1, EndedKnown DEF CInv
  <1>5. CASE UNCHANGED vars
    BY <1>1, <1>5 DEF CInv, LastCommitKnown, FilesCompatible, Compatible, s3, vars
  <1> QED
    BY <1>2, <1>3, <1>4, <1>5 DEF Next

(* As long as the state can be read, and until some run ends without the   *)
(* schema of the newest files saved, every incremental commit keeps the    *)
(* fields of the files before it, whatever crashes or fails.               *)
THEOREM FilesStayCompatible ==
    ASSUME ~LoadMayFail
    PROVE  Spec => []FilesCompatible
  <1>1. Init => CInv
    <2> SUFFICES ASSUME Init PROVE CInv
      OBVIOUS
    <2>1. Len(log) = 0
      BY DEF Init
    <2> QED
      BY <2>1 DEF Init, CInv, FromSaved, LastCommitKnown, FilesCompatible, Compatible
  <1>2. TInv /\ CInv /\ [Next]_vars => CInv'
    BY CInvStep
  <1>3. CInv => FilesCompatible
    BY DEF CInv
  <1> QED
    BY <1>1, <1>2, <1>3, TInvInit, TInvStep, PTL DEF Spec
=============================================================================
