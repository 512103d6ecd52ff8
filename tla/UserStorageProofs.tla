------------------------- MODULE UserStorageProofs -------------------------
(***************************************************************************)
(* Proofs about UserStorage, for any number of calls of load_user and of   *)
(* versions, any of them malformed, undecodable or without a plan.         *)
(***************************************************************************)
EXTENDS UserStorage, TLAPS

-------------------------------------------------------------------------------
(* Types.                                                                  *)

LEMMA TypeInit == Init => TypeOK
  BY VersionsAssumption DEF Init, TypeOK, Version, Steps

LEMMA TypeLoad ==
  ASSUME TypeOK, NEW r \in Reader, Begin(r) \/ Load(r)
  PROVE  TypeOK'
<1>1. CASE Begin(r)
  BY <1>1, VersionsAssumption DEF TypeOK, Begin, files, Version, Steps
<1>2. CASE GetProfile(r)
  BY <1>2, VersionsAssumption DEF TypeOK, GetProfile, Return, files, Version, Steps, Errors
<1>3. CASE ProfileBytes(r)
  BY <1>3 DEF TypeOK, ProfileBytes, Return, files, Steps, Errors
<1>4. CASE GetPlan(r)
  BY <1>4 DEF TypeOK, GetPlan, Return, files, Steps, Errors
<1>5. CASE PlanBytes(r)
  BY <1>5 DEF TypeOK, PlanBytes, Return, files, Steps, Errors
<1> QED
  BY <1>1, <1>2, <1>3, <1>4, <1>5 DEF Load

Publisher == PublishPlan \/ PublishProfile \/ RemoveProfile \/ RemovePlan

\* The publisher needs the invariant of its own order of writing, below.
InStep ==
  /\ publisher = "idle" => plan = PlanOf(profile)
  /\ publisher = "profile" => plan = PlanOf(latest + 1) /\ latest < MaxVersion
  /\ publisher = "remove_plan" => profile = 0
  /\ profile \in {0, latest}
  /\ plan \in {0, latest, latest + 1}

LEMMA TypePublisher ==
  ASSUME TypeOK, InStep, Publisher
  PROVE  TypeOK'
<1>0. latest \in Nat /\ MaxVersion \in Nat /\ latest <= MaxVersion
  BY VersionsAssumption DEF TypeOK, Version
<1>1. UNCHANGED <<pc, verbose, opened, got_profile, got_plan, result, planned>>
  BY DEF Publisher, PublishPlan, PublishProfile, RemoveProfile, RemovePlan, local
<1>2. /\ profile' \in Version /\ plan' \in Version /\ latest' \in Version
      /\ publisher' \in {"idle", "profile", "remove_plan"}
  BY <1>0 DEF Publisher, PublishPlan, PublishProfile, RemoveProfile, RemovePlan,
              TypeOK, Version, InStep, PlanOf
<1>3. seen' \in [Reader -> SUBSET Version]
  <2>1. \A v \in Version : Saw(v) => seen' \in [Reader -> SUBSET Version]
    BY DEF Saw, TypeOK
  <2>2. 0 \in Version
    BY <1>0 DEF Version
  <2> QED
    BY <1>2, <2>1, <2>2 DEF Publisher, PublishPlan, PublishProfile, RemoveProfile,
                            RemovePlan, TypeOK
<1> QED
  BY <1>1, <1>2, <1>3 DEF TypeOK

-------------------------------------------------------------------------------
(* The publisher keeps the two files in step.                              *)

LEMMA InStepNext == TypeOK /\ InStep /\ [Next]_vars => InStep'
<1> SUFFICES ASSUME TypeOK, InStep, [Next]_vars PROVE InStep'
  OBVIOUS
<1>0. latest \in Nat /\ MaxVersion \in Nat /\ latest <= MaxVersion
  BY VersionsAssumption DEF TypeOK, Version
<1>1. CASE UNCHANGED files
  BY <1>1 DEF files, InStep
<1>2. CASE Publisher
  BY <1>0, <1>2
  DEF Publisher, PublishPlan, PublishProfile, RemoveProfile, RemovePlan, InStep, PlanOf
<1>3. Next => UNCHANGED files \/ Publisher
  BY DEF Next, Load, Begin, GetProfile, ProfileBytes, GetPlan, PlanBytes, Publisher
<1> QED
  BY <1>1, <1>2, <1>3 DEF vars

LEMMA TypeNext == TypeOK /\ InStep /\ [Next]_vars => TypeOK'
<1> SUFFICES ASSUME TypeOK, InStep, [Next]_vars PROVE TypeOK'
  OBVIOUS
<1>1. CASE UNCHANGED vars
  BY <1>1 DEF vars, files, local, TypeOK
<1> QED
  BY <1>1, TypeLoad, TypePublisher DEF Next, Publisher

-------------------------------------------------------------------------------
(* What a call has read, step by step.                                     *)

\* What excuses a call that found no plan: a version without one, the profile's
\* or one begun since, or a removal.
Excused(r) == 0 \in seen[r] \/ \E v \in Planless : got_profile[r] <= v /\ v <= Begun

Reads(r) ==
  /\ profile \in seen[r]
  /\ pc[r] = "profile_bytes" => opened[r] \in seen[r] \ {0}
  /\ pc[r] \in {"get_plan", "plan_bytes"} =>
       /\ got_profile[r] \in (seen[r] \ {0}) \ Malformed
       /\ got_profile[r] <= latest
       /\ got_plan[r] = 0
  /\ pc[r] = "profile_bytes" => opened[r] <= latest /\ got_plan[r] = 0
  /\ pc[r] = "get_profile" => got_plan[r] = 0
  /\ pc[r] = "plan_bytes" => opened[r] # 0 /\ got_profile[r] <= opened[r]
  /\ result[r] = "record" =>
       /\ got_profile[r] \in (seen[r] \ {0}) \ Malformed
       /\ got_plan[r] # 0 => got_profile[r] <= got_plan[r]
       /\ verbose[r] /\ got_plan[r] = 0 => Excused(r)
  /\ result[r] = "not_found" => 0 \in seen[r]

AllRead == \A r \in Reader : Reads(r)

\* One call's steps touch no other call.
LEMMA OtherReads ==
  ASSUME TypeOK, NEW r \in Reader, Reads(r), UNCHANGED <<profile, latest, publisher>>,
         UNCHANGED <<seen[r], pc[r], opened[r], got_profile[r], got_plan[r],
                     result[r], verbose[r]>>
  PROVE  Reads(r)'
  BY DEF Reads, Excused, Begun

LEMMA LoadReads ==
  ASSUME TypeOK, InStep, AllRead, NEW r \in Reader, Begin(r) \/ Load(r)
  PROVE  Reads(r)'
<1>0. /\ Reads(r) /\ latest \in Nat /\ profile \in Nat /\ plan \in Nat
      /\ opened[r] \in Nat /\ got_profile[r] \in Nat /\ got_plan[r] \in Nat
      /\ (result[r] # "none") <=> (pc[r] = "done")
      /\ pc[r] \in {"get_plan", "plan_bytes"} => verbose[r]
  BY VersionsAssumption DEF AllRead, TypeOK, Version
<1>1. CASE Begin(r)
  BY <1>0, <1>1 DEF TypeOK, Begin, files, Reads
<1>2. CASE GetProfile(r)
  BY <1>0, <1>2 DEF TypeOK, GetProfile, Return, files, Reads, InStep, PlanOf
<1>3. CASE ProfileBytes(r)
  BY <1>0, <1>3 DEF TypeOK, ProfileBytes, Return, files, Reads
<1>4. CASE GetPlan(r)
  <2>1. plan # 0 => latest <= plan
    BY <1>0 DEF InStep, PlanOf
  <2>2. plan = 0 => Excused(r)
    <3>1. plan = 0 => profile = 0 \/ \E v \in Planless : latest <= v /\ v <= Begun
      BY <1>0, VersionsAssumption DEF InStep, PlanOf, Begun, TypeOK
    <3>2. ASSUME NEW v \in Planless, latest <= v, v <= Begun
          PROVE  got_profile[r] <= v
      BY <1>0, <1>4, <3>2, VersionsAssumption DEF Reads, GetPlan
    <3> QED
      BY <1>0, <1>4, <3>1, <3>2 DEF Reads, GetPlan, Excused
  <2>3. UNCHANGED <<seen, got_profile, verbose, latest, publisher, profile>>
    BY <1>4 DEF GetPlan, files
  <2>4. Excused(r) => Excused(r)'
    BY <2>3 DEF Excused, Begun
  <2> QED
    BY <1>0, <1>4, <2>1, <2>2, <2>3, <2>4 DEF TypeOK, GetPlan, Return, files, Reads
<1>5. CASE PlanBytes(r)
  BY <1>0, <1>5 DEF TypeOK, PlanBytes, Return, files, Reads
<1> QED
  BY <1>1, <1>2, <1>3, <1>4, <1>5 DEF Load

LEMMA PublisherReads ==
  ASSUME TypeOK, InStep, AllRead, Publisher, NEW r \in Reader
  PROVE  Reads(r)'
<1>1. UNCHANGED <<pc, verbose, opened, got_profile, got_plan, result>>
  BY DEF Publisher, PublishPlan, PublishProfile, RemoveProfile, RemovePlan, local
<1>2. latest \in Nat /\ latest' \in Nat /\ latest <= latest'
  BY VersionsAssumption DEF TypeOK, Version, Publisher, PublishPlan, PublishProfile,
                            RemoveProfile, RemovePlan
<1>3. seen[r] \subseteq seen'[r] /\ profile' \in seen'[r]
  BY DEF Publisher, PublishPlan, PublishProfile, RemoveProfile, RemovePlan, Saw,
         TypeOK, AllRead, Reads
<1>4. opened[r] \in Nat /\ got_profile[r] \in Nat /\ Reads(r)
  BY VersionsAssumption DEF TypeOK, Version, AllRead
<1>5. Excused(r) => Excused(r)'
  <2>1. Begun \in Nat /\ Begun' \in Nat /\ Begun <= Begun'
    BY VersionsAssumption DEF TypeOK, Version, Begun, Publisher, PublishPlan,
                              PublishProfile, RemoveProfile, RemovePlan
  <2>2. Planless \subseteq Nat
    BY VersionsAssumption
  <2> QED
    BY <1>1, <1>3, <2>1, <2>2 DEF Excused
<1> QED
  BY <1>1, <1>2, <1>3, <1>4, <1>5 DEF Reads

LEMMA ReadsNext == TypeOK /\ InStep /\ AllRead /\ [Next]_vars => AllRead'
<1> SUFFICES ASSUME TypeOK, InStep, AllRead, [Next]_vars, NEW q \in Reader
             PROVE  Reads(q)'
  BY DEF AllRead
<1>1. ASSUME NEW r \in Reader, Begin(r) \/ Load(r) PROVE Reads(q)'
  <2>1. CASE q = r
    BY <1>1, <2>1, LoadReads
  <2>2. CASE q # r
    <3>1. /\ UNCHANGED <<profile, latest, publisher>>
          /\ UNCHANGED <<seen[q], pc[q], opened[q], got_profile[q], got_plan[q],
                         result[q], verbose[q]>>
      BY <1>1, <2>2 DEF Load, Begin, GetProfile, ProfileBytes, GetPlan, PlanBytes,
                        Return, files, TypeOK
    <3> QED
      BY <3>1, OtherReads DEF AllRead
  <2> QED
    BY <2>1, <2>2
<1>2. CASE Publisher
  BY <1>2, PublisherReads
<1>3. CASE UNCHANGED vars
  BY <1>3, OtherReads DEF vars, files, local, AllRead
<1> QED
  BY <1>1, <1>2, <1>3 DEF Next, Publisher

-------------------------------------------------------------------------------

StorageInv == TypeOK /\ InStep /\ AllRead

LEMMA StorageInvariant == Spec => []StorageInv
<1>1. Init => StorageInv
  <2>1. Init => InStep /\ AllRead
    BY VersionsAssumption DEF Init, InStep, AllRead, Reads, PlanOf
  <2> QED
    BY <2>1, TypeInit DEF StorageInv
<1>2. StorageInv /\ [Next]_vars => StorageInv'
  BY TypeNext, InStepNext, ReadsNext DEF StorageInv
<1> QED
  BY <1>1, <1>2, PTL DEF Spec

\* A call has a result exactly when it is over, and a plan only if it was asked
\* for one (load_user, storage.rs:114-141).
THEOREM TypeCorrect == Spec => []TypeOK
  BY StorageInvariant, PTL DEF StorageInv

\* A record's profile was in place during the call and is well formed, and a user
\* reported missing was missing (storage.rs:122-133).
THEOREM ProfileAlwaysWasInPlace == Spec => []ProfileWasInPlace
<1>1. StorageInv => ProfileWasInPlace
  BY DEF StorageInv, AllRead, Reads, ProfileWasInPlace
<1> QED
  BY <1>1, StorageInvariant, PTL

\* However the publisher's steps fall between the reads of a call, no record joins
\* a profile to an older plan (storage.rs:122-135).
THEOREM PlanNeverOlder == Spec => []PlanNotOlder
<1>1. StorageInv => PlanNotOlder
  BY VersionsAssumption DEF StorageInv, AllRead, Reads, PlanNotOlder, TypeOK, Version
<1> QED
  BY <1>1, StorageInvariant, PTL

\* Nor does one join a profile to a plan missing before: a verbose record without a
\* plan comes from a version that has none, the profile's or a later one, or from a
\* removal during the call (storage.rs:97, 102 and 135).
THEOREM MissingPlanNeverOlder == Spec => []MissingPlanNotOlder
<1>1. StorageInv => MissingPlanNotOlder
  BY DEF StorageInv, AllRead, Reads, Excused, MissingPlanNotOlder
<1> QED
  BY <1>1, StorageInvariant, PTL
=============================================================================
