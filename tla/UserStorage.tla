----------------------------- MODULE UserStorage -----------------------------
(***************************************************************************)
(* ObjectStoreUserStore::load_user of src/src/storage.rs against a store   *)
(* whose files change while it reads them.                                 *)
(*                                                                         *)
(* A user is two files, a profile and a plan, read one after the other and *)
(* each in two awaits: get opens the file, bytes reads what was opened.    *)
(* Files are versions of themselves, 0 when there is none.  The store      *)
(* replaces a file as a whole, so an opened file keeps its version.        *)
(*                                                                         *)
(* Plans are optional (README.md:8-9 and 54-55): a version of a user may   *)
(* come without one.  The publisher outside the server puts a new plan in  *)
(* place, or takes the old one away, before the new profile, and removes   *)
(* the profile before the plan: the order that the order of load_user's    *)
(* reads makes safe.                                                       *)
(***************************************************************************)
EXTENDS Naturals

CONSTANTS
  Reader,       \* calls of load_user that can be in progress at once
  MaxVersion,   \* bound: versions the publisher puts in place
  Malformed,    \* versions whose profile FingerProfile::parse rejects
  Undecodable,  \* versions whose plan is not UTF-8
  Planless      \* versions that come without a plan

ASSUME VersionsAssumption ==
  /\ MaxVersion \in Nat
  /\ Malformed \subseteq 1..MaxVersion
  /\ Undecodable \subseteq 1..MaxVersion
  /\ Planless \subseteq 1..MaxVersion

VARIABLES
  profile,      \* the version of <username>.toml
  plan,         \* the version of <username>.plan
  latest,       \* the last version the publisher has completed
  publisher,    \* what the publisher does next
  pc,           \* where each call is
  verbose,      \* its include_plan
  opened,       \* the version of the file it has open
  got_profile,  \* the version of the profile it has read
  got_plan,     \* the version of the plan it returns, 0 for None
  result,       \* how it ended
  seen,         \* versions of the profile in place since it began (history)
  planned       \* the version of the plan when it began (history)

files == <<profile, plan, latest, publisher>>
local == <<verbose, opened, got_profile, got_plan, planned>>
vars  == <<files, pc, local, result, seen>>

Version == 0..MaxVersion
Steps   == {"idle", "get_profile", "profile_bytes", "get_plan", "plan_bytes", "done"}
Errors  == {"not_found", "parse", "encoding", "storage"}

Return(r, how) ==
  /\ pc' = [pc EXCEPT ![r] = "done"]
  /\ result' = [result EXCEPT ![r] = how]

-------------------------------------------------------------------------------
(* The call.                                                               *)

Begin(r) ==
  /\ pc[r] \in {"idle", "done"}
  /\ pc' = [pc EXCEPT ![r] = "get_profile"]
  /\ \E v \in BOOLEAN : verbose' = [verbose EXCEPT ![r] = v]
  /\ opened' = [opened EXCEPT ![r] = 0]
  /\ got_profile' = [got_profile EXCEPT ![r] = 0]
  /\ got_plan' = [got_plan EXCEPT ![r] = 0]
  /\ result' = [result EXCEPT ![r] = "none"]
  /\ seen' = [seen EXCEPT ![r] = {profile}]
  /\ planned' = [planned EXCEPT ![r] = plan]
  /\ UNCHANGED files

\* store.get on the profile: a missing file is a missing user.
GetProfile(r) ==
  /\ pc[r] = "get_profile"
  /\ \/ /\ profile # 0
        /\ opened' = [opened EXCEPT ![r] = profile]
        /\ pc' = [pc EXCEPT ![r] = "profile_bytes"]
        /\ UNCHANGED result
     \/ profile = 0 /\ Return(r, "not_found") /\ UNCHANGED opened
     \/ Return(r, "storage") /\ UNCHANGED opened
  /\ UNCHANGED <<files, verbose, got_profile, got_plan, seen, planned>>

\* Slip: the profile is parsed after the plan has been read, if at all.
ProfileBytesUnparsed(r) ==
  /\ pc[r] = "profile_bytes"
  /\ got_profile' = [got_profile EXCEPT ![r] = opened[r]]
  /\ IF verbose[r] THEN pc' = [pc EXCEPT ![r] = "get_plan"] /\ UNCHANGED result
                   ELSE Return(r, "record")
  /\ UNCHANGED <<files, verbose, opened, got_plan, seen, planned>>

\* Slip: the plan is read whether it was asked for or not.
ProfileBytesAlwaysPlan(r) ==
  /\ pc[r] = "profile_bytes"
  /\ got_profile' = [got_profile EXCEPT ![r] = opened[r]]
  /\ \/ opened[r] \in Malformed /\ Return(r, "parse")
     \/ /\ opened[r] \notin Malformed
        /\ pc' = [pc EXCEPT ![r] = "get_plan"]
        /\ UNCHANGED result
  /\ UNCHANGED <<files, verbose, opened, got_plan, seen, planned>>

\* The profile's bytes are read and parsed; the plan only matters if it was asked for.
ProfileBytes(r) ==
  /\ pc[r] = "profile_bytes"
  /\ got_profile' = [got_profile EXCEPT ![r] = opened[r]]
  /\ \/ opened[r] \in Malformed /\ Return(r, "parse")
     \/ opened[r] \notin Malformed /\ ~verbose[r] /\ Return(r, "record")
     \/ /\ opened[r] \notin Malformed /\ verbose[r]
        /\ pc' = [pc EXCEPT ![r] = "get_plan"]
        /\ UNCHANGED result
     \/ Return(r, "storage")
  /\ UNCHANGED <<files, verbose, opened, got_plan, seen, planned>>

\* Slip: the plan is opened before the profile, the requests being sent together.
GetPlanEarly(r) ==
  /\ pc[r] = "get_plan"
  /\ \/ /\ planned[r] # 0
        /\ opened' = [opened EXCEPT ![r] = planned[r]]
        /\ pc' = [pc EXCEPT ![r] = "plan_bytes"]
        /\ UNCHANGED result
     \/ planned[r] = 0 /\ Return(r, "record") /\ UNCHANGED opened
  /\ UNCHANGED <<files, verbose, got_profile, got_plan, seen, planned>>

\* store.get on the plan: a missing file is a record without a plan.
GetPlan(r) ==
  /\ pc[r] = "get_plan"
  /\ \/ /\ plan # 0
        /\ opened' = [opened EXCEPT ![r] = plan]
        /\ pc' = [pc EXCEPT ![r] = "plan_bytes"]
        /\ UNCHANGED result
     \/ plan = 0 /\ Return(r, "record") /\ UNCHANGED opened
     \/ Return(r, "storage") /\ UNCHANGED opened
  /\ UNCHANGED <<files, verbose, got_profile, got_plan, seen, planned>>

\* Slip: a plan that is not text is left out of the record.
PlanBytesLenient(r) ==
  /\ pc[r] = "plan_bytes"
  /\ got_plan' = [got_plan EXCEPT ![r] = IF opened[r] \in Undecodable THEN 0 ELSE opened[r]]
  /\ Return(r, "record")
  /\ UNCHANGED <<files, verbose, opened, got_profile, seen, planned>>

\* The plan's bytes, and whether they are text.
PlanBytes(r) ==
  /\ pc[r] = "plan_bytes"
  /\ \/ /\ opened[r] \notin Undecodable
        /\ got_plan' = [got_plan EXCEPT ![r] = opened[r]]
        /\ Return(r, "record")
     \/ opened[r] \in Undecodable /\ Return(r, "encoding") /\ UNCHANGED got_plan
     \/ Return(r, "storage") /\ UNCHANGED got_plan
  /\ UNCHANGED <<files, verbose, opened, got_profile, seen, planned>>

-------------------------------------------------------------------------------
(* The publisher.                                                          *)

Saw(v) == seen' = [r \in Reader |-> seen[r] \cup {v}]

\* The plan file that belongs to version v of the user.
PlanOf(v) == IF v \in Planless THEN 0 ELSE v

PublishPlan ==
  /\ publisher = "idle"
  /\ latest < MaxVersion
  /\ plan' = PlanOf(latest + 1)
  /\ publisher' = "profile"
  /\ UNCHANGED <<profile, latest, pc, local, result, seen>>

PublishProfile ==
  /\ publisher = "profile"
  /\ profile' = latest + 1
  /\ latest' = latest + 1
  /\ publisher' = "idle"
  /\ Saw(profile')
  /\ UNCHANGED <<plan, pc, local, result>>

RemoveProfile ==
  /\ publisher = "idle"
  /\ profile # 0
  /\ profile' = 0
  /\ publisher' = "remove_plan"
  /\ Saw(0)
  /\ UNCHANGED <<plan, latest, pc, local, result>>

RemovePlan ==
  /\ publisher = "remove_plan"
  /\ plan' = 0
  /\ publisher' = "idle"
  /\ UNCHANGED <<profile, latest, pc, local, result, seen>>

-------------------------------------------------------------------------------

Init ==
  /\ profile = 0 /\ plan = 0 /\ latest = 0
  /\ publisher = "idle"
  /\ pc = [r \in Reader |-> "idle"]
  /\ verbose = [r \in Reader |-> FALSE]
  /\ opened = [r \in Reader |-> 0]
  /\ got_profile = [r \in Reader |-> 0]
  /\ got_plan = [r \in Reader |-> 0]
  /\ result = [r \in Reader |-> "none"]
  /\ seen = [r \in Reader |-> {0}]
  /\ planned = [r \in Reader |-> 0]

Load(r) == GetProfile(r) \/ ProfileBytes(r) \/ GetPlan(r) \/ PlanBytes(r)

Next ==
  \/ \E r \in Reader : Begin(r) \/ Load(r)
  \/ PublishPlan \/ PublishProfile \/ RemoveProfile \/ RemovePlan

Spec == Init /\ [][Next]_vars

-------------------------------------------------------------------------------

\* A call has a result exactly when it is over, and reads a plan only if asked to.
TypeOK ==
  /\ profile \in Version /\ plan \in Version /\ latest \in Version
  /\ publisher \in {"idle", "profile", "remove_plan"}
  /\ pc \in [Reader -> Steps]
  /\ verbose \in [Reader -> BOOLEAN]
  /\ opened \in [Reader -> Version]
  /\ got_profile \in [Reader -> Version]
  /\ got_plan \in [Reader -> Version]
  /\ result \in [Reader -> {"none", "record"} \cup Errors]
  /\ seen \in [Reader -> SUBSET Version]
  /\ planned \in [Reader -> Version]
  /\ \A r \in Reader : /\ (result[r] # "none") <=> (pc[r] = "done")
                       /\ pc[r] \in {"get_plan", "plan_bytes"} => verbose[r]
                       /\ ~verbose[r] => got_plan[r] = 0

\* A record holds a well-formed profile that was in place at some moment of the
\* call, and a user is reported missing only if it was at some moment (122-133).
ProfileWasInPlace ==
  \A r \in Reader :
    /\ result[r] = "record" => got_profile[r] \in (seen[r] \ {0}) \ Malformed
    /\ result[r] = "not_found" => 0 \in seen[r]

\* No record joins a profile to an older plan, whatever the publisher does
\* between the reads (the plan is opened after the profile, lines 122-135).
PlanNotOlder ==
  \A r \in Reader :
    result[r] = "record" /\ got_plan[r] # 0 => got_plan[r] >= got_profile[r]

\* The last version the publisher has begun to put in place.
Begun == IF publisher = "profile" THEN latest + 1 ELSE latest

\* Nor does a record join a profile to a plan that was missing before: a verbose
\* record has no plan only if its profile's version or a later one comes without,
\* or the user was being removed meanwhile (line 102 takes a missing plan for no
\* plan, line 97 does not take one that is not text for a missing one).
MissingPlanNotOlder ==
  \A r \in Reader :
    result[r] = "record" /\ verbose[r] /\ got_plan[r] = 0
      => 0 \in seen[r] \/ \E v \in Planless : got_profile[r] <= v /\ v <= Begun
=============================================================================
