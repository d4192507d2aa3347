---------------------------- MODULE ThreadsProofs ----------------------------
(***************************************************************************)
(* What runs in threads of its own, for any bounds.                        *)
(*                                                                         *)
(* The queries of the administrator tabs, for any set of tabs, users and   *)
(* calls: their types; that each running slot is owed exactly one answer;  *)
(* that nothing is asked without a helper; and that data is kept when      *)
(* another tab is shown.                                                   *)
(*                                                                         *)
(* The process collector (C!), for any number of rounds, panics and        *)
(* refused threads: its types, that one round at a time is under way, and  *)
(* that every step is one that ScanPromise allows.                         *)
(***************************************************************************)
EXTENDS MCThreads, Sequences, TLAPS

USE TabsAssumption, UserAssumption, OutageAssumption

\* What sudo answers in any outage is an answer that run_raw knows.
LEMMA SudoAnswersType ==
    ASSUME TypeOK
    PROVE  SudoAnswers \subseteq Answers
BY DEF TypeOK, SudoAnswers, Answers

\* classify never says that the helper is gone: only locating it does.
LEMMA ClassifyType ==
    ASSUME NEW a \in Answers
    PROVE  Classify(a) \in PrivilegeStates \ {"HelperMissing"}
BY DEF Classify, Answers, PrivilegeStates

\* Nor does run: it keeps the state for an answer that says nothing of it.
LEMMA AfterRunType ==
    ASSUME NEW a \in Answers, TypeOK
    PROVE  /\ AfterRun(a) \in PrivilegeStates
           /\ AfterRun(a) = "HelperMissing" => priv = "HelperMissing"
BY DEF AfterRun, Answers, PrivilegeStates, TypeOK

\* The UI thread is always at one of its points.
LEMMA UiAtType ==
    ASSUME NEW point \in UiPoints, NEW authed \in BOOLEAN
    PROVE  UiAt(point, authed) \in UiRecords
BY DEF UiAt, UiRecords, Answers

\* So is the main loop.
LEMMA UiLoopType == UiLoop \in UiRecords
BY UiAtType DEF UiLoop, UiPoints

\* Starting a thread turns one free call into an asking one, and only that.
LEMMA SpawnType ==
    ASSUME TypeOK, NEW job \in Jobs, NEW user \in Users \cup {NoUser},
           Spawn(job, user)
    PROVE  call' \in [Calls -> CallRecords]
BY DEF TypeOK, Spawn, CallRecords, Answers

\* request_admin leaves slots and threads what they are, whether it asks or not.
LEMMA RequestAdminType ==
    ASSUME TypeOK, NEW t \in Tabs, NEW force \in BOOLEAN, RequestAdmin(t, force)
    PROVE  /\ call' \in [Calls -> CallRecords]
           /\ slot' \in [Tabs -> AsyncStates]
<1>1. CASE UNCHANGED <<slot, call>>
  BY <1>1 DEF TypeOK
<1>2. CASE slot' = [slot EXCEPT ![t] = "running"] /\ Spawn(t, NoUser)
  <2>1. t \in Jobs /\ NoUser \in Users \cup {NoUser}
    BY DEF Jobs
  <2>2. QED  BY <1>2, <2>1, SpawnType DEF TypeOK, AsyncStates
<1>3. QED  BY <1>1, <1>2 DEF RequestAdmin

\* Every step of Next keeps the types.
LEMMA TypePreserved == TypeOK /\ [Next]_vars => TypeOK'
<1> SUFFICES ASSUME TypeOK, [Next]_vars  PROVE TypeOK'
  OBVIOUS
<1> USE SudoAnswersType DEF TypeOK
<1>1. ASSUME NEW c \in Calls, CallAnswered(c)  PROVE TypeOK'
  BY <1>1 DEF CallAnswered, CallRecords, Answers
<1>2. ASSUME NEW c \in Calls, CallConcludes(c)  PROVE TypeOK'
  <2>1. call[c].ans \in Answers
    BY DEF CallRecords
  <2>2. priv' \in PrivilegeStates
    BY <1>2, <2>1, AfterRunType DEF CallConcludes
  <2>3. call' \in [Calls -> CallRecords]
    <3> DEFINE ans == IF call[c].ans = "ok" THEN "ok" ELSE "failed"
    <3>1. ans \in Answers
      BY DEF Answers
    <3>2. [call[c] EXCEPT !.pc = "sent", !.ans = ans] \in CallRecords
      BY <3>1 DEF CallRecords
    <3>3. call' = [call EXCEPT ![c] = [call[c] EXCEPT !.pc = "sent", !.ans = ans]]
      BY <1>2 DEF CallConcludes
    <3>4. QED  BY <3>2, <3>3
  <2>4. QED  BY <1>2, <2>2, <2>3 DEF CallConcludes
<1>3. CASE ProbeAnswered
  BY <1>3 DEF ProbeAnswered, ProbeRecords
<1>4. CASE ProbeConcludes
  <2>1. priv' \in PrivilegeStates
    BY <1>4, ClassifyType DEF ProbeConcludes, ProbeRecords
  <2>2. probe' \in ProbeRecords
    BY <1>4 DEF ProbeConcludes, ProbeRecords, Answers
  <2>3. QED  BY <1>4, <2>1, <2>2 DEF ProbeConcludes
<1>5. CASE KeyAdmin
  BY <1>5, RequestAdminType DEF KeyAdmin
<1>6. CASE ChangePage
  BY <1>6 DEF ChangePage
<1>7. CASE KeyRefresh
  BY <1>7, RequestAdminType DEF KeyRefresh
<1>8. ASSUME NEW t \in Tabs, ShowTab(t)  PROVE TypeOK'
  BY <1>8, RequestAdminType DEF ShowTab
<1>9. ASSUME NEW u \in Users, KeyOpenDetail(u)  PROVE TypeOK'
  <2>1. "detail" \in Jobs /\ u \in Users \cup {NoUser}
    BY DEF Jobs
  <2>2. QED
    BY <1>9, <2>1, SpawnType DEF KeyOpenDetail, RequestDetail, AsyncStates
<1>10. CASE ExecuteConfirmed
  <2>1. "mutation" \in Jobs /\ NoUser \in Users \cup {NoUser}
    BY DEF Jobs
  <2>2. QED  BY <1>10, <2>1, SpawnType DEF ExecuteConfirmed
<1>11. CASE KeyDismiss
  BY <1>11 DEF KeyDismiss
<1>12. CASE KeyUnlock
  BY <1>12, UiAtType DEF KeyUnlock, UiPoints
<1>13. CASE RecheckAnswered
  BY <1>13 DEF RecheckAnswered, UiRecords, UiPoints
<1>14. CASE UnlockDecided
  <2>1. priv' \in PrivilegeStates
    BY <1>14, ClassifyType DEF UnlockDecided, UiRecords
  <2>2. ui' \in UiRecords
    BY <1>14, UiAtType, UiLoopType DEF UnlockDecided, UiPoints
  <2>3. call' \in [Calls -> CallRecords] /\ slot' \in [Tabs -> AsyncStates]
    BY <1>14, RequestAdminType DEF UnlockDecided
  <2>4. QED  BY <1>14, <2>1, <2>2, <2>3 DEF UnlockDecided
<1>15. CASE PromptEnds
  BY <1>15, UiAtType, UiLoopType DEF PromptEnds, UiPoints
<1>16. CASE PromptDecided
  <2>1. priv' \in PrivilegeStates
    BY <1>16, ClassifyType DEF PromptDecided, UiRecords
  <2>2. ui' \in UiRecords
    BY <1>16, UiLoopType DEF PromptDecided
  <2>3. call' \in [Calls -> CallRecords] /\ slot' \in [Tabs -> AsyncStates]
    BY <1>16, RequestAdminType DEF PromptDecided
  <2>4. QED  BY <1>16, <2>1, <2>2, <2>3 DEF PromptDecided
<1>17. CASE DrainWorker
  <2>1. FreeCall \in CallRecords
    BY DEF FreeCall, CallRecords, Jobs, Answers
  <2>2. call' \in [Calls -> CallRecords]
    BY <1>17, <2>1 DEF DrainWorker
  <2>3. detail' \in AsyncStates /\ detailUser' \in Users \cup {NoUser}
    BY <1>17 DEF DrainWorker, Outcome, AsyncStates, Arrived, CallRecords
  <2>4. slot' \in [Tabs -> AsyncStates]
    BY <1>17 DEF DrainWorker
  <2>5. QED  BY <1>17, <2>2, <2>3, <2>4 DEF DrainWorker
<1>18. CASE CredentialChanges
  BY <1>18 DEF CredentialChanges
<1>19. CASE UNCHANGED vars
  BY <1>19 DEF vars
<1>20. QED
  BY <1>1, <1>2, <1>3, <1>4, <1>5, <1>6, <1>7, <1>8, <1>9, <1>10, <1>11,
     <1>12, <1>13, <1>14, <1>15, <1>16, <1>17, <1>18, <1>19
     DEF Next, Background, Keys, BlockedUi

\* Every value the program keeps for the Admin page stays of its kind.
THEOREM TypeCorrect == Spec => []TypeOK
<1>1. Init => TypeOK
  BY UiLoopType DEF Init, TypeOK, PrivilegeStates, AsyncStates, FreeCall,
         CallRecords, Jobs, Answers, ProbeRecords
<1>2. QED  BY <1>1, TypePreserved, PTL DEF Spec

-----------------------------------------------------------------------------
(* One answer is owed to each running slot *)

Ownership == OneQueryPerTab /\ DetailOwned

\* A step that only moves calls along owes the same answers as before.
LEMMA MovingAlong ==
    ASSUME call \in [Calls -> CallRecords], call' \in [Calls -> CallRecords],
           \A c \in Calls : /\ call'[c].pc = "free" <=> call[c].pc = "free"
                            /\ call'[c].job = call[c].job
                            /\ call'[c].user = call[c].user,
           UNCHANGED <<slot, detail, detailUser>>, Ownership
    PROVE  Ownership'
<1>1. \A j : Outstanding(j)' = Outstanding(j)
  BY DEF Outstanding
<1>2. OneQueryPerTab'
  BY <1>1 DEF Ownership, OneQueryPerTab
<1>3. DetailOwned'
  BY <1>1 DEF Ownership, DetailOwned, Outstanding
<1>4. QED  BY <1>2, <1>3 DEF Ownership

\* Starting a thread adds one debt, for its own job.
LEMMA SpawnOwes ==
    ASSUME call \in [Calls -> CallRecords], NEW job, NEW user, Spawn(job, user)
    PROVE  \E c \in Calls :
              /\ c \notin Outstanding(job)
              /\ Outstanding(job)' = Outstanding(job) \cup {c}
              /\ \A j : j # job => Outstanding(j)' = Outstanding(j)
              /\ call'[c].user = user
              /\ \A d \in Calls \ {c} : call'[d] = call[d]
<1>1. PICK c \in Calls :
        /\ call[c].pc = "free"
        /\ call' = [call EXCEPT ![c] = [pc |-> "asking", job |-> job,
                                        user |-> user, ans |-> "failed"]]
  BY DEF Spawn
<1>2. /\ call'[c].pc = "asking" /\ call'[c].job = job /\ call'[c].user = user
      /\ \A d \in Calls \ {c} : call'[d] = call[d]
  BY <1>1
<1>3. c \notin Outstanding(job)
  BY <1>1 DEF Outstanding
<1>4. Outstanding(job)' = Outstanding(job) \cup {c}
  BY <1>1, <1>2 DEF Outstanding
<1>5. \A j : j # job => Outstanding(j)' = Outstanding(j)
  BY <1>1, <1>2 DEF Outstanding
<1>6. QED  BY <1>2, <1>3, <1>4, <1>5

\* request_admin starts a query only for a slot that is not waiting, so the
\* new debt is that slot's only one.
LEMMA RequestAdminOwns ==
    ASSUME TypeOK, Ownership, NEW t \in Tabs, NEW force, RequestAdmin(t, force),
           UNCHANGED <<detail, detailUser>>
    PROVE  Ownership'
<1>1. CASE UNCHANGED <<slot, call>>
  BY <1>1, MovingAlong DEF TypeOK
<1>2. CASE /\ ~AdminSkips(t, force)
           /\ slot' = [slot EXCEPT ![t] = "running"]
           /\ Spawn(t, NoUser)
  <2>1. Outstanding(t) = {}
    BY <1>2 DEF AdminSkips, Ownership, OneQueryPerTab
  <2>2. PICK c \in Calls :
          /\ Outstanding(t)' = Outstanding(t) \cup {c}
          /\ \A j : j # t => Outstanding(j)' = Outstanding(j)
          /\ \A d \in Calls \ {c} : call'[d] = call[d]
    BY <1>2, SpawnOwes DEF TypeOK
  <2>3. Outstanding(t)' = {c}
    BY <2>1, <2>2
  <2>4. OneQueryPerTab'
    BY <1>2, <2>2, <2>3 DEF Ownership, OneQueryPerTab, TypeOK
  <2>5. t # "detail"
    OBVIOUS
  <2>6. Outstanding("detail")' = Outstanding("detail")
    BY <2>2, <2>5
  <2>7. \A d \in Outstanding("detail") : call'[d].user = call[d].user
    <3>1. c \notin Outstanding("detail")
      BY <2>3, <2>5, <2>6 DEF Outstanding
    <3>2. QED  BY <2>2, <3>1 DEF Outstanding
  <2>8. DetailOwned'
    BY <2>6, <2>7 DEF Ownership, DetailOwned
  <2>9. QED  BY <2>4, <2>8 DEF Ownership
<1>3. QED  BY <1>1, <1>2 DEF RequestAdmin

\* request_storage_detail does the same for the detail pane.
LEMMA RequestDetailOwns ==
    ASSUME TypeOK, Ownership, NEW u \in Users, RequestDetail(u), UNCHANGED slot
    PROVE  Ownership'
<1>1. CASE UNCHANGED <<detail, detailUser, call>>
  BY <1>1, MovingAlong DEF TypeOK
<1>2. CASE /\ ~DetailSkips
           /\ detail' = "running"
           /\ detailUser' = u
           /\ Spawn("detail", u)
  <2>1. Outstanding("detail") = {}
    BY <1>2 DEF DetailSkips, Ownership, DetailOwned
  <2>2. PICK c \in Calls :
          /\ Outstanding("detail")' = Outstanding("detail") \cup {c}
          /\ \A j : j # "detail" => Outstanding(j)' = Outstanding(j)
          /\ call'[c].user = u
    BY <1>2, SpawnOwes DEF TypeOK
  <2>3. Outstanding("detail")' = {c}
    BY <2>1, <2>2
  <2>4. DetailOwned'
    BY <1>2, <2>2, <2>3 DEF DetailOwned
  <2>5. \A t \in Tabs : Outstanding(t)' = Outstanding(t)
    BY <2>2
  <2>6. OneQueryPerTab'
    BY <2>5 DEF Ownership, OneQueryPerTab
  <2>7. QED  BY <2>4, <2>6 DEF Ownership
<1>3. QED  BY <1>1, <1>2 DEF RequestDetail

\* A confirmed operation is nobody's query.
LEMMA MutationOwns ==
    ASSUME TypeOK, Ownership, ExecuteConfirmed
    PROVE  Ownership'
<1>1. PICK c \in Calls :
        /\ Outstanding("mutation")' = Outstanding("mutation") \cup {c}
        /\ \A j : j # "mutation" => Outstanding(j)' = Outstanding(j)
        /\ \A d \in Calls \ {c} : call'[d] = call[d]
  BY SpawnOwes DEF ExecuteConfirmed, TypeOK
<1>2. \A t \in Tabs : Outstanding(t)' = Outstanding(t)
  BY <1>1
<1>3. Outstanding("detail")' = Outstanding("detail")
  BY <1>1
<1>4. c \notin Outstanding("detail")
  BY <1>1, <1>3 DEF Outstanding
<1>5. \A d \in Outstanding("detail") : call'[d].user = call[d].user
  BY <1>1, <1>4 DEF Outstanding
<1>6. UNCHANGED <<slot, detail, detailUser>>
  BY DEF ExecuteConfirmed
<1>7. OneQueryPerTab'
  BY <1>2, <1>6 DEF Ownership, OneQueryPerTab
<1>8. DetailOwned'
  BY <1>3, <1>5, <1>6 DEF Ownership, DetailOwned
<1>9. QED  BY <1>7, <1>8 DEF Ownership

\* Draining pays every debt whose message has arrived, and a debt is paid with
\* a result, never with "running".
LEMMA DrainOwns ==
    ASSUME TypeOK, Ownership, DrainWorker
    PROVE  Ownership'
<1>1. \A j : Outstanding(j)' = Outstanding(j) \ Arrived(j)
  BY DEF DrainWorker, Outstanding, Arrived, FreeCall
<1>2. \A j : Arrived(j) \subseteq Outstanding(j)
  BY DEF Arrived, Outstanding
<1>3. \A c : Outcome(c) # "running"
  BY DEF Outcome
<1>4. OneQueryPerTab'
  <2> SUFFICES ASSUME NEW t \in Tabs
               PROVE  /\ slot'[t] = "running" <=> Outstanding(t)' # {}
                      /\ \A c, d \in Outstanding(t)' : c = d
    BY DEF OneQueryPerTab
  <2>1. \A c, d \in Outstanding(t) : c = d
    BY DEF Ownership, OneQueryPerTab
  <2>2. slot'[t] \in IF Arrived(t) = {} THEN {slot[t]}
                     ELSE {Outcome(c) : c \in Arrived(t)}
    BY DEF DrainWorker
  <2>3. CASE Arrived(t) = {}
    BY <1>1, <2>1, <2>2, <2>3 DEF Ownership, OneQueryPerTab
  <2>4. CASE Arrived(t) # {}
    <3>1. Outstanding(t)' = {}
      BY <1>1, <1>2, <2>1, <2>4
    <3>2. slot'[t] # "running"
      BY <1>3, <2>2, <2>4
    <3>3. QED  BY <3>1, <3>2
  <2>5. QED  BY <2>3, <2>4
<1>5. DetailOwned'
  <2>1. \A c, d \in Outstanding("detail") : c = d
    BY DEF Ownership, DetailOwned
  <2>2. CASE Arrived("detail") = {}
    <3>1. Outstanding("detail")' = Outstanding("detail")
      BY <1>1, <2>2
    <3>2. UNCHANGED <<detail, detailUser>>
      BY <2>2 DEF DrainWorker
    <3>3. \A c \in Outstanding("detail") : call'[c] = call[c]
      BY <2>2 DEF DrainWorker, Outstanding, Arrived
    <3>4. QED  BY <3>1, <3>2, <3>3 DEF Ownership, DetailOwned
  <2>3. CASE Arrived("detail") # {}
    <3>1. Outstanding("detail")' = {}
      BY <1>1, <1>2, <2>1, <2>3
    <3>2. detail' # "running"
      BY <1>3, <2>3 DEF DrainWorker
    <3>3. QED  BY <3>1, <3>2 DEF DetailOwned
  <2>4. QED  BY <2>2, <2>3
<1>6. QED  BY <1>4, <1>5 DEF Ownership

\* Every step of Next keeps each slot owed one answer and the detail its owner's.
LEMMA OwnershipPreserved == TypeOK /\ Ownership /\ [Next]_vars => Ownership'
<1> SUFFICES ASSUME TypeOK, Ownership, [Next]_vars  PROVE Ownership'
  OBVIOUS
<1>1. TypeOK'
  BY TypePreserved
<1>2. ASSUME UNCHANGED <<slot, detail, detailUser, call>>  PROVE Ownership'
  BY <1>2, MovingAlong DEF TypeOK
<1>3. ASSUME NEW c \in Calls, CallAnswered(c)  PROVE Ownership'
  BY <1>1, <1>3, MovingAlong DEF CallAnswered, TypeOK, CallRecords
<1>4. ASSUME NEW c \in Calls, CallConcludes(c)  PROVE Ownership'
  BY <1>1, <1>4, MovingAlong DEF CallConcludes, TypeOK, CallRecords
<1>5. CASE ProbeAnswered \/ ProbeConcludes \/ ChangePage \/ KeyDismiss
           \/ KeyUnlock \/ RecheckAnswered \/ PromptEnds \/ CredentialChanges
           \/ UNCHANGED vars
  BY <1>2, <1>5 DEF ProbeAnswered, ProbeConcludes, ChangePage, KeyDismiss,
     KeyUnlock, RecheckAnswered, PromptEnds, CredentialChanges, vars
<1>6. CASE KeyAdmin
  BY <1>2, <1>6, RequestAdminOwns DEF KeyAdmin, TypeOK
<1>7. CASE KeyRefresh
  BY <1>7, RequestAdminOwns DEF KeyRefresh, TypeOK
<1>8. ASSUME NEW t \in Tabs, ShowTab(t)  PROVE Ownership'
  BY <1>8, RequestAdminOwns DEF ShowTab
<1>9. ASSUME NEW u \in Users, KeyOpenDetail(u)  PROVE Ownership'
  BY <1>9, RequestDetailOwns DEF KeyOpenDetail
<1>10. CASE ExecuteConfirmed
  BY <1>10, MutationOwns
<1>11. CASE UnlockDecided
  BY <1>2, <1>11, RequestAdminOwns DEF UnlockDecided, TypeOK
<1>12. CASE PromptDecided
  BY <1>2, <1>12, RequestAdminOwns DEF PromptDecided, TypeOK
<1>13. CASE DrainWorker
  BY <1>13, DrainOwns
<1>14. QED
  BY <1>3, <1>4, <1>5, <1>6, <1>7, <1>8, <1>9, <1>10, <1>11, <1>12, <1>13
     DEF Next, Background, Keys, BlockedUi

\* The program starts with nothing running and nobody's detail.
LEMMA OwnershipInit == Init => Ownership
BY DEF Init, Ownership, OneQueryPerTab, DetailOwned, Outstanding, FreeCall

\* However keys, threads and sudo interleave, a tab's slot says "running"
\* exactly while one call owes it an answer.
THEOREM QueriesOwned == Spec => []OneQueryPerTab
<1>1. Ownership => OneQueryPerTab
  BY DEF Ownership
<1>2. QED
  BY <1>1, OwnershipInit, OwnershipPreserved, TypeCorrect, PTL DEF Spec

\* The storage detail shown is for the user whose name is shown with it.
THEOREM DetailIsOwned == Spec => []DetailOwned
<1>1. Ownership => DetailOwned
  BY DEF Ownership
<1>2. QED
  BY <1>1, OwnershipInit, OwnershipPreserved, TypeCorrect, PTL DEF Spec
-----------------------------------------------------------------------------
(* Without a helper *)

\* What makes NoHelperNoQuery inductive: without a helper the start-up probe has
\* never been started, and every call is a confirmed operation.
Unhelped ==
    /\ NoHelperNoQuery
    /\ ~helper => /\ probe.pc = "done"
                  /\ \A c \in Calls : call[c].pc # "free" => call[c].job = "mutation"

\* request_admin asks for nothing then.
LEMMA NothingRequested ==
    ASSUME Unhelped, ~helper, NEW t \in Tabs, NEW force, RequestAdmin(t, force)
    PROVE  UNCHANGED <<slot, call>>
BY DEF Unhelped, NoHelperNoQuery, RequestAdmin, AdminSkips

\* With a helper only the state is in question, and nobody says it is missing.
LEMMA HelpedPreserved ==
    ASSUME TypeOK, Unhelped, helper, [Next]_vars
    PROVE  Unhelped'
<1>1. helper' = helper
  BY DEF Next, Background, Keys, BlockedUi, CallAnswered, CallConcludes, ProbeAnswered,
     ProbeConcludes, KeyAdmin, ChangePage, KeyRefresh, ShowTab, KeyOpenDetail,
     ExecuteConfirmed, KeyDismiss, KeyUnlock, RecheckAnswered, UnlockDecided,
     PromptEnds, PromptDecided, DrainWorker, CredentialChanges, vars
<1>2. ASSUME UNCHANGED priv  PROVE Unhelped'
  BY <1>1, <1>2 DEF Unhelped, NoHelperNoQuery
<1>3. ASSUME NEW c \in Calls, CallConcludes(c)  PROVE Unhelped'
  <2>1. call[c].ans \in Answers
    BY DEF TypeOK, CallRecords
  <2>2. priv' # "HelperMissing"
    BY <1>3, <2>1, AfterRunType DEF CallConcludes, Unhelped, NoHelperNoQuery
  <2>3. QED  BY <1>1, <2>2 DEF Unhelped, NoHelperNoQuery
<1>4. CASE ProbeConcludes
  <2>1. priv' # "HelperMissing"
    BY <1>4, ClassifyType DEF ProbeConcludes, TypeOK, ProbeRecords
  <2>2. QED  BY <1>1, <2>1 DEF Unhelped, NoHelperNoQuery
<1>5. CASE UnlockDecided \/ PromptDecided
  <2>1. priv' # "HelperMissing"
    BY <1>5, ClassifyType DEF UnlockDecided, PromptDecided, TypeOK, UiRecords
  <2>2. QED  BY <1>1, <2>1 DEF Unhelped, NoHelperNoQuery
<1>6. QED
  BY <1>2, <1>3, <1>4, <1>5 DEF Next, Background, Keys, BlockedUi, CallAnswered,
     ProbeAnswered, KeyAdmin, ChangePage, KeyRefresh, ShowTab, KeyOpenDetail,
     ExecuteConfirmed, KeyDismiss, KeyUnlock, RecheckAnswered, PromptEnds, DrainWorker,
     CredentialChanges, vars

\* Without one, each key and each message stops before it touches a slot.
LEMMA UnhelpedPreserved ==
    ASSUME TypeOK, Unhelped, ~helper, [Next]_vars
    PROVE  Unhelped'
<1> USE DEF Unhelped, NoHelperNoQuery
<1>1. ASSUME UNCHANGED <<helper, priv, slot, detail, ui, probe, call>>
      PROVE  Unhelped'
  BY <1>1
<1>2. ASSUME NEW c \in Calls, CallAnswered(c)  PROVE Unhelped'
  BY <1>2 DEF CallAnswered, TypeOK, CallRecords
<1>3. ASSUME NEW c \in Calls, CallConcludes(c)  PROVE Unhelped'
  BY <1>3 DEF CallConcludes
<1>4. CASE KeyAdmin \/ KeyRefresh
  <2>1. UNCHANGED <<slot, call>>
    BY <1>4, NothingRequested DEF KeyAdmin, KeyRefresh, TypeOK
  <2>2. QED  BY <1>1, <1>4, <2>1 DEF KeyAdmin, KeyRefresh
<1>5. ASSUME NEW t \in Tabs, ShowTab(t)  PROVE Unhelped'
  <2>1. UNCHANGED <<slot, call>>
    BY <1>5, NothingRequested DEF ShowTab
  <2>2. QED  BY <1>1, <1>5, <2>1 DEF ShowTab
<1>6. ASSUME NEW u \in Users, KeyOpenDetail(u)  PROVE Unhelped'
  BY <1>6, TabsAssumption DEF KeyOpenDetail
<1>7. CASE ExecuteConfirmed
  BY <1>7 DEF ExecuteConfirmed, Spawn, TypeOK, CallRecords
<1>8. CASE KeyUnlock
  BY <1>1, <1>8 DEF KeyUnlock
<1>9. ~(RecheckAnswered \/ UnlockDecided \/ PromptEnds \/ PromptDecided)
  <2>1. ui.pc = "loop"
    BY DEF UiLoop, UiAt
  <2>2. QED
    BY <2>1 DEF RecheckAnswered, UnlockDecided, PromptEnds, PromptDecided
<1>10. CASE ProbeAnswered \/ ProbeConcludes
  BY <1>10 DEF ProbeAnswered, ProbeConcludes
<1>11. CASE DrainWorker
  <2>1. \A t \in Tabs : Arrived(t) = {}
    BY TabsAssumption DEF Arrived
  <2>2. Arrived("detail") = {}
    BY DEF Arrived
  <2>3. slot' = [t \in Tabs |-> "idle"]
    BY <1>11, <2>1 DEF DrainWorker
  <2>4. UNCHANGED <<helper, priv, detail, ui, probe>>
    BY <1>11, <2>2 DEF DrainWorker
  <2>5. \A c \in Calls : /\ call'[c].pc # "answered"
                         /\ call'[c].pc # "free" => call'[c].job = "mutation"
    BY <1>11 DEF DrainWorker, FreeCall
  <2>6. QED  BY <2>3, <2>4, <2>5
<1>12. CASE ChangePage \/ KeyDismiss \/ CredentialChanges \/ UNCHANGED vars
  BY <1>1, <1>12 DEF ChangePage, KeyDismiss, CredentialChanges, vars
<1>13. QED
  BY <1>2, <1>3, <1>4, <1>5, <1>6, <1>7, <1>8, <1>9, <1>10, <1>11, <1>12
     DEF Next, Background, Keys, BlockedUi

\* On a machine without the helper nothing the user does has sudo asked, or a
\* slot wait; and on one with it the state never says that it is missing.
THEOREM NothingWithoutHelper == Spec => []NoHelperNoQuery
<1>1. Init => Unhelped
  BY DEF Init, Unhelped, NoHelperNoQuery, FreeCall
<1>2. TypeOK /\ Unhelped /\ [Next]_vars => Unhelped'
  BY HelpedPreserved, UnhelpedPreserved DEF TypeOK
<1>3. Unhelped => NoHelperNoQuery
  BY DEF Unhelped
<1>4. QED  BY <1>1, <1>2, <1>3, TypeCorrect, PTL DEF Spec

-----------------------------------------------------------------------------
(* Looking at another tab *)

\* Looking at another tab never throws away what has arrived for any of them.
THEOREM VisitsKeepData == Spec => VisitKeepsData
<1>1. TypeOK /\ [Next]_vars =>
        [tab' # tab => \A t \in Tabs : slot[t] = "ready" => slot'[t] = "ready"]_vars
  <2> SUFFICES ASSUME TypeOK, [Next]_vars, tab' # tab, NEW t \in Tabs, slot[t] = "ready"
               PROVE  slot'[t] = "ready"
    OBVIOUS
  <2>1. PICK opened \in Tabs : ShowTab(opened)
    BY DEF Next, Background, Keys, BlockedUi, CallAnswered, CallConcludes, ProbeAnswered,
       ProbeConcludes, KeyAdmin, ChangePage, KeyRefresh, KeyOpenDetail, ExecuteConfirmed,
       KeyDismiss, KeyUnlock, RecheckAnswered, UnlockDecided, PromptEnds, PromptDecided,
       DrainWorker, CredentialChanges, vars
  <2>2. QED
    BY <2>1 DEF ShowTab, RequestAdmin, AdminSkips, TypeOK
<1>2. QED  BY <1>1, TypeCorrect, PTL DEF Spec, VisitKeepsData

-----------------------------------------------------------------------------
(* The process collector *)

USE CollectorAssumption DEF C!CollectorBounds

Lives == thread \in {"waiting", "scanning"}

\* What a scan gives is a list, and it leaves a scanner that may remember.
LEMMA ScansType ==
    ASSUME NEW remembers \in BOOLEAN, NEW s \in C!Scans(remembers)
    PROVE  s.list \in C!Lists /\ s.primed \in BOOLEAN
<1>1. CASE s = [list |-> "default", primed |-> remembers]
  BY <1>1 DEF C!Lists
<1>2. CASE s = [list |-> IF remembers THEN "full" ELSE "baseless", primed |-> TRUE]
  <2>1. CASE remembers
    BY <1>2, <2>1 DEF C!Lists
  <2>2. CASE ~remembers
    BY <1>2, <2>2 DEF C!Lists
  <2>3. QED  BY <2>1, <2>2
<1>3. QED  BY <1>1, <1>2 DEF C!Scans

\* The head of a channel is an element of it, and what follows is a channel.
LEMMA Channel ==
    ASSUME NEW S, NEW q \in Seq(S), q # <<>>
    PROVE  /\ Head(q) \in S /\ Head(q) = q[1]
           /\ Tail(q) \in Seq(S)
           /\ Len(q) \in Nat \ {0}
           /\ Len(Tail(q)) = Len(q) - 1
OBVIOUS

-----------------------------------------------------------------------------
(* The invariant *)

\* A scan is of a request; a worker that has dropped an end of its channels,
\* or was never started, does not live; the main thread holds the channels of
\* a worker that was started.
Ends ==
    /\ thread = "scanning" => requests # <<>>
    /\ Lives => hears /\ speaks
    /\ worker => thread # "none"

\* The round under way, if any, is the newest one asked for.
RoundIsNewest ==
    /\ Lives /\ requests # <<>> => requests[1] = asked
    /\ results # <<>> => results[1].round = asked

\* OneRoundAtATime without arithmetic: no round is in two places at once, and
\* none is in a place without being waited for.
Single ==
    /\ Lives /\ requests # <<>> => Len(requests) = 1 /\ results = <<>> /\ pending
    /\ results # <<>> => Len(results) = 1 /\ pending

IInv == C!TypeOK /\ Ends /\ RoundIsNewest /\ Single

\* It holds before any round is asked for.
LEMMA IInvInit == C!Init => IInv
<1> SUFFICES ASSUME C!Init  PROVE IInv
  OBVIOUS
<1>1. requests \in Seq(1..MaxRounds) /\ results \in Seq(C!RoundRecords)
  BY DEF C!Init
<1>2. shown \in C!RoundRecords
  BY DEF C!Init, C!RoundRecords, C!Lists
<1>3. C!TypeOK
  <2>1. /\ main \in {"poll", "request"}
        /\ scanner \in {"none", "fresh", "primed"}
        /\ thread \in {"none", "waiting", "scanning", "dead"}
    BY DEF C!Init
  <2>2. /\ worker \in BOOLEAN /\ pending \in BOOLEAN
        /\ hears \in BOOLEAN /\ speaks \in BOOLEAN /\ primed \in BOOLEAN
    BY DEF C!Init
  <2>3. asked \in 0..MaxRounds /\ deaths \in 0..MaxDeaths /\ refusals \in 0..MaxRefusals
    BY DEF C!Init
  <2>4. QED  BY <1>1, <1>2, <2>1, <2>2, <2>3 DEF C!TypeOK
<1>4. QED  BY <1>3 DEF C!Init, IInv, Ends, RoundIsNewest, Single, Lives

\* Nothing is under way when a request is accepted.
LEMMA NothingUnderWay ==
    ASSUME IInv, C!MayRequest
    PROVE  results = <<>> /\ (Lives => requests = <<>>)
BY DEF IInv, Single, C!MayRequest

\* A new worker has the one request it was started with.
LEMMA StartsKeeps ==
    ASSUME IInv, C!Asks, NEW remembers \in BOOLEAN, C!Starts(remembers),
           scanner' \in {"none", "fresh", "primed"}
    PROVE  IInv'
<1>1. asked' \in 1..MaxRounds /\ main' = "poll"
  BY DEF C!Asks, C!MayRequest, IInv, C!TypeOK
<1>2. requests' \in Seq(1..MaxRounds) /\ Len(requests') = 1 /\ requests'[1] = asked'
  BY <1>1 DEF C!Starts
<1>3. results' \in Seq(C!RoundRecords) /\ results' = <<>>
  BY DEF C!Starts
<1>4. C!TypeOK'
  BY <1>1, <1>2, <1>3 DEF C!Starts, IInv, C!TypeOK
<1>5. Ends' /\ RoundIsNewest' /\ Single'
  BY <1>2, <1>3 DEF C!Starts, Ends, RoundIsNewest, Single, Lives
<1>6. QED  BY <1>4, <1>5 DEF IInv

\* The worker moves its round along, or takes it with it when it dies.
LEMMA WorkerKeeps == ASSUME IInv, C!Worker  PROVE IInv'
<1> USE DEF IInv
<1>1. CASE C!WorkerReceives
  <2>1. C!TypeOK'
    BY <1>1 DEF C!WorkerReceives, C!mainVars, C!TypeOK
  <2>2. Ends' /\ RoundIsNewest' /\ Single'
    BY <1>1 DEF C!WorkerReceives, C!mainVars, Ends, RoundIsNewest, Single, Lives
  <2>3. QED  BY <2>1, <2>2
<1>2. CASE C!WorkerScans
  <2>1. /\ Lives /\ requests # <<>> /\ requests \in Seq(1..MaxRounds)
        /\ results = <<>> /\ pending /\ Len(requests) = 1
    BY <1>2 DEF C!WorkerScans, Ends, Single, Lives, C!TypeOK
  <2>2. Head(requests) = asked /\ asked \in 0..MaxRounds
    BY <2>1, Channel DEF RoundIsNewest, C!TypeOK
  <2>3. PICK s \in C!Scans(primed) :
           /\ results' = Append(results, [round |-> Head(requests), list |-> s.list])
           /\ primed' = s.primed
    BY <1>2 DEF C!WorkerScans
  <2> DEFINE r == [round |-> Head(requests), list |-> s.list]
  <2>4. r \in C!RoundRecords /\ r.round = asked
    BY <2>2, ScansType DEF C!TypeOK, C!RoundRecords
  <2> HIDE DEF r
  <2>5. results' \in Seq(C!RoundRecords) /\ Len(results') = 1 /\ results'[1] = r
    BY <2>1, <2>3, <2>4 DEF r
  <2>6. requests' \in Seq(1..MaxRounds) /\ requests' = <<>>
    <3>1. requests' = Tail(requests)
      BY <1>2 DEF C!WorkerScans
    <3>2. requests' \in Seq(1..MaxRounds) /\ Len(requests') = 0
      BY <2>1, <3>1, Channel
    <3>3. QED  BY <3>2
  <2>7. primed' \in BOOLEAN
    BY <2>3, ScansType DEF C!TypeOK
  <2>8. C!TypeOK'
    BY <1>2, <2>5, <2>6, <2>7 DEF C!WorkerScans, C!mainVars, C!TypeOK
  <2>9. Ends' /\ RoundIsNewest' /\ Single'
    BY <1>2, <2>1, <2>4, <2>5, <2>6
       DEF C!WorkerScans, C!mainVars, Ends, RoundIsNewest, Single, Lives
  <2>10. QED  BY <2>8, <2>9
<1>3. CASE C!WorkerPanics
  <2>1. requests' \in Seq(1..MaxRounds)
    BY <1>3, Channel DEF C!WorkerPanics, Ends, C!TypeOK
  <2>2. C!TypeOK'
    BY <1>3, <2>1 DEF C!WorkerPanics, C!mainVars, C!TypeOK
  <2>3. Ends' /\ RoundIsNewest' /\ Single'
    BY <1>3 DEF C!WorkerPanics, C!mainVars, Ends, RoundIsNewest, Single, Lives
  <2>4. QED  BY <2>2, <2>3
<1>4. CASE C!DeadDropsRequests
  <2>1. requests' \in Seq(1..MaxRounds)
    BY <1>4 DEF C!DeadDropsRequests
  <2>2. C!TypeOK'
    BY <1>4, <2>1 DEF C!DeadDropsRequests, C!mainVars, C!TypeOK
  <2>3. Ends' /\ RoundIsNewest' /\ Single'
    BY <1>4 DEF C!DeadDropsRequests, C!mainVars, Ends, RoundIsNewest, Single, Lives
  <2>4. QED  BY <2>2, <2>3
<1>5. CASE C!DeadDropsResults
  <2>1. C!TypeOK'
    BY <1>5 DEF C!DeadDropsResults, C!mainVars, C!TypeOK
  <2>2. Ends' /\ RoundIsNewest' /\ Single'
    BY <1>5 DEF C!DeadDropsResults, C!mainVars, Ends, RoundIsNewest, Single, Lives
  <2>3. QED  BY <2>1, <2>2
<1>6. QED  BY <1>1, <1>2, <1>3, <1>4, <1>5 DEF C!Worker

\* poll() takes the round that came back, or gives up one that never will.
LEMMA PollKeeps == ASSUME IInv, C!Poll  PROVE IInv'
<1> USE DEF IInv
<1>1. CASE C!PollTakes
  <2>1. results \in Seq(C!RoundRecords) /\ results # <<>> /\ Len(results) = 1
    BY <1>1 DEF C!PollTakes, Single, C!TypeOK
  <2>2. Head(results) \in C!RoundRecords /\ results' \in Seq(C!RoundRecords)
    BY <1>1, <2>1, Channel DEF C!PollTakes
  <2>3. results' = <<>>
    BY <1>1, <2>1, Channel DEF C!PollTakes
  <2>4. ~(Lives /\ requests # <<>>)
    BY <2>1 DEF Single
  <2>5. C!TypeOK'
    BY <1>1, <2>2 DEF C!PollTakes, C!workerVars, C!TypeOK
  <2>6. Ends' /\ RoundIsNewest' /\ Single'
    BY <1>1, <2>3, <2>4 DEF C!PollTakes, C!workerVars, Ends, RoundIsNewest,
       Single, Lives
  <2>7. QED  BY <2>5, <2>6
<1>2. CASE C!PollEnds
  <2>1. C!TypeOK'
    BY <1>2 DEF C!PollEnds, C!workerVars, C!TypeOK
  <2>2. Lives /\ requests # <<>> => pending' = pending
    BY <1>2 DEF C!PollEnds, Ends, Single, C!TypeOK
  <2>3. results # <<>> => pending' = pending
    BY <1>2 DEF C!PollEnds, Single, C!TypeOK
  <2>4. Ends' /\ RoundIsNewest' /\ Single'
    BY <1>2, <2>2, <2>3 DEF C!PollEnds, C!workerVars, Ends, RoundIsNewest,
       Single, Lives
  <2>5. QED  BY <2>1, <2>4
<1>3. QED  BY <1>1, <1>2 DEF C!Poll

\* A request is dropped, or begins the only round under way.
LEMMA RequestKeeps == ASSUME IInv, C!NotDue \/ C!Request  PROVE IInv'
<1> USE DEF IInv
<1>1. CASE C!NotDue \/ C!RequestDropped
  <2>1. C!TypeOK'
    BY <1>1 DEF C!NotDue, C!RequestDropped, C!workerVars, C!TypeOK
  <2>2. Ends' /\ RoundIsNewest' /\ Single'
    BY <1>1 DEF C!NotDue, C!RequestDropped, C!workerVars, Ends, RoundIsNewest,
       Single, Lives
  <2>3. QED  BY <2>1, <2>2
<1>2. CASE C!RequestStarts
  BY <1>2, StartsKeeps DEF C!RequestStarts
<1>3. CASE C!RequestReplaces
  BY <1>3, StartsKeeps DEF C!RequestReplaces, C!TypeOK
<1>4. ASSUME C!Asks  PROVE asked' \in 1..MaxRounds /\ main' = "poll"
  BY <1>4 DEF C!Asks, C!MayRequest, C!TypeOK
<1>5. CASE C!RequestScansHere
  <2>1. PICK s \in C!Scans(FALSE) :
           /\ shown' = [round |-> asked', list |-> s.list]
           /\ scanner' = IF s.primed THEN "primed" ELSE "fresh"
    BY <1>5 DEF C!RequestScansHere
  <2>2. shown' \in C!RoundRecords
    <3>1. FALSE \in BOOLEAN
      OBVIOUS
    <3>2. s.list \in C!Lists
      BY <3>1, ScansType
    <3>3. asked' \in 0..MaxRounds
      BY <1>4, <1>5 DEF C!RequestScansHere
    <3>4. QED  BY <2>1, <3>2, <3>3 DEF C!RoundRecords
  <2>3. results = <<>> /\ (Lives => requests = <<>>)
    BY <1>5, NothingUnderWay DEF C!RequestScansHere, C!Asks
  <2>4. C!TypeOK'
    BY <1>4, <1>5, <2>1, <2>2 DEF C!RequestScansHere, C!Refused, C!workerVars,
       C!TypeOK
  <2>5. Ends' /\ RoundIsNewest' /\ Single'
    BY <1>5, <2>3 DEF C!RequestScansHere, C!Refused, C!workerVars, Ends,
       RoundIsNewest, Single, Lives
  <2>6. QED  BY <2>4, <2>5
<1>6. CASE C!RequestSent
  <2>1. results = <<>> /\ (Lives => requests = <<>>)
    BY <1>6, NothingUnderWay DEF C!RequestSent, C!Asks
  <2>2. requests' \in Seq(1..MaxRounds)
    BY <1>4, <1>6 DEF C!RequestSent, C!TypeOK
  <2>3. Lives => Len(requests') = 1 /\ requests'[1] = asked'
    BY <1>4, <1>6, <2>1 DEF C!RequestSent
  <2>4. requests' # <<>>
    BY <1>4, <1>6 DEF C!RequestSent, C!TypeOK
  <2>5. C!TypeOK'
    BY <1>4, <1>6, <2>2 DEF C!RequestSent, C!workerVars, C!TypeOK
  <2>6. Ends' /\ RoundIsNewest' /\ Single'
    BY <1>6, <2>1, <2>3, <2>4
       DEF C!RequestSent, C!workerVars, Ends, RoundIsNewest, Single, Lives
  <2>7. QED  BY <2>5, <2>6
<1>7. CASE C!RequestLost
  <2>1. results = <<>> /\ ~Lives
    BY <1>7, NothingUnderWay DEF C!RequestLost, C!Asks, Ends
  <2>2. C!TypeOK'
    <3>1. asked' \in 0..MaxRounds /\ refusals' \in 0..MaxRefusals /\ main' = "poll"
      BY <1>4, <1>7 DEF C!RequestLost, C!Refused, C!TypeOK
    <3>2. worker' \in BOOLEAN /\ pending' \in BOOLEAN
      BY <1>7 DEF C!RequestLost
    <3>3. UNCHANGED <<scanner, shown, C!workerVars, requests, results, deaths>>
      BY <1>7 DEF C!RequestLost, C!Refused
    <3>4. QED  BY <3>1, <3>2, <3>3 DEF C!workerVars, C!TypeOK
  <2>3. Ends' /\ RoundIsNewest' /\ Single'
    BY <1>7, <2>1 DEF C!RequestLost, C!Refused, C!workerVars, Ends,
       RoundIsNewest, Single, Lives
  <2>4. QED  BY <2>2, <2>3
<1>8. QED  BY <1>1, <1>2, <1>3, <1>5, <1>6, <1>7 DEF C!Request

\* Every step keeps the invariant.
LEMMA IInvPreserved == IInv /\ [C!Next]_(C!vars) => IInv'
<1>1. IInv /\ UNCHANGED C!vars => IInv'
  BY DEF C!vars, C!mainVars, C!workerVars, IInv, C!TypeOK, Ends, RoundIsNewest,
     Single, Lives
<1>2. QED  BY <1>1, WorkerKeeps, PollKeeps, RequestKeeps DEF C!Next

\* So it always holds.
LEMMA IInvHolds == C!Spec => []IInv
BY IInvInit, IInvPreserved, PTL DEF C!Spec

\* The channels carry rounds and the list shown is one of a round asked for.
THEOREM CollectorTypeCorrect == C!Spec => []C!TypeOK
<1>1. IInv => C!TypeOK
  BY DEF IInv
<1>2. QED  BY <1>1, IInvHolds, PTL

\* However the main thread, a worker and its death interleave, one round at a
\* time is under way and it is pending until it is taken.
THEOREM OneRound == C!Spec => []OneRoundAtATime
<1>1. IInv => OneRoundAtATime
  <2> SUFFICES ASSUME IInv  PROVE OneRoundAtATime
    OBVIOUS
  <2>1. results \in Seq(C!RoundRecords) /\ requests \in Seq(1..MaxRounds)
    BY DEF IInv, C!TypeOK
  <2> DEFINE asking == IF Lives THEN Len(requests) ELSE 0
  <2>2. C!UnderWay = Len(results) + asking
    BY DEF C!UnderWay, Lives
  <2>3. CASE results # <<>>
    <3>1. Len(results) = 1 /\ pending /\ (Lives => requests = <<>>)
      BY <2>3 DEF IInv, Single
    <3>2. asking = 0
      BY <3>1
    <3>3. QED  BY <2>2, <3>1, <3>2 DEF OneRoundAtATime, C!OneRoundAtATime
  <2>4. CASE results = <<>> /\ Lives /\ requests # <<>>
    <3>1. Len(requests) = 1
      BY <2>4 DEF IInv, Single
    <3>2. pending
      BY <2>4 DEF IInv, Single
    <3>3. C!UnderWay = 1
      BY <2>2, <2>4, <3>1
    <3>4. QED  BY <3>2, <3>3 DEF OneRoundAtATime, C!OneRoundAtATime
  <2>5. CASE results = <<>> /\ ~(Lives /\ requests # <<>>)
    <3>1. asking = 0 /\ Len(results) = 0
      BY <2>5
    <3>2. QED  BY <2>2, <3>1 DEF OneRoundAtATime, C!OneRoundAtATime
  <2>6. QED  BY <2>3, <2>4, <2>5
<1>2. QED  BY <1>1, IInvHolds, PTL

-----------------------------------------------------------------------------
(* The promise *)

\* The page sees a round asked for, answered or lost, or nothing.
LEMMA StepKeepsPromise ==
    IInv /\ [C!Next]_(C!vars) => [C!Promise!Next]_(C!Promise!vars)
<1> SUFFICES ASSUME IInv, [C!Next]_(C!vars)  PROVE [C!Promise!Next]_(C!Promise!vars)
  OBVIOUS
<1> USE DEF C!Promise!vars
<1>1. CASE C!Worker \/ C!NotDue \/ C!RequestDropped \/ UNCHANGED C!vars
  BY <1>1 DEF C!Worker, C!WorkerReceives, C!WorkerScans, C!WorkerPanics,
     C!DeadDropsRequests, C!DeadDropsResults, C!NotDue, C!RequestDropped,
     C!vars, C!mainVars
<1>2. CASE C!PollTakes
  <2>1. pending /\ pending' = FALSE /\ asked' = asked
    BY <1>2 DEF C!PollTakes, IInv, Single
  <2>2. results \in Seq(C!RoundRecords) /\ results # <<>>
    BY <1>2 DEF C!PollTakes, IInv, C!TypeOK
  <2>3. shown'.round = asked
    BY <1>2, <2>2, Channel DEF C!PollTakes, IInv, RoundIsNewest
  <2>4. QED  BY <2>1, <2>3 DEF C!Promise!Next, C!Promise!Answer
<1>3. CASE C!PollEnds
  <2>1. pending' = pending \/ (pending /\ pending' = FALSE)
    BY <1>3 DEF C!PollEnds, IInv, C!TypeOK
  <2>2. QED  BY <1>3, <2>1 DEF C!PollEnds, C!Promise!Next, C!Promise!Lose
<1>4. CASE C!RequestStarts \/ C!RequestSent \/ C!RequestReplaces
  BY <1>4 DEF C!RequestStarts, C!RequestSent, C!RequestReplaces, C!Asks,
     C!MayRequest, C!Starts, C!Promise!Next, C!Promise!Ask
<1>5. CASE C!RequestScansHere
  <2>1. shown'.round = asked'
    BY <1>5 DEF C!RequestScansHere
  <2>2. QED
    BY <1>5, <2>1 DEF C!RequestScansHere, C!Asks, C!MayRequest, C!Promise!Next,
       C!Promise!AtOnce
<1>6. CASE C!RequestLost
  <2>1. ~pending /\ pending' = FALSE /\ pending \in BOOLEAN
    BY <1>6 DEF C!RequestLost, C!Asks, C!MayRequest, IInv, C!TypeOK
  <2>2. QED
    BY <1>6, <2>1 DEF C!RequestLost, C!Asks, C!MayRequest, C!Promise!Next,
       C!Promise!AtOnce
<1>7. QED
  BY <1>1, <1>2, <1>3, <1>4, <1>5, <1>6 DEF C!Next, C!Poll, C!Request

\* Whatever thread scans and whenever it dies, the page gets what ScanPromise
\* promises it.
THEOREM ImplementsPromise == C!Spec => KeepsPromise
<1>1. C!Init => C!Promise!Init
  BY DEF C!Init, C!Promise!Init
<1>2. QED
  BY <1>1, IInvHolds, StepKeepsPromise, PTL DEF C!Spec, KeepsPromise,
     C!KeepsPromise, C!Promise!Spec
=============================================================================
