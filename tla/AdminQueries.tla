---------------------------- MODULE AdminQueries ----------------------------
(***************************************************************************)
(* The Admin page's background queries: the four result slots of           *)
(* App::admin, the storage-detail slot, the threads that call the          *)
(* privileged helper through sudo, the authorisation state all of them     *)
(* share (Arc<Mutex<PrivilegeState>>), the probe started by                *)
(* PrivilegeClient::new, and the UI thread, which alone drains the result  *)
(* channel and which blocks in recheck() and in the interactive sudo.      *)
(*                                                                         *)
(* A CALL is one spawned thread together with the one message it leaves in *)
(* the channel: it is "asking" until sudo ends, "answered" until           *)
(* PrivilegeClient::run has stored what it learnt in the shared state,     *)
(* "sent" until drain_worker takes the message, then "free" again.         *)
(***************************************************************************)
EXTENDS Naturals, FiniteSets

CONSTANTS
    Tabs,       \* the Admin tabs, one result slot each (ADMIN_TABS)
    Storage,    \* the tab whose rows open a storage detail
    Users,      \* users a storage row may name
    NoUser,     \* AdminState::detail_user = None
    Calls,      \* bound: the calls that can be under way at the same time
    MaxMutations, \* bound: the confirmed operations among them
    Outages     \* answers that are not a matter of authorisation

ASSUME TabsAssumption  == /\ Storage \in Tabs
                          /\ Tabs \cap {"detail", "mutation"} = {}
ASSUME UserAssumption  == NoUser \notin Users
ASSUME MutationAssumption == MaxMutations \in Nat
ASSUME OutageAssumption == Outages \subseteq {"refused", "failed", "timeout"}

VARIABLES
    helper,      \* BOOLEAN: locate_helper found a helper at start-up
    priv,        \* the shared PrivilegeState
    cred,        \* what sudo would decide now: "cached", "expired", "denied"
    view,        \* "Admin" or "Other"
    modal,       \* "None" or "Message"
    tab,         \* the Admin tab shown
    slot,        \* the Async result slot of each tab
    detail,      \* the Async storage detail ...
    detailUser,  \* ... and the user it is for
    call,        \* the spawned threads and their messages
    probe,       \* the start-up probe
    ui           \* the UI thread: in its loop, or blocked in a sudo call

vars == <<helper, priv, cred, view, modal, tab, slot, detail, detailUser,
          call, probe, ui>>

PrivilegeStates == {"HelperMissing", "Locked", "Unauthorized", "Available"}
AsyncStates == {"idle", "running", "ready", "failed"}
Jobs == Tabs \cup {"detail", "mutation"}

\* What run_raw can return: a good response, a response carrying an error,
\* NeedsAuth, NotAuthorized, Timeout, and every other error.
Answers == {"ok", "refused", "needsAuth", "denied", "timeout", "failed"}

FreeCall == [pc |-> "free", job |-> Storage, user |-> NoUser, ans |-> "failed"]
CallRecords == [pc : {"free", "asking", "answered", "sent"}, job : Jobs,
                user : Users \cup {NoUser}, ans : Answers]
ProbeRecords == [pc : {"asking", "answered", "done"}, ans : Answers]
UiPoints == {"loop", "recheck", "rechecked", "prompt", "refresh", "refreshed"}
UiRecords == [pc : UiPoints, ans : Answers, authed : BOOLEAN]
UiAt(point, authed) == [pc |-> point, ans |-> "failed", authed |-> authed]
UiLoop == UiAt("loop", FALSE)

TypeOK ==
    /\ helper \in BOOLEAN
    /\ priv \in PrivilegeStates
    /\ cred \in {"cached", "expired", "denied"}
    /\ view \in {"Admin", "Other"}
    /\ modal \in {"None", "Message"}
    /\ tab \in Tabs
    /\ slot \in [Tabs -> AsyncStates]
    /\ detail \in AsyncStates
    /\ detailUser \in Users \cup {NoUser}
    /\ call \in [Calls -> CallRecords]
    /\ probe \in ProbeRecords
    /\ ui \in UiRecords

-----------------------------------------------------------------------------
(* PrivilegeClient *)

\* sudo -n decides by its own policy and timestamp; the helper it starts may
\* answer with an error, and a call can fail or run out of time.
SudoAnswers ==
    (CASE cred = "cached"  -> {"ok"} \cup (Outages \cap {"refused"})
       [] cred = "expired" -> {"needsAuth"}
       [] cred = "denied"  -> {"denied"})
    \cup (Outages \cap {"failed", "timeout"})

\* classify(): the state a capability call (probe, recheck, refresh) stores.
Classify(ans) ==
    CASE ans \in {"ok", "refused"}        -> "Available"
      [] ans \in {"needsAuth", "timeout"} -> "Locked"
      [] OTHER                            -> "Unauthorized"

\* run(): the state an operation leaves. An error that says nothing about
\* authorisation leaves the state as it is.
AfterRun(ans) ==
    CASE ans \in {"ok", "refused"} -> "Available"
      [] ans = "needsAuth"         -> "Locked"
      [] ans = "denied"            -> "Unauthorized"
      [] OTHER                     -> priv

\* A thread reaches the point where sudo answers; without a helper run()
\* returns HelperMissing before it spawns anything.
CallAnswered(c) ==
    /\ call[c].pc = "asking"
    /\ \/ /\ priv = "HelperMissing"
          /\ call' = [call EXCEPT ![c].pc = "sent", ![c].ans = "failed"]
       \/ /\ priv # "HelperMissing"
          /\ \E a \in SudoAnswers :
                call' = [call EXCEPT ![c].pc = "answered", ![c].ans = a]
    /\ UNCHANGED <<helper, priv, cred, view, modal, tab, slot, detail,
                   detailUser, probe, ui>>

\* Slip: the thread returns early on an error and never sends.
CallConcludesOrDies(c) ==
    /\ call[c].pc = "answered"
    /\ priv' = AfterRun(call[c].ans)
    /\ call' = [call EXCEPT ![c] = IF call[c].ans = "ok"
                                   THEN [@ EXCEPT !.pc = "sent"] ELSE FreeCall]
    /\ UNCHANGED <<helper, cred, view, modal, tab, slot, detail, detailUser,
                   probe, ui>>

\* ... then it stores what it learnt and sends its message: the value, or an
\* error whose kind is text from here on.
CallConcludes(c) ==
    /\ call[c].pc = "answered"
    /\ priv' = AfterRun(call[c].ans)
    /\ call' = [call EXCEPT ![c].pc = "sent",
                             ![c].ans = IF @ = "ok" THEN "ok" ELSE "failed"]
    /\ UNCHANGED <<helper, cred, view, modal, tab, slot, detail, detailUser,
                   probe, ui>>

\* The start-up probe runs once, on a client of its own, and writes its
\* verdict over the shared state whenever it finishes.
ProbeAnswered ==
    /\ probe.pc = "asking"
    /\ \E a \in SudoAnswers : probe' = [pc |-> "answered", ans |-> a]
    /\ UNCHANGED <<helper, priv, cred, view, modal, tab, slot, detail,
                   detailUser, call, ui>>

ProbeConcludes ==
    /\ probe.pc = "answered"
    /\ priv' = Classify(probe.ans)
    /\ probe' = [pc |-> "done", ans |-> "failed"]
    /\ UNCHANGED <<helper, cred, view, modal, tab, slot, detail, detailUser,
                   call, ui>>

-----------------------------------------------------------------------------
(* Requests made by the UI thread *)

Outstanding(job) == {c \in Calls : call[c].pc # "free" /\ call[c].job = job}

Spawn(job, user) ==
    \E c \in Calls :
        /\ call[c].pc = "free"
        /\ call' = [call EXCEPT ![c] = [pc |-> "asking", job |-> job,
                                        user |-> user, ans |-> "failed"]]

\* Slip: a forced refresh does not look whether a query is already running.
AdminSkipsForced(t, force) ==
    \/ priv = "HelperMissing"
    \/ ~force /\ slot[t] \in {"running", "ready"}

\* request_admin(force) on tab t starts no query ...
AdminSkips(t, force) ==
    \/ priv = "HelperMissing"
    \/ slot[t] = "running"
    \/ ~force /\ slot[t] = "ready"

RequestAdmin(t, force) ==
    \/ /\ AdminSkips(t, force)
       /\ UNCHANGED <<slot, call>>
    \/ /\ ~AdminSkips(t, force)
       /\ slot' = [slot EXCEPT ![t] = "running"]
       /\ Spawn(t, NoUser)

\* Slip: a second row may be opened while the first is still being scanned.
DetailSkipsLocked == priv # "Available"

\* request_storage_detail gives up silently ...
DetailSkips == priv # "Available" \/ detail = "running"

RequestDetail(u) ==
    \/ /\ DetailSkips
       /\ UNCHANGED <<detail, detailUser, call>>
    \/ /\ ~DetailSkips
       /\ detail' = "running"
       /\ detailUser' = u
       /\ Spawn("detail", u)

\* Keys reach the page only while the UI thread is in its loop and no window
\* is open.
KeysReachPage == ui.pc = "loop" /\ modal = "None"

\* 'A': show the page; query at once if the state says it will work.
KeyAdmin ==
    /\ KeysReachPage
    /\ view' = "Admin"
    /\ \/ priv = "Available" /\ RequestAdmin(tab, FALSE)
       \/ priv # "Available" /\ UNCHANGED <<slot, call>>
    /\ UNCHANGED <<helper, priv, cred, modal, tab, detail, detailUser, probe, ui>>

\* The other ways of changing page start no query.
ChangePage ==
    /\ KeysReachPage
    /\ view' \in {"Admin", "Other"} \ {view}
    /\ UNCHANGED <<helper, priv, cred, modal, tab, slot, detail, detailUser,
                   call, probe, ui>>

\* 'r' queries again even when data is there.
KeyRefresh ==
    /\ KeysReachPage
    /\ view = "Admin"
    /\ RequestAdmin(tab, TRUE)
    /\ UNCHANGED <<helper, priv, cred, view, modal, tab, detail, detailUser,
                   probe, ui>>

\* Slip: showing a tab always asks again.
ShowTabForced(t) ==
    /\ KeysReachPage
    /\ view = "Admin"
    /\ t # tab
    /\ tab' = t
    /\ RequestAdmin(t, TRUE)
    /\ UNCHANGED <<helper, priv, cred, view, modal, detail, detailUser, probe, ui>>

\* '[' , ']' and moving the focus onto another tab (sync_admin_focus).
ShowTab(t) ==
    /\ KeysReachPage
    /\ view = "Admin"
    /\ t # tab
    /\ tab' = t
    /\ RequestAdmin(t, FALSE)
    /\ UNCHANGED <<helper, priv, cred, view, modal, detail, detailUser, probe, ui>>

\* Enter on the row of user u in the storage list.
KeyOpenDetail(u) ==
    /\ KeysReachPage
    /\ view = "Admin"
    /\ tab = Storage
    /\ slot[Storage] = "ready"
    /\ RequestDetail(u)
    /\ UNCHANGED <<helper, priv, cred, view, modal, tab, slot, probe, ui>>

\* Enter on the confirmed option of a confirmation window.
ExecuteConfirmed ==
    /\ KeysReachPage
    /\ Cardinality(Outstanding("mutation")) < MaxMutations
    /\ Spawn("mutation", NoUser)
    /\ UNCHANGED <<helper, priv, cred, view, modal, tab, slot, detail,
                   detailUser, probe, ui>>

\* Any key closes a message.
KeyDismiss ==
    /\ ui.pc = "loop"
    /\ modal = "Message"
    /\ modal' = "None"
    /\ UNCHANGED <<helper, priv, cred, view, tab, slot, detail, detailUser,
                   call, probe, ui>>

-----------------------------------------------------------------------------
(* 'u': recheck, then prompt if sudo wants a password *)

\* Slip: recheck() runs sudo even if there is no helper to run.
KeyUnlockBlind ==
    /\ KeysReachPage
    /\ ui' = UiAt("recheck", FALSE)
    /\ UNCHANGED <<helper, priv, cred, view, modal, tab, slot, detail,
                   detailUser, call, probe>>

KeyUnlock ==
    /\ KeysReachPage
    /\ \/ /\ ~helper
          /\ modal' = "Message"
          /\ UNCHANGED ui
       \/ /\ helper
          /\ ui' = UiAt("recheck", FALSE)
          /\ UNCHANGED modal
    /\ UNCHANGED <<helper, priv, cred, view, tab, slot, detail, detailUser,
                   call, probe>>

\* The sudo -n call of recheck(), from 'u' or from authenticate_interactive.
RecheckAnswered ==
    /\ ui.pc \in {"recheck", "refresh"}
    /\ \E a \in SudoAnswers :
          ui' = [ui EXCEPT !.ans = a,
                           !.pc = IF @ = "recheck" THEN "rechecked"
                                                   ELSE "refreshed"]
    /\ UNCHANGED <<helper, priv, cred, view, modal, tab, slot, detail,
                   detailUser, call, probe>>

\* recheck() stores its verdict and 'u' acts on that verdict.
UnlockDecided ==
    /\ ui.pc = "rechecked"
    /\ priv' = Classify(ui.ans)
    /\ \/ /\ Classify(ui.ans) = "Locked"
          /\ ui' = UiAt("prompt", FALSE)
          /\ UNCHANGED <<view, modal, slot, call>>
       \/ /\ Classify(ui.ans) = "Available"
          /\ ui' = UiLoop
          /\ view' = "Admin"
          /\ RequestAdmin(tab, FALSE)
          /\ UNCHANGED modal
       \/ /\ Classify(ui.ans) = "Unauthorized"
          /\ ui' = UiLoop
          /\ modal' = "Message"
          /\ UNCHANGED <<view, slot, call>>
    /\ UNCHANGED <<helper, cred, tab, detail, detailUser, probe>>

\* The interactive sudo ends. A password accepted need not leave a timestamp
\* behind (timestamp_timeout=0); sudo may also not start at all.
PromptEnds ==
    /\ ui.pc = "prompt"
    /\ \/ /\ cred # "denied"
          /\ cred' \in {cred, "cached"}
          /\ ui' = UiAt("refresh", TRUE)
       \/ /\ ui' = UiAt("refresh", FALSE)
          /\ UNCHANGED cred
       \/ /\ ui' = UiLoop
          /\ UNCHANGED cred
    /\ UNCHANGED <<helper, priv, view, modal, tab, slot, detail, detailUser,
                   call, probe>>

\* refresh() stores its verdict; authenticate() goes by sudo's exit status.
PromptDecided ==
    /\ ui.pc = "refreshed"
    /\ priv' = Classify(ui.ans)
    /\ ui' = UiLoop
    /\ \/ ui.authed /\ RequestAdmin(tab, FALSE)
       \/ ~ui.authed /\ UNCHANGED <<slot, call>>
    /\ UNCHANGED <<helper, cred, view, modal, tab, detail, detailUser, probe>>

-----------------------------------------------------------------------------
(* drain_worker *)

Arrived(job) == {c \in Calls : call[c].pc = "sent" /\ call[c].job = job}

Outcome(c) == IF call[c].ans = "ok" THEN "ready" ELSE "failed"

\* tick() takes every message that is in the channel.
DrainWorker ==
    /\ ui.pc = "loop"
    /\ \E c \in Calls : call[c].pc = "sent"
    /\ slot' \in {s \in [Tabs -> AsyncStates] :
                    \A t \in Tabs :
                        s[t] \in IF Arrived(t) = {}
                                 THEN {slot[t]}
                                 ELSE {Outcome(c) : c \in Arrived(t)}}
    /\ \/ /\ Arrived("detail") = {}
          /\ UNCHANGED <<detail, detailUser>>
       \/ \E c \in Arrived("detail") :
            /\ detail' = Outcome(c)
            /\ detailUser' = call[c].user
    /\ modal' = IF \E c \in Arrived("mutation") : Outcome(c) = "failed"
                THEN "Message" ELSE modal
    /\ call' = [c \in Calls |-> IF call[c].pc = "sent" THEN FreeCall ELSE call[c]]
    /\ UNCHANGED <<helper, priv, cred, view, tab, probe, ui>>

-----------------------------------------------------------------------------
(* sudo's policy and timestamp change outside the program's control *)

CredentialChanges ==
    /\ cred' \in {"cached", "expired", "denied"} \ {cred}
    /\ UNCHANGED <<helper, priv, view, modal, tab, slot, detail, detailUser,
                   call, probe, ui>>

Init ==
    /\ helper \in BOOLEAN
    /\ priv = IF helper THEN "Locked" ELSE "HelperMissing"
    /\ cred \in {"cached", "expired", "denied"}
    /\ view \in {"Admin", "Other"}
    /\ modal = "None"
    /\ tab = Storage
    /\ slot = [t \in Tabs |-> "idle"]
    /\ detail = "idle"
    /\ detailUser = NoUser
    /\ call = [c \in Calls |-> FreeCall]
    /\ probe = [pc |-> IF helper THEN "asking" ELSE "done", ans |-> "failed"]
    /\ ui = UiLoop

Background ==
    \/ \E c \in Calls : CallAnswered(c) \/ CallConcludes(c)
    \/ ProbeAnswered
    \/ ProbeConcludes

Keys ==
    \/ KeyAdmin
    \/ ChangePage
    \/ KeyRefresh
    \/ \E t \in Tabs : ShowTab(t)
    \/ \E u \in Users : KeyOpenDetail(u)
    \/ ExecuteConfirmed
    \/ KeyDismiss
    \/ KeyUnlock

BlockedUi == RecheckAnswered \/ UnlockDecided \/ PromptEnds \/ PromptDecided

Next == Background \/ Keys \/ BlockedUi \/ DrainWorker \/ CredentialChanges

Spec == Init /\ [][Next]_vars

\* Every sudo call ends (its timeout, sudo's own prompt timeout), every thread
\* runs on, and the main loop reaches tick() again and again: it eats the
\* waiting keys first, and keys come slower than they are eaten.
Fairness ==
    /\ \A c \in Calls : WF_vars(CallAnswered(c)) /\ WF_vars(CallConcludes(c))
    /\ WF_vars(BlockedUi)
    /\ SF_vars(DrainWorker)

FairSpec == Spec /\ Fairness

-----------------------------------------------------------------------------
(* What must hold *)

\* A slot says "running" exactly while one thread, and only one, owes it an
\* answer: two keys, a forced refresh and an unlock never start a second query
\* for a tab, and no answer is left without a slot that waits for it.
OneQueryPerTab ==
    \A t \in Tabs :
        /\ slot[t] = "running" <=> Outstanding(t) # {}
        /\ \A c, d \in Outstanding(t) : c = d

\* The detail pane waits for one call, and that call asks for the user whose
\* name the pane shows: an answer for one user is never shown under another.
DetailOwned ==
    /\ detail = "running" <=> Outstanding("detail") # {}
    /\ \A c, d \in Outstanding("detail") : c = d
    /\ \A c \in Outstanding("detail") : call[c].user = detailUser

\* Without a helper nothing the user presses turns the state into another one,
\* leaves a query behind or blocks the UI thread in sudo; at most a confirmed
\* mutation is under way, and it never gets to ask sudo.
NoHelperNoQuery ==
    /\ helper <=> priv # "HelperMissing"
    /\ ~helper => /\ slot = [t \in Tabs |-> "idle"]
                  /\ detail = "idle"
                  /\ ui = UiLoop
                  /\ \A c \in Calls : call[c].pc # "answered"

\* Looking at another tab never throws away data that has arrived.
VisitKeepsData ==
    [][tab' # tab => \A t \in Tabs : slot[t] = "ready" => slot'[t] = "ready"]_vars

\* Whatever the user does meanwhile, a tab that shows "querying" leaves it.
EveryQueryEnds ==
    \A t \in Tabs : slot[t] = "running" ~> slot[t] # "running"
=============================================================================
