------------------------------- MODULE Helper -------------------------------
(***************************************************************************)
(* One call of the privileged helper, from PrivilegeClient::run on a       *)
(* thread of sysview, by way of sudo and a command line, through the       *)
(* helper process with its checks, its effect, its audit line and its      *)
(* answer, back to what the thread is told: with the time limit, with      *)
(* sysview quitting in between, and with processes that end and whose ids  *)
(* are used again while all of this goes on. The helper can be started by  *)
(* hand as well, with any command line.                                    *)
(*                                                                         *)
(* A RUN is one such call. A process is its id with its start time, as in  *)
(* the code; start times of one id only grow.                              *)
(***************************************************************************)
EXTENDS Integers, Sequences, FiniteSets

CONSTANTS
    Runs,         \* bound: calls and helper processes at the same time
    Pids,         \* process ids; 1 is init
    MaxStart,     \* bound: the last start time of a process
    Signals,      \* the signals that are asked for
    Nices,        \* the nice values that are asked for
    HandArgv,     \* command lines given by hand
    Counts,       \* how many accounts the password database may have
    StorageBudget, LeastPerUser, StorageLimit,  \* seconds: 90, 5 and 150
    DetailBudget, DetailLimit                   \* seconds: 45 and 90

ASSUME ProcessAssumption == /\ 1 \in Pids
                            /\ Pids \subseteq Nat \ {0}
                            /\ MaxStart \in Nat \ {0}
ASSUME AskedAssumption == Nices \subseteq Int /\ Counts \subseteq Nat

\* Numbers where numbers belong; of the ids, those the model has, or none.
ASSUME HandAssumption ==
    /\ Len(HandArgv) \in Nat
    /\ DOMAIN HandArgv = 1 .. Len(HandArgv)
    /\ \A i \in DOMAIN HandArgv :
          LET flags == HandArgv[i].flags
          IN  \A j \in DOMAIN flags :
                  /\ flags[j][1] \in {"pid", "starttime", "nice"} => flags[j][2] \in Int
                  /\ flags[j][1] = "pid" => flags[j][2] \in Pids \/ flags[j][2] <= 0
ASSUME TimeAssumption ==
    /\ {StorageBudget, LeastPerUser, DetailBudget} \subseteq Nat \ {0}
    /\ StorageBudget < StorageLimit /\ DetailBudget < DetailLimit
    /\ StorageLimit \in Nat /\ DetailLimit \in Nat

VARIABLES
    procs,     \* the start time of the process that has an id, 0 for none
    born,      \* the next start time
    client,    \* the thread that called run(), or "byhand"
    asked,     \* the operation it asked for
    result,    \* what it was told
    pc,        \* the sudo process that becomes the helper
    hand,      \* 0, or which of HandArgv it was started with
    task,      \* the operation the helper took from its command line
    checked,   \* born when confirm_target read the start time
    victim,    \* the start time of the process acted on, 0 for none
    verdict,   \* how dispatch() ended
    audited,   \* the line in the audit log
    out,       \* what is on the pipe
    users, left, spent,  \* accounts, those still to be scanned, seconds
    late       \* something other than scanning took longer than the limit

table == <<procs, born>>
caller == <<client, asked, result, hand>>
effects == <<checked, victim>>
log == <<verdict, audited, out>>
scan == <<users, left, spent>>
vars == <<table, caller, pc, task, effects, log, scan, late>>

-----------------------------------------------------------------------------
(* protocol.rs *)

SafeSignals == {"TERM", "INT", "HUP"}
Mutations == {"process-signal", "renice"}
Scans == {"storage-users", "storage-user-detail"}
Reads == {"capability", "process-detail", "user-memory"} \cup Scans

\* An operation. user-memory stands for gpu-users and socket-map too: they
\* read and count, and nobody waits for more than their end.
Operation(n, p, t, sig, nice) ==
    [name |-> n, pid |-> p, starttime |-> t, signal |-> sig, nice |-> nice]
Plain(n) == Operation(n, 0, 0, "none", 0)
NoTask == Plain("none")

\* Operation::validate
Valid(o) ==
    /\ o.name \in Mutations \cup {"process-detail"} => o.pid > 0
    /\ o.name \in Mutations => o.starttime # 0
    /\ o.name = "renice" => o.nice \in 0 .. 19

\* Operation::to_argv: a subcommand and --key value pairs.
ToArgv(o) ==
    [sub |-> o.name,
     flags |-> CASE o.name = "process-signal" ->
                      << <<"pid", o.pid>>, <<"starttime", o.starttime>>,
                         <<"signal", o.signal>> >>
                 [] o.name = "renice" ->
                      << <<"pid", o.pid>>, <<"starttime", o.starttime>>,
                         <<"nice", o.nice>> >>
                 [] o.name = "process-detail" -> << <<"pid", o.pid>> >>
                 [] o.name = "storage-user-detail" -> << <<"user", "name">> >>
                 [] OTHER -> << >>]

\* The flags parse_argv knows for a subcommand.
Allowed(sub) ==
    CASE sub = "process-signal"      -> {"pid", "starttime", "signal"}
      [] sub = "renice"              -> {"pid", "starttime", "nice"}
      [] sub = "process-detail"      -> {"pid"}
      [] sub = "storage-user-detail" -> {"user"}
      [] OTHER                       -> {}

Keys(flags) == {flags[i][1] : i \in DOMAIN flags}
Value(flags, key) == flags[CHOOSE i \in DOMAIN flags : flags[i][1] = key][2]

\* parse_flags and parse_argv: exactly the flags of the subcommand, each
\* once, with a positive id and a signal of the list. Every subcommand that
\* takes flags needs all of them.
Parses(argv) ==
    /\ argv.sub \in Mutations \cup Reads
    /\ Keys(argv.flags) = Allowed(argv.sub)
    /\ Cardinality(Keys(argv.flags)) = Len(argv.flags)
    /\ "pid" \in Allowed(argv.sub) => Value(argv.flags, "pid") > 0
    /\ argv.sub = "process-signal" => Value(argv.flags, "signal") \in SafeSignals

Parsed(argv) ==
    LET field(key, default) ==
            IF key \in Keys(argv.flags) THEN Value(argv.flags, key) ELSE default
    IN  Operation(argv.sub, field("pid", 0), field("starttime", 0),
                  field("signal", "none"), field("nice", 0))

-----------------------------------------------------------------------------
(* The processes of the machine: external *)

Exits(p) ==
    /\ p # 1
    /\ procs[p] # 0
    /\ procs' = [procs EXCEPT ![p] = 0]
    /\ UNCHANGED <<born, caller, pc, task, effects, log, scan, late>>

Starts(p) ==
    /\ procs[p] = 0
    /\ born <= MaxStart
    /\ procs' = [procs EXCEPT ![p] = born]
    /\ born' = born + 1
    /\ UNCHANGED <<caller, pc, task, effects, log, scan, late>>

-----------------------------------------------------------------------------
(* The thread that calls run(), and sudo *)

\* A file as verify_helper_safety looks at it, and when it may be run.
HelperFiles == [kind : {"file", "symlink", "directory"},
                mode : {"plain", "setuid", "setgid", "writable"},
                owner : {"root", "me", "other"},
                beside : BOOLEAN,       \* in the directory of sysview itself
                above : {"root", "other", "writable"}]
SafeFile(f) ==
    /\ f.kind = "file"
    /\ f.mode = "plain"
    /\ IF f.beside THEN f.owner \in {"root", "me"}
                   ELSE f.owner = "root" /\ f.above = "root"

\* What somebody asks for: an operation on a process that is there, as the
\* screen shows it, or a query.
Askable ==
    {Operation("process-signal", p, procs[p], s, 0) :
        p \in {q \in Pids : procs[q] # 0}, s \in Signals}
    \cup {Operation("renice", p, procs[p], "none", n) :
        p \in {q \in Pids : procs[q] # 0}, n \in Nices}
    \cup {Operation("process-detail", p, 0, "none", 0) :
        p \in {q \in Pids : procs[q] # 0}}
    \cup {Plain(n) : n \in Reads \ {"process-detail"}}

\* run() and run_raw() up to the start of sudo: an operation that is not
\* valid and a file that is not safe are refused.
Asks(r, o) ==
    /\ client[r] = "idle"
    /\ asked' = [asked EXCEPT ![r] = o]
    /\ \E safe \in {SafeFile(f) : f \in HelperFiles} :
          IF Valid(o) /\ safe
          THEN /\ client' = [client EXCEPT ![r] = "waiting"]
               /\ pc' = [pc EXCEPT ![r] = "sudo"]
               /\ UNCHANGED result
          ELSE /\ client' = [client EXCEPT ![r] = "told"]
               /\ result' = [result EXCEPT ![r] = "failed"]
               /\ UNCHANGED pc
    /\ UNCHANGED <<table, hand, task, effects, log, scan, late>>

StartedByHand(r, i) ==
    /\ client[r] = "idle"
    /\ client' = [client EXCEPT ![r] = "byhand"]
    /\ hand' = [hand EXCEPT ![r] = i]
    /\ pc' = [pc EXCEPT ![r] = "start"]
    /\ UNCHANGED <<table, asked, result, task, effects, log, scan, late>>

\* sudo -n starts the helper, or wants a password, or refuses.
SudoDecides(r) ==
    /\ pc[r] = "sudo"
    /\ \/ /\ pc' = [pc EXCEPT ![r] = "start"]
          /\ UNCHANGED out
       \/ /\ pc' = [pc EXCEPT ![r] = "ended"]
          /\ out' = [out EXCEPT ![r] = "refused"]
    /\ UNCHANGED <<table, caller, task, effects, verdict, audited, scan, late>>

\* Anything between sudo and the answer can block: an authentication
\* server, the log, a disk.
Blocks(r) ==
    /\ pc[r] \notin {"none", "ended"}
    /\ ~late[r]
    /\ late' = [late EXCEPT ![r] = TRUE]
    /\ UNCHANGED <<table, caller, pc, task, effects, log, scan>>

\* timeout_for
LimitOf(o) == IF o.name = "storage-users" THEN StorageLimit ELSE DetailLimit

\* output_with_timeout at its limit: the child is killed, if that is allowed.
\* From some point on sudo, and then the helper, belong to root.
TimeLimit(r) ==
    /\ client[r] = "waiting"
    /\ pc[r] # "ended"
    /\ late[r] \/ spent[r] >= LimitOf(asked[r])
    /\ client' = [client EXCEPT ![r] = "killing"]
    /\ \/ pc[r] = "sudo" /\ pc' = [pc EXCEPT ![r] = "ended"]
       \/ UNCHANGED pc
    /\ UNCHANGED <<table, asked, result, hand, task, effects, log, scan, late>>

Told(r, word) ==
    /\ client' = [client EXCEPT ![r] = "told"]
    /\ result' = [result EXCEPT ![r] = word]
    /\ UNCHANGED <<table, asked, hand, pc, task, effects, log, scan, late>>

\* Slip: running out of time is reported like any other failure.
WaitEndsAsFailure(r) ==
    /\ client[r] = "killing"
    /\ pc[r] = "ended"
    /\ Told(r, "failed")

\* Slip: after the kill it waits for the answer, not for the process.
WaitEndsWithAnswer(r) ==
    /\ client[r] = "killing"
    /\ pc[r] = "ended"
    /\ out[r] # "none"
    /\ Told(r, "timeout")

\* child.wait() after the kill returns when the process has ended, however
\* it ended.
WaitEnds(r) ==
    /\ client[r] = "killing"
    /\ pc[r] = "ended"
    /\ Told(r, "timeout")

\* try_wait() finds the process ended within the limit: sudo's message or
\* the helper's answer says how.
Returns(r) ==
    /\ client[r] = "waiting"
    /\ pc[r] = "ended"
    /\ Told(r, CASE out[r] = "ok"      -> "ok"
                 [] out[r] = "refused" -> "refused"
                 [] OTHER              -> "failed")

\* sysview ends: its threads and its ends of the pipes are gone.
Quits ==
    /\ \E r \in Runs : client[r] \in {"waiting", "killing"}
    /\ client' = [r \in Runs |-> IF client[r] \in {"waiting", "killing"}
                                 THEN "gone" ELSE client[r]]
    /\ UNCHANGED <<table, asked, result, hand, pc, task, effects, log, scan,
                   late>>

\* The place of a finished run is free for another.
Forgotten(r) ==
    /\ \/ client[r] = "told"
       \/ client[r] \in {"gone", "byhand"} /\ pc[r] = "ended"
    /\ client' = [client EXCEPT ![r] = "idle"]
    /\ result' = [result EXCEPT ![r] = "none"]
    /\ asked' = [asked EXCEPT ![r] = NoTask]
    /\ hand' = [hand EXCEPT ![r] = 0]
    /\ pc' = [pc EXCEPT ![r] = "none"]
    /\ task' = [task EXCEPT ![r] = NoTask]
    /\ checked' = [checked EXCEPT ![r] = 0]
    /\ victim' = [victim EXCEPT ![r] = 0]
    /\ verdict' = [verdict EXCEPT ![r] = "none"]
    /\ audited' = [audited EXCEPT ![r] = "none"]
    /\ out' = [out EXCEPT ![r] = "none"]
    /\ users' = [users EXCEPT ![r] = 0]
    /\ left' = [left EXCEPT ![r] = 0]
    /\ spent' = [spent EXCEPT ![r] = 0]
    /\ late' = [late EXCEPT ![r] = FALSE]
    /\ UNCHANGED table

-----------------------------------------------------------------------------
(* The helper process *)

Argv(r) == IF hand[r] = 0 THEN ToArgv(asked[r]) ELSE HandArgv[hand[r]]

\* Slip: the answer is printed before the audit line is written.
AfterWorkAnswerFirst(o, at) ==
    IF o.name \notin Mutations
    THEN IF at = "emit" THEN "ended" ELSE "emit"
    ELSE CASE at = "work" -> "emit" [] at = "emit" -> "audit" [] OTHER -> "ended"

\* main() after dispatch(): a mutation is audited, then the answer printed.
AfterWork(o, at) ==
    IF o.name \notin Mutations
    THEN IF at = "emit" THEN "ended" ELSE "emit"
    ELSE CASE at = "work" -> "audit" [] at = "audit" -> "emit" [] OTHER -> "ended"

\* Where dispatch() starts with an operation.
FirstStep(o) ==
    CASE o.name \in Mutations       -> "stat"
      [] o.name = "process-detail"  -> "owner"
      [] o.name \in Scans           -> "accounts"
      [] OTHER                      -> "read"

At(r, point) == pc' = [pc EXCEPT ![r] = point]
Ends(r, how) ==
    /\ verdict' = [verdict EXCEPT ![r] = how]
    /\ At(r, AfterWork(task[r], "work"))

\* main(): without root, with a command line that does not parse, or with
\* an operation that is not valid, the helper only says so; the last is
\* audited whatever the operation is.
Begins(r) ==
    /\ pc[r] = "start"
    /\ \E root \in IF hand[r] = 0 THEN {TRUE} ELSE BOOLEAN :
          LET o == Parsed(Argv(r))
          IN  IF ~root \/ ~Parses(Argv(r))
              THEN /\ verdict' = [verdict EXCEPT ![r] = "error"]
                   /\ At(r, "emit")
                   /\ UNCHANGED <<task, audited>>
              ELSE /\ task' = [task EXCEPT ![r] = o]
                   /\ IF Valid(o)
                      THEN /\ At(r, FirstStep(o))
                           /\ UNCHANGED <<verdict, audited>>
                      ELSE /\ verdict' = [verdict EXCEPT ![r] = "error"]
                           /\ audited' = [audited EXCEPT ![r] = "rejected"]
                           /\ At(r, "emit")
    /\ UNCHANGED <<table, caller, effects, out, scan, late>>

\* Slip: the start time is not compared.
ReadsStatOnly(r) ==
    /\ pc[r] = "stat"
    /\ checked' = [checked EXCEPT ![r] = born]
    /\ IF procs[task[r].pid] = 0
       THEN Ends(r, "failed")
       ELSE /\ IF task[r].name \in Mutations THEN At(r, "owner") /\ UNCHANGED verdict
               ELSE Ends(r, "ok")
    /\ UNCHANGED <<table, caller, task, victim, audited, out, scan, late>>

\* confirm_target reads the start time of whatever has the id now; so does
\* process_detail, without comparing it.
ReadsStat(r) ==
    /\ pc[r] = "stat"
    /\ checked' = [checked EXCEPT ![r] = born]
    /\ IF task[r].name \in Mutations
       THEN IF procs[task[r].pid] = task[r].starttime
            THEN At(r, "owner") /\ UNCHANGED verdict
            ELSE Ends(r, "failed")
       ELSE Ends(r, IF procs[task[r].pid] = 0 THEN "failed" ELSE "ok")
    /\ UNCHANGED <<table, caller, task, victim, audited, out, scan, late>>

\* ... and the owner of it, a second look at the same id.
ReadsOwner(r) ==
    /\ pc[r] = "owner"
    /\ IF procs[task[r].pid] = 0
       THEN Ends(r, "failed")
       ELSE /\ At(r, IF task[r].name \in Mutations THEN "act" ELSE "stat")
            /\ UNCHANGED verdict
    /\ UNCHANGED <<table, caller, task, effects, audited, out, scan, late>>

\* kill or setpriority: on whatever has the id now, never a signal to init.
Acts(r) ==
    /\ pc[r] = "act"
    /\ IF procs[task[r].pid] = 0
          \/ (task[r].name = "process-signal" /\ task[r].pid = 1)
       THEN Ends(r, "failed") /\ UNCHANGED victim
       ELSE /\ victim' = [victim EXCEPT ![r] = procs[task[r].pid]]
            /\ Ends(r, "ok")
    /\ UNCHANGED <<table, caller, task, checked, audited, out, scan, late>>

\* Slip: every account gets the budget of all of them.
PerUserUndivided(o, n) == IF o.name = "storage-users" THEN StorageBudget ELSE DetailBudget

\* The seconds a home directory may be scanned for.
PerUser(o, n) ==
    LET share == IF n = 0 THEN StorageBudget ELSE StorageBudget \div n
    IN  IF o.name # "storage-users" THEN DetailBudget
        ELSE IF share > LeastPerUser THEN share ELSE LeastPerUser

\* real_users() finds n accounts; lookup_user() one or none.
FindsAccounts(r) ==
    /\ pc[r] = "accounts"
    /\ IF task[r].name = "storage-users"
       THEN \E n \in Counts :
               /\ users' = [users EXCEPT ![r] = n]
               /\ left' = [left EXCEPT ![r] = n]
               /\ At(r, "scan")
               /\ UNCHANGED verdict
       ELSE \/ /\ users' = [users EXCEPT ![r] = 1]
               /\ left' = [left EXCEPT ![r] = 1]
               /\ At(r, "scan")
               /\ UNCHANGED verdict
            \/ /\ Ends(r, "failed")
               /\ UNCHANGED <<users, left>>
    /\ UNCHANGED <<table, caller, task, effects, audited, out, spent, late>>

\* The accounts one after the other: a scan ends at once or at its deadline.
\* An account that is too slow to keep its deadline is a case of Blocks.
ScansUser(r) ==
    /\ pc[r] = "scan"
    /\ IF left[r] = 0
       THEN Ends(r, "ok") /\ UNCHANGED <<left, spent>>
       ELSE /\ \E s \in {0, PerUser(task[r], users[r])} :
                  spent' = [spent EXCEPT ![r] = @ + s]
            /\ left' = [left EXCEPT ![r] = @ - 1]
            /\ UNCHANGED <<verdict, pc>>
    /\ UNCHANGED <<table, caller, task, effects, audited, out, users, late>>

\* The operations that only read and count.
JustReads(r) ==
    /\ pc[r] = "read"
    /\ Ends(r, "ok")
    /\ UNCHANGED <<table, caller, task, effects, audited, out, scan, late>>

Audits(r) ==
    /\ pc[r] = "audit"
    /\ audited' = [audited EXCEPT ![r] = verdict[r]]
    /\ At(r, AfterWork(task[r], "audit"))
    /\ UNCHANGED <<table, caller, task, effects, verdict, out, scan, late>>

\* The answer goes to the pipe. If nobody holds the other end any more the
\* write ends the process (restore_default_sigpipe).
Emits(r) ==
    /\ pc[r] = "emit"
    /\ IF client[r] = "gone"
       THEN At(r, "ended") /\ UNCHANGED out
       ELSE /\ At(r, AfterWork(task[r], "emit"))
            /\ out' = [out EXCEPT ![r] = IF verdict[r] = "ok" THEN "ok" ELSE "error"]
    /\ UNCHANGED <<table, caller, task, effects, verdict, audited, scan, late>>

-----------------------------------------------------------------------------

Init ==
    /\ procs = [p \in Pids |-> 1]
    /\ born = 2
    /\ client = [r \in Runs |-> "idle"]
    /\ asked = [r \in Runs |-> NoTask]
    /\ result = [r \in Runs |-> "none"]
    /\ pc = [r \in Runs |-> "none"]
    /\ hand = [r \in Runs |-> 0]
    /\ task = [r \in Runs |-> NoTask]
    /\ checked = [r \in Runs |-> 0]
    /\ victim = [r \in Runs |-> 0]
    /\ verdict = [r \in Runs |-> "none"]
    /\ audited = [r \in Runs |-> "none"]
    /\ out = [r \in Runs |-> "none"]
    /\ users = [r \in Runs |-> 0]
    /\ left = [r \in Runs |-> 0]
    /\ spent = [r \in Runs |-> 0]
    /\ late = [r \in Runs |-> FALSE]

HelperRuns(r) ==
    \/ Begins(r) \/ ReadsStat(r) \/ ReadsOwner(r) \/ Acts(r) \/ FindsAccounts(r)
    \/ ScansUser(r) \/ JustReads(r) \/ Audits(r) \/ Emits(r)

Next ==
    \/ \E p \in Pids : Exits(p) \/ Starts(p)
    \/ \E r \in Runs :
          \/ \E o \in Askable : Asks(r, o)
          \/ \E i \in DOMAIN HandArgv : StartedByHand(r, i)
          \/ SudoDecides(r)
          \/ Blocks(r)
          \/ TimeLimit(r)
          \/ WaitEnds(r)
          \/ Returns(r)
          \/ Forgotten(r)
          \/ HelperRuns(r)
    \/ Quits

Spec == Init /\ [][Next]_vars

\* Processes run on: sudo comes to a decision (its back ends have time limits
\* of their own), the helper goes on from step to step, the calling thread
\* polls and waits.
Fairness ==
    \A r \in Runs : /\ WF_vars(SudoDecides(r))
                    /\ WF_vars(HelperRuns(r))
                    /\ WF_vars(WaitEnds(r) \/ Returns(r))

FairSpec == Spec /\ Fairness

-----------------------------------------------------------------------------
(* What must hold *)

HelperPoints == {"start", "stat", "owner", "act", "accounts", "scan", "read",
                 "audit", "emit"}
Tasks == [name : Mutations \cup Reads \cup {"none"}, pid : Int, starttime : Int,
          signal : Signals \cup SafeSignals \cup {"none"}, nice : Int]

\* Everything keeps its range; in particular the accounts still to be scanned
\* never run below none.
TypeOK ==
    /\ procs \in [Pids -> 0 .. MaxStart]
    /\ born \in 2 .. MaxStart + 2
    /\ client \in [Runs -> {"idle", "waiting", "killing", "told", "gone", "byhand"}]
    /\ asked \in [Runs -> Tasks]
    /\ result \in [Runs -> {"none", "ok", "failed", "refused", "timeout"}]
    /\ pc \in [Runs -> HelperPoints \cup {"none", "sudo", "ended"}]
    /\ hand \in [Runs -> 0 .. Len(HandArgv)]
    /\ task \in [Runs -> Tasks]
    /\ checked \in [Runs -> 0 .. MaxStart + 2]
    /\ victim \in [Runs -> 0 .. MaxStart]
    /\ verdict \in [Runs -> {"none", "ok", "failed", "error"}]
    /\ audited \in [Runs -> {"none", "ok", "failed", "rejected"}]
    /\ out \in [Runs -> {"none", "ok", "error", "refused"}]
    /\ users \in [Runs -> Nat]
    /\ left \in [Runs -> Nat]
    /\ spent \in [Runs -> Nat]
    /\ late \in [Runs -> BOOLEAN]

\* What a call has the helper do is what it was asked to do: an operation
\* goes through the command line and back (to_argv, parse_argv).
SameOperation ==
    \A r \in Runs : task[r] # NoTask /\ hand[r] = 0 => task[r] = asked[r]

\* Whoever starts it, with whatever command line, the helper acts only by a
\* signal of the list, never on init, or by a nice value that lowers the
\* priority (docs/security.md: what the helper accepts).
OnlyAllowedActs ==
    \A r \in Runs : victim[r] # 0 =>
        \/ /\ task[r].name = "process-signal"
           /\ task[r].signal \in SafeSignals
           /\ task[r].pid # 1
        \/ /\ task[r].name = "renice"
           /\ task[r].nice \in 0 .. 19

\* The process acted on is the one that was named, or one that got its id
\* after confirm_target had looked: never a process that was already there
\* under the id of the one that was meant.
VictimIsNamed ==
    \A r \in Runs : victim[r] # 0 =>
        \/ victim[r] = task[r].starttime
        \/ victim[r] >= checked[r]

\* Taken together: every act is one that was asked for, that is allowed, and
\* that meets the process it was meant for.
SafeActs == SameOperation /\ OnlyAllowedActs /\ VictimIsNamed

\* A helper that has ended has left an audit line of what it did, and none
\* of what it did not do: even if sysview had quit before the answer.
EveryActAudited ==
    \A r \in Runs :
        /\ pc[r] = "ended" /\ victim[r] # 0 => audited[r] = "ok"
        /\ audited[r] = "ok" => victim[r] # 0

\* storage_users shares its time out: as long as the accounts are few enough
\* for the least share of each to fit into the client's limit, only something
\* other than scanning makes the call run out of time.
FewUsersAnswered ==
    \A r \in Runs :
        result[r] = "timeout" /\ ~late[r] => users[r] * LeastPerUser >= StorageLimit

\* A call ends for the thread that made it: after a refused kill, with the
\* helper's own end.
CallsEnd ==
    \A r \in Runs : client[r] \in {"waiting", "killing"}
                        ~> client[r] \notin {"waiting", "killing"}

\* The client, sudo and the helper keep what OperationPromise says of a
\* confirmed operation.
Word(r) ==
    IF asked[r].name \notin Mutations THEN "nothing"
    ELSE CASE result[r] = "ok"                      -> "ok"
           [] result[r] \in {"failed", "refused"}   -> "failed"
           [] result[r] = "timeout"                 -> "unknown"
           [] OTHER                                 -> "nothing"

Promise == INSTANCE OperationPromise
    WITH effect <- [r \in Runs |-> IF victim[r] = 0 THEN "none" ELSE "done"],
         word <- [r \in Runs |-> Word(r)]

KeepsPromise == Promise!Spec
=============================================================================
