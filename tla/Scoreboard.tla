----------------------------- MODULE Scoreboard -----------------------------
(***************************************************************************)
(* The score board of the dino game: one file per account in a shared      *)
(* directory, merged by every sysview process each time it loads the       *)
(* board, and replaced by rename when a name is recorded. Processes of one *)
(* or of several accounts run side by side without any lock; a process may *)
(* be killed at any point, and a write may fail.                           *)
(*                                                                         *)
(* A file is the best verified score of each name in it, 0 for a name it   *)
(* does not hold. The time of a record only orders equal scores and is     *)
(* left out; so is the tag: records that do not verify are not there.      *)
(***************************************************************************)
EXTENDS Naturals, FiniteSets

CONSTANTS
    Procs,      \* sysview processes
    Accounts,   \* accounts (uids)
    Names,      \* names typed into the box, as sanitize_name leaves them
    Owner,      \* the account each process runs under
    MaxScore,   \* bound: the highest score anyone reaches
    Top,        \* TOP: the ranks shown
    Keep,       \* KEEP_PER_USER: the names one account's file holds
    Slots,      \* the names write_file tries for its temporary file
    MaxCrashes  \* bound: processes killed

ASSUME OwnerAssumption == Owner \in [Procs -> Accounts]
ASSUME NamesAssumption == IsFiniteSet(Names) /\ Names # {}
ASSUME SizesAssumption == /\ MaxScore \in Nat \ {0} /\ Slots \in Nat \ {0}
                          /\ Top \in Nat \ {0} /\ Keep \in Nat /\ Top <= Keep
                          /\ MaxCrashes \in Nat

Scores == 0..MaxScore
Files == [Names -> Scores]
Empty == [n \in Names |-> 0]

\* A name before any has been typed.
NoMatter == CHOOSE n \in Names : TRUE

VARIABLES
    file,     \* the score file of each account
    litter,   \* temporary files left by killed processes, per process id
    pc,       \* where each process is
    purpose,  \* what the load it is in is for
    left,     \* the accounts that load has not read yet
    board,    \* the board loaded (so far)
    score,    \* the score of the game that ended
    name,     \* the name submitted
    mine,     \* the file being written
    verdict,  \* what the process said of its last submission
    crashes

vars == <<file, litter, pc, purpose, left, board, score, name, mine, verdict,
          crashes>>

Purposes == {"death", "record", "rank", "show"}
Verdicts == {"none", "recorded", "unranked", "notHigher", "failed"}

TypeOK ==
    /\ file \in [Accounts -> Files]
    /\ litter \in [Procs -> 0..MaxCrashes]
    /\ pc \in [Procs -> {"playing", "load", "asked", "own", "create", "rename",
                         "told", "gone"}]
    /\ purpose \in [Procs -> Purposes]
    /\ left \in [Procs -> SUBSET Accounts]
    /\ board \in [Procs -> Files]
    /\ score \in [Procs -> Scores]
    /\ name \in [Procs -> Names]
    /\ mine \in [Procs -> Files]
    /\ verdict \in [Procs -> Verdicts]
    /\ crashes \in 0..MaxCrashes

Init ==
    /\ file = [a \in Accounts |-> Empty]
    /\ litter = [p \in Procs |-> 0]
    /\ pc = [p \in Procs |-> "playing"]
    /\ purpose = [p \in Procs |-> "death"]
    /\ left = [p \in Procs |-> {}]
    /\ board = [p \in Procs |-> Empty]
    /\ score = [p \in Procs |-> 0]
    /\ name = [p \in Procs |-> NoMatter]
    /\ mine = [p \in Procs |-> Empty]
    /\ verdict = [p \in Procs |-> "none"]
    /\ crashes = 0

-----------------------------------------------------------------------------
(* Board *)

\* Board::merge: of two records of one name the higher counts.
Merge(f, g) == [n \in Names |-> IF f[n] >= g[n] THEN f[n] ELSE g[n]]

AtLeast(f, s) == {n \in Names : f[n] >= s}

\* Board::qualifies: strictly above the last rank, or a rank is empty.
Qualifies(b, s) == s > 0 /\ Cardinality(AtLeast(b, s)) < Top

\* The highest Keep records of a file.
Kept(f) ==
    {g \in Files :
        /\ \A n \in Names : g[n] \in {0, f[n]}
        /\ \/ g = f
           \/ Cardinality(AtLeast(g, 1)) = Keep
        /\ Cardinality(AtLeast(g, 1)) <= Keep
        /\ \A n, m \in Names : g[n] # f[n] /\ g[m] > 0 => f[m] >= f[n]}

-----------------------------------------------------------------------------
(* Store::load, one file at a time *)

Loads(p, why) ==
    /\ pc' = [pc EXCEPT ![p] = "load"]
    /\ purpose' = [purpose EXCEPT ![p] = why]
    /\ left' = [left EXCEPT ![p] = Accounts]
    /\ board' = [board EXCEPT ![p] = Empty]

LoadReads(p) ==
    /\ pc[p] = "load"
    /\ \E a \in left[p] :
          /\ left' = [left EXCEPT ![p] = @ \ {a}]
          /\ board' = [board EXCEPT ![p] = Merge(@, file[a])]
    /\ UNCHANGED <<file, litter, pc, purpose, score, name, mine, verdict, crashes>>

LoadedFor(p, why) == pc[p] = "load" /\ left[p] = {} /\ purpose[p] = why

-----------------------------------------------------------------------------
(* A game ends: tick_game loads the board and asks for a name or not *)

GameEnds(p) ==
    /\ pc[p] = "playing"
    /\ \E s \in Scores : score' = [score EXCEPT ![p] = s]
    /\ Loads(p, "death")
    /\ UNCHANGED <<file, litter, name, mine, verdict, crashes>>

NameAsked(p) ==
    /\ LoadedFor(p, "death")
    /\ pc' = [pc EXCEPT ![p] = IF Qualifies(board[p], score[p]) THEN "asked"
                                                                ELSE "told"]
    /\ UNCHANGED <<file, litter, purpose, left, board, score, name, mine,
                   verdict, crashes>>

\* Enter in the box: submit_dino_name, which records and loads again to show.
NameSubmitted(p) ==
    /\ pc[p] = "asked"
    /\ \E n \in Names : name' = [name EXCEPT ![p] = n]
    /\ Loads(p, "record")
    /\ UNCHANGED <<file, litter, score, mine, verdict, crashes>>

NameSkipped(p) ==
    /\ pc[p] = "asked"
    /\ pc' = [pc EXCEPT ![p] = "told"]
    /\ UNCHANGED <<file, litter, purpose, left, board, score, name, mine,
                   verdict, crashes>>

\* The game that ended, its board and its message go away.
Forgets(p) ==
    /\ purpose' = [purpose EXCEPT ![p] = "death"]
    /\ left' = [left EXCEPT ![p] = {}]
    /\ board' = [board EXCEPT ![p] = Empty]
    /\ score' = [score EXCEPT ![p] = 0]
    /\ name' = [name EXCEPT ![p] = NoMatter]
    /\ mine' = [mine EXCEPT ![p] = Empty]
    /\ verdict' = [verdict EXCEPT ![p] = "none"]

NextGame(p) ==
    /\ pc[p] = "told"
    /\ pc' = [pc EXCEPT ![p] = "playing"]
    /\ Forgets(p)
    /\ UNCHANGED <<file, litter, crashes>>

-----------------------------------------------------------------------------
(* Store::record *)

Says(p, v) == verdict' = [verdict EXCEPT ![p] = v]

\* A name that is on the board with as much or more is left as it is.
RecordCompared(p) ==
    /\ LoadedFor(p, "record")
    /\ \/ /\ board[p][name[p]] >= score[p]
          /\ Says(p, "notHigher")
          /\ Loads(p, "show")
       \/ /\ board[p][name[p]] < score[p]
          /\ pc' = [pc EXCEPT ![p] = "own"]
          /\ UNCHANGED <<purpose, left, board, verdict>>
    /\ UNCHANGED <<file, litter, score, name, mine, crashes>>

\* own_entries, with the new record in the place of the name's old one.
OwnRead(p) ==
    /\ pc[p] = "own"
    /\ \E g \in Kept([file[Owner[p]] EXCEPT ![name[p]] = score[p]]) :
          mine' = [mine EXCEPT ![p] = g]
    /\ pc' = [pc EXCEPT ![p] = "create"]
    /\ UNCHANGED <<file, litter, purpose, left, board, score, name, verdict,
                   crashes>>

WriteFails(p) ==
    /\ Says(p, "failed")
    /\ Loads(p, "show")
    /\ mine' = [mine EXCEPT ![p] = Empty]
    /\ UNCHANGED <<file, litter, score, name, crashes>>

\* Slip: write_file waits until a name for a temporary file is free.
TmpCreatedOrWaits(p) ==
    /\ pc[p] = "create"
    /\ litter[p] < Slots
    /\ pc' = [pc EXCEPT ![p] = "rename"]
    /\ UNCHANGED <<file, litter, purpose, left, board, score, name, mine,
                   verdict, crashes>>

\* write_file: a temporary file of its own, if a name for one is free.
TmpCreated(p) ==
    /\ pc[p] = "create"
    /\ \/ /\ litter[p] < Slots
          /\ pc' = [pc EXCEPT ![p] = "rename"]
          /\ UNCHANGED <<file, litter, purpose, left, board, score, name, mine,
                         verdict, crashes>>
       \/ WriteFails(p)

\* Slip: the score file itself is emptied first, then filled.
TmpRenamedInPlace(p) ==
    /\ pc[p] = "rename"
    /\ \/ /\ file[Owner[p]] # Empty
          /\ file' = [file EXCEPT ![Owner[p]] = Empty]
          /\ UNCHANGED <<pc, purpose, left, board, mine>>
       \/ /\ file' = [file EXCEPT ![Owner[p]] = mine[p]]
          /\ mine' = [mine EXCEPT ![p] = Empty]
          /\ Loads(p, "rank")
    /\ UNCHANGED <<litter, score, name, verdict, crashes>>

\* Slip: the result of the rename is not looked at.
TmpRenamedUnchecked(p) ==
    /\ pc[p] = "rename"
    /\ file' \in {file, [file EXCEPT ![Owner[p]] = mine[p]]}
    /\ mine' = [mine EXCEPT ![p] = Empty]
    /\ Loads(p, "rank")
    /\ UNCHANGED <<litter, score, name, verdict, crashes>>

\* The temporary file, complete, replaces the score file in one step; if it
\* cannot be completed it is removed.
TmpRenamed(p) ==
    /\ pc[p] = "rename"
    /\ \/ /\ file' = [file EXCEPT ![Owner[p]] = mine[p]]
          /\ mine' = [mine EXCEPT ![p] = Empty]
          /\ Loads(p, "rank")
          /\ UNCHANGED <<litter, score, name, verdict, crashes>>
       \/ WriteFails(p)

RankTold(p) ==
    /\ LoadedFor(p, "rank")
    /\ Says(p, IF board[p][name[p]] > 0 THEN "recorded" ELSE "unranked")
    /\ Loads(p, "show")
    /\ UNCHANGED <<file, litter, score, name, mine, crashes>>

BoardShown(p) ==
    /\ LoadedFor(p, "show")
    /\ pc' = [pc EXCEPT ![p] = "told"]
    /\ UNCHANGED <<file, litter, purpose, left, board, score, name, mine,
                   verdict, crashes>>

-----------------------------------------------------------------------------
(* A process is killed; another one starts later, under the same number *)

Crash(p) ==
    /\ pc[p] # "gone"
    /\ crashes < MaxCrashes
    /\ crashes' = crashes + 1
    /\ pc' = [pc EXCEPT ![p] = "gone"]
    /\ litter' = IF pc[p] = "rename" THEN [litter EXCEPT ![p] = @ + 1] ELSE litter
    /\ Forgets(p)
    /\ UNCHANGED file

Restart(p) ==
    /\ pc[p] = "gone"
    /\ pc' = [pc EXCEPT ![p] = "playing"]
    /\ UNCHANGED <<file, litter, purpose, left, board, score, name, mine, verdict,
                   crashes>>

\* What a process does by itself, in the calls of tick_game and of
\* submit_dino_name.
Recording(p) ==
    \/ LoadReads(p)
    \/ NameAsked(p)
    \/ RecordCompared(p)
    \/ OwnRead(p)
    \/ TmpCreated(p)
    \/ TmpRenamed(p)
    \/ RankTold(p)
    \/ BoardShown(p)

Playing(p) ==
    \/ GameEnds(p)
    \/ NameSubmitted(p)
    \/ NameSkipped(p)
    \/ NextGame(p)

Next ==
    \E p \in Procs : Recording(p) \/ Playing(p) \/ Crash(p) \/ Restart(p)

Spec == Init /\ [][Next]_vars

\* A submission is one call on the UI thread: it runs to its end.
FairSpec == Spec /\ \A p \in Procs : WF_vars(Recording(p))

-----------------------------------------------------------------------------
(* What must hold *)

\* The board has the name with that score, or a higher one.
Holds(n, s) == \E a \in Accounts : file[a][n] >= s

\* How many of the ranks are held by a score of s or more.
Ranks(s) ==
    LET held == Cardinality({n \in Names : Holds(n, s)})
    IN  IF held > Top THEN Top ELSE held

\* Whoever plays, is killed or fails to write: no rank of the board is ever
\* held by a lower score than before, cutting the file to Keep names included.
RanksNeverDrop == [][\A s \in Scores : Ranks(s)' >= Ranks(s)]_vars

\* The rule of scoreboard.rs for a name that is recorded twice: the higher
\* score counts, so the best score of a name never goes down (with room for
\* every name in the file).
HigherScoreStays ==
    [][Keep >= Cardinality(Names) =>
        \A n \in Names, s \in Scores : Holds(n, s) => Holds(n, s)']_vars

\* "Recorded" is true when it is said and stays true: the account's file holds
\* the name with that score, or Keep names with as much. A record that was
\* written is on the board that is loaded next to rank it, whatever others have
\* written in between: no one is told of rank usize::MAX.
RecordedStays ==
    \A p \in Procs :
        /\ verdict[p] # "unranked"
        /\ verdict[p] = "recorded" =>
            LET own == file[Owner[p]]
            IN  \/ own[name[p]] >= score[p]
                \/ Cardinality(AtLeast(own, score[p])) >= Keep

\* A submitted name gets its answer, unless the process is killed.
SubmissionEnds ==
    \A p \in Procs :
        pc[p] = "load" /\ purpose[p] = "record" ~> pc[p] \in {"told", "gone"}
=============================================================================
