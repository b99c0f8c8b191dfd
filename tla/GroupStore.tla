----------------------------- MODULE GroupStore -----------------------------
(***************************************************************************)
(* The profiles of one group: their rows, the group's list in memory and   *)
(* in the database (ProfilesRepo.cpp, GroupsRepo.cpp, Group.cpp), the      *)
(* subscription updates that rewrite them (GroupUpdater.cpp) and the user  *)
(* who adds, deletes and runs profiles meanwhile.                          *)
(*                                                                         *)
(* The rows and the list are two records of the same thing, written one    *)
(* after the other: a profile is listed after its row was inserted, and    *)
(* taken off the list before its row is deleted.  A statement is atomic    *)
(* and durable; between any two the process may end.  Profiles whose row   *)
(* is gone are not found, although an object of theirs may be alive.       *)
(***************************************************************************)
EXTENDS Naturals, Sequences, SequencesExt, FiniteSets

CONSTANTS Updaters,    \* threads of AsyncUpdate for this group
          Keys,        \* what ProfileFilter compares: the exported profile
          Remotes,     \* what subscriptions deliver: sequences of keys
          None,
          MaxId, MaxUpdates, MaxUi, MaxCrash    \* bounds

Ids == 1 .. MaxId
NoId == 0    \* the id (-1 in the code) of a profile that was never added

ASSUME GroupAssumption ==
    /\ {MaxId, MaxUpdates, MaxUi, MaxCrash} \subseteq Nat
    /\ Remotes \subseteq Seq(Keys) /\ None \notin Keys \cup Nat

VARIABLES
  lastId,    \* entity_ids.profile_last_id
  key,       \* the content of each profile
  rows,      \* ids in table profiles, all with this gid
  group,     \* the group has its row in table groups
  stored,    \* its profiles_json
  list,      \* Group::profiles, one object for all who hold the group
  started,   \* settingsRepo->started_id
  clear, allow,    \* settings sub_clear and allow_stopping_active_profile
  upd,       \* the updates
  ui,        \* the UI thread, inside AddProfile or BatchDeleteProfiles
  saving,    \* what a thread of SaveBatch is to write, {} without one
  odd,       \* history: what came to pass that the code is not made for
  updates, uses, crashes    \* history: counters for the bounds

store == <<key, rows, group, stored, list>>
settings == <<clear, allow>>
bounds == <<updates, uses, crashes>>
vars == <<lastId, store, started, settings, upd, ui, saving, odd, bounds>>

IdleUpdate == [pc |-> "idle", old |-> << >>, new |-> << >>, all |-> {}, del |-> {}]
IdleUi == [pc |-> "idle", id |-> NoId]

Oddities == {"twice",      \* two updates of the group overlapped
             "gone",       \* the group was deleted during an update
             "added", "deleted",    \* the user did that during an update
             "kept",       \* a profile to delete was left because it runs
             "same",       \* a subscription lists one profile twice
             "revived",    \* SaveBatch inserted the row of a deleted profile
             "ended"}      \* the process ended between two steps

TypeOK ==
    /\ lastId \in 0 .. MaxId /\ key \in [Ids -> Keys \cup {None}]
    /\ rows \subseteq Ids /\ group \in BOOLEAN
    /\ {stored, list} \subseteq Seq(Ids \cup {NoId})
    /\ started \in Ids \cup {None} /\ clear \in BOOLEAN /\ allow \in BOOLEAN
    /\ \A u \in Updaters :
          /\ upd[u].pc \in {"idle", "fetch", "read", "parse", "insert", "append", "look",
                            "apply", "clean", "delete"}
          /\ {upd[u].old, upd[u].new} \subseteq Seq(Ids \cup {NoId})
          /\ upd[u].all \subseteq Ids /\ upd[u].del \subseteq Ids
    /\ ui.pc \in {"idle", "append", "delete"} /\ ui.id \in Ids \cup {NoId}
    /\ saving \subseteq Ids
    /\ odd \subseteq Oddities
    /\ updates \in 0 .. MaxUpdates /\ uses \in 0 .. MaxUi /\ crashes \in 0 .. MaxCrash

Init ==
    /\ lastId = 0 /\ key = [i \in Ids |-> None] /\ rows = {}
    /\ group = TRUE /\ stored = << >> /\ list = << >> /\ started = None
    /\ clear \in BOOLEAN /\ allow \in BOOLEAN
    /\ upd = [u \in Updaters |-> IdleUpdate] /\ ui = IdleUi /\ saving = {}
    /\ odd = {} /\ updates = 0 /\ uses = 0 /\ crashes = 0
-----------------------------------------------------------------------------
Updating == \E u \in Updaters : upd[u].pc # "idle"

(* ProfilesRepo::mutex is held by AddProfile and AddProfileBatch from the  *)
(* insertion of the rows to the end.                                       *)
RepoIsFree == ui.pc # "append" /\ \A u \in Updaters : upd[u].pc # "append"

(* What is left of seq, in order: place m is the m-th of those kept.       *)
Without(seq, ids) ==
    LET keep == {n \in DOMAIN seq : seq[n] \notin ids}
        Place(m) == CHOOSE n \in keep : Cardinality(keep \cap 1 .. n) = m
    IN  [m \in 1 .. Cardinality(keep) |-> seq[Place(m)]]

(* GetProfileBatch.  Rows are inserted for an existing group only, or they *)
(* violate the foreign key; the error is logged.                           *)
Found(ids) == ids \cap rows
Inserted(ids) == IF group THEN rows \cup ids ELSE rows

(* GroupsRepo::Save writes the whole object; it inserts a missing row.     *)
SaveToDatabase(profiles) == stored' = profiles /\ group' = TRUE
Save(profiles) == list' = profiles /\ SaveToDatabase(profiles) /\ UNCHANGED <<key, rows>>

(* NewProfileID, NewProfileIDRange: one UPDATE ... RETURNING.              *)
Reserve(n) == lastId' = lastId + n

(* BatchDeleteProfiles up to its lock, for ids that are no reference to    *)
(* the list: the running profile is stopped or left out, the rest is taken *)
(* off the list.                                                           *)
Spared(ids, stop) == IF stop THEN {} ELSE ids \cap {started}
StopRunning(ids, stop) == started' = IF stop /\ started \in ids THEN None ELSE started

Unlist(ids) ==
    IF Found(ids) # {} THEN Save(Without(list, ids)) ELSE UNCHANGED store

(* GroupUpdater::Update.  Without the group, or with an archived one, an   *)
(* update changes nothing.                                                 *)
Goto(u, pc) == upd' = [upd EXCEPT ![u].pc = pc]

BeginUpdate(u) ==
    /\ upd[u].pc = "idle" /\ updates < MaxUpdates /\ group
    /\ updates' = updates + 1
    /\ Goto(u, "fetch")
    /\ odd' = odd \cup (IF Updating THEN {"twice"} ELSE {})
                  \cup (IF ui.pc = "append" THEN {"added"} ELSE {})
                  \cup (IF ui.pc = "delete" THEN {"deleted"} ELSE {})
    /\ UNCHANGED <<lastId, store, started, settings, ui, saving, uses, crashes>>

FetchFails(u) ==
    /\ upd[u].pc = "fetch" /\ Goto(u, "idle")
    /\ UNCHANGED <<lastId, store, started, settings, ui, saving, odd, bounds>>

(* sub_last_update and info are stamped and the group is saved.            *)
Fetched(u) ==
    /\ upd[u].pc = "fetch" /\ Goto(u, "read")
    /\ Save(list)
    /\ UNCHANGED <<lastId, started, settings, ui, saving, odd, bounds>>

ReadOld(u) ==
    /\ upd[u].pc = "read" /\ ~clear /\ RepoIsFree
    /\ upd' = [upd EXCEPT ![u].pc = "parse", ![u].old = Without(list, ToSet(list) \ Found(ToSet(list)))]
    /\ UNCHANGED <<lastId, store, started, settings, ui, saving, odd, bounds>>

(* BatchDeleteProfiles(group->profiles): ids IS the list of the group.     *)
(* What RemoveProfileBatch takes off the list is no longer in ids when the *)
(* rows are to be deleted, so none is.                                     *)
ClearOld(u) ==
    LET kept == Spared(ToSet(list), allow)
        ids == Without(list, kept)
    IN  /\ upd[u].pc = "read" /\ clear /\ RepoIsFree
        /\ Goto(u, "parse")
        /\ StopRunning(ToSet(list), allow)
        /\ IF Found(ToSet(ids)) # {}
           THEN Save(<< >>)
           ELSE list' = ids /\ UNCHANGED <<key, rows, group, stored>>
        /\ odd' = IF kept # {} THEN odd \cup {"kept"} ELSE odd
        /\ UNCHANGED <<lastId, settings, ui, saving, bounds>>

(* rawUpdater->update, then AddProfileBatch up to its lock: it does        *)
(* nothing when there is no such group or no profile to add.               *)
Parse(u, remote) ==
    LET n == Len(remote)
        new == [i \in 1 .. n |-> IF group THEN lastId + i ELSE NoId]
    IN  /\ upd[u].pc = "parse"
        /\ group => lastId + n <= MaxId
        /\ Reserve(IF group THEN n ELSE 0)
        /\ key' = [i \in Ids |-> IF group /\ i \in ToSet(new) THEN remote[i - lastId] ELSE key[i]]
        /\ upd' = [upd EXCEPT ![u].pc = IF group /\ n > 0 THEN "insert" ELSE "look", ![u].new = new]
        /\ odd' = IF IsInjective(remote) THEN odd ELSE odd \cup {"same"}
        /\ UNCHANGED <<rows, group, stored, list, started, settings, ui, saving, bounds>>

(* Slip: the list is saved before the rows are there. *)
AppendFirst(u) ==
    /\ upd[u].pc = "insert" /\ RepoIsFree /\ Goto(u, "append")
    /\ Save(list \o upd[u].new)
    /\ UNCHANGED <<lastId, started, settings, ui, saving, odd, bounds>>

InsertRows(u) ==
    /\ upd[u].pc = "insert" /\ RepoIsFree /\ Goto(u, "append")
    /\ rows' = Inserted(ToSet(upd[u].new))
    /\ UNCHANGED <<lastId, key, group, stored, list, started, settings, ui, saving, odd, bounds>>

AppendNew(u) ==
    /\ upd[u].pc = "append" /\ Goto(u, "look")
    /\ Save(list \o upd[u].new)
    /\ UNCHANGED <<lastId, started, settings, ui, saving, odd, bounds>>

(* out_all is read.  After a clear the update is done.                     *)
Look(u) ==
    /\ upd[u].pc = "look" /\ RepoIsFree
    /\ upd' = [upd EXCEPT ![u] = IF clear THEN IdleUpdate
                                 ELSE [@ EXCEPT !.pc = "apply", !.all = Found(ToSet(list))]]
    /\ UNCHANGED <<lastId, store, started, settings, ui, saving, odd, bounds>>

(* ProfileFilter::Common: a new profile that equals an old one is replaced *)
(* by it, by the last one if there are several.                            *)
KeyOf(i) == IF i = NoId THEN None ELSE key[i]

KeptNew(u, i) == i    \* slip: the new one is taken

Kept(u, i) ==
    LET same == {n \in DOMAIN upd[u].old : KeyOf(upd[u].old[n]) = KeyOf(i)}
    IN  IF i \in upd[u].all /\ i \notin ToSet(upd[u].old) /\ same # {} THEN upd[u].old[Max(same)] ELSE i

RemoteOrder(u) == [n \in DOMAIN upd[u].new |-> Kept(u, upd[u].new[n])]

(* The list is rewritten in the order of the subscription and saved.       *)
Apply(u) ==
    /\ upd[u].pc = "apply" /\ Goto(u, "clean")
    /\ Save(RemoteOrder(u))
    /\ UNCHANGED <<lastId, started, settings, ui, saving, odd, bounds>>

(* What was listed and is not any more is deleted.                         *)
Clean(u) ==
    LET out == upd[u].all \ ToSet(list)
        ids == out \ Spared(out, allow)
    IN  /\ upd[u].pc = "clean" /\ RepoIsFree
        /\ upd' = [upd EXCEPT ![u].pc = "delete", ![u].del = ids]
        /\ StopRunning(out, allow)
        /\ Unlist(ids)
        /\ odd' = IF ids # out THEN odd \cup {"kept"} ELSE odd
        /\ UNCHANGED <<lastId, settings, ui, saving, bounds>>

DeleteRows(u) ==
    /\ upd[u].pc = "delete" /\ RepoIsFree
    /\ upd' = [upd EXCEPT ![u] = IdleUpdate]
    /\ rows' = rows \ upd[u].del
    /\ UNCHANGED <<lastId, key, group, stored, list, started, settings, ui, saving, odd, bounds>>
-----------------------------------------------------------------------------
(* The user; the dialogs work on the UI thread.                            *)
Use == ui.pc = "idle" /\ uses < MaxUi /\ uses' = uses + 1 /\ UNCHANGED <<updates, crashes>>

(* AddProfile: the row is inserted, then the list saved.                   *)
AddProfile(k) ==
    /\ Use /\ group /\ RepoIsFree /\ lastId < MaxId
    /\ Reserve(1)
    /\ key' = [key EXCEPT ![lastId + 1] = k]
    /\ rows' = Inserted({lastId + 1})
    /\ ui' = [pc |-> "append", id |-> lastId + 1]
    /\ odd' = odd \cup (IF Updating THEN {"added"} ELSE {})
    /\ UNCHANGED <<group, stored, list, started, settings, upd, saving>>

AppendAdded ==
    /\ ui.pc = "append" /\ ui' = IdleUi
    /\ Save(Append(list, ui.id))
    /\ UNCHANGED <<lastId, started, settings, upd, saving, odd, bounds>>

(* BatchDeleteProfiles of the profile selected, stopping it if it runs.    *)
DeleteProfile(i) ==
    /\ Use /\ group /\ RepoIsFree
    /\ StopRunning({i}, TRUE)
    /\ Unlist({i})
    /\ ui' = [pc |-> "delete", id |-> i]
    /\ odd' = odd \cup (IF Updating THEN {"deleted"} ELSE {})
    /\ UNCHANGED <<lastId, settings, upd, saving>>

DeleteRow ==
    /\ ui.pc = "delete" /\ RepoIsFree
    /\ ui' = IdleUi
    /\ rows' = rows \ {ui.id}
    /\ UNCHANGED <<lastId, key, group, stored, list, started, settings, upd, saving, odd, bounds>>

(* DeleteGroup; the rows of the profiles go by the cascade.                *)
DeleteGroup ==
    /\ Use /\ group
    /\ started' = None /\ group' = FALSE /\ rows' = {} /\ stored' = << >>
    /\ odd' = odd \cup (IF Updating THEN {"gone"} ELSE {})
    /\ UNCHANGED <<lastId, key, list, settings, upd, ui, saving>>

StartProfile(i) ==
    /\ Use /\ group /\ i \in rows
    /\ started' = i
    /\ UNCHANGED <<lastId, store, settings, upd, ui, saving, odd>>

(* SaveBatch: the objects found now are written by a thread that comes     *)
(* later, also those whose row was deleted meanwhile.  One such thread at  *)
(* a time is the bound; the results cleared are those of the whole group.  *)
ClearTestResults ==
    LET ids == Found(ToSet(list))
    IN  /\ Use /\ group /\ RepoIsFree /\ saving = {} /\ ids # {}
        /\ saving' = ids
        /\ UNCHANGED <<lastId, store, started, settings, upd, ui, odd>>

SaveRows ==
    /\ saving # {} /\ RepoIsFree /\ saving' = {}
    /\ rows' = Inserted(saving)
    /\ odd' = IF rows' # rows THEN odd \cup {"revived"} ELSE odd
    /\ UNCHANGED <<lastId, key, group, stored, list, started, settings, upd, ui, bounds>>

(* The process ends and the program starts again.                          *)
ProcessEnds ==
    /\ crashes < MaxCrash /\ crashes' = crashes + 1
    /\ list' = stored /\ started' = None
    /\ upd' = [u \in Updaters |-> IdleUpdate] /\ ui' = IdleUi /\ saving' = {}
    /\ odd' = IF Updating \/ ui # IdleUi THEN odd \cup {"ended"} ELSE odd
    /\ UNCHANGED <<lastId, key, rows, group, stored, settings, updates, uses>>

Update(u) ==
    \/ BeginUpdate(u) \/ FetchFails(u) \/ Fetched(u) \/ ReadOld(u) \/ ClearOld(u)
    \/ \E remote \in Remotes : Parse(u, remote)
    \/ InsertRows(u) \/ AppendNew(u) \/ Look(u) \/ Apply(u) \/ Clean(u) \/ DeleteRows(u)

User ==
    \/ \E k \in Keys : AddProfile(k)
    \/ \E i \in ToSet(list) \ {NoId} : DeleteProfile(i) \/ StartProfile(i)
    \/ AppendAdded \/ DeleteRow \/ DeleteGroup \/ ClearTestResults

Next == (\E u \in Updaters : Update(u)) \/ User \/ SaveRows \/ ProcessEnds

Spec == Init /\ [][Next]_vars
-----------------------------------------------------------------------------
Never(oddities) == odd \cap oddities = {}
Quiet == ~Updating /\ ui = IdleUi

(* What the database lists has its row, also when the process ended        *)
(* between any two statements: a profile is listed after its row is        *)
(* inserted and unlisted before it is deleted.                             *)
ListedHasRow == Never({"twice", "gone", "deleted"}) => ToSet(stored) \subseteq rows

(* Nothing is left behind: when nobody is at work, every row is listed,    *)
(* unless one of what Never names came between.                            *)
NoStray ==
    (Quiet /\ ~clear /\ Never({"twice", "added", "kept", "revived", "ended"})) =>
        rows \subseteq ToSet(list)

(* What the user sees is what he will see after a restart, whoever worked  *)
(* on the group at the same time.                                          *)
MemoryIsStored == (Quiet /\ group /\ (clear => Never({"kept"}))) => list = stored

(* The profile that runs is not deleted under it, by the user or by an     *)
(* update.                                                                 *)
RunningHasRow == (started # None /\ Never({"twice"})) => started \in rows

(* No profile is listed twice, which Group::AddProfile refuses as well;    *)
(* a subscription that has the same profile twice brings it about.         *)
ListedOnce == Never({"same", "gone"}) => IsInjective(list)

(* Rows, list and stored list agree: between any two statements whose      *)
(* order matters, and entirely when nobody is at work, with the exceptions *)
(* each part names.                                                        *)
ListsAndRowsAgree ==
    TypeOK /\ ListedHasRow /\ NoStray /\ MemoryIsStored /\ RunningHasRow /\ ListedOnce

(* An update makes the list what the subscription says, and what the group *)
(* had already keeps its id, and with it its traffic and test results.     *)
MirrorsRemote ==
    \A u \in Updaters :
        (upd[u].pc \in {"clean", "delete"} /\ Never({"twice", "gone", "added", "deleted"})) =>
            /\ [n \in DOMAIN list |-> KeyOf(list[n])]
                 = [n \in DOMAIN upd[u].new |-> KeyOf(upd[u].new[n])]
            /\ \A i \in ToSet(upd[u].old) :
                  key[i] \in {KeyOf(j) : j \in ToSet(upd[u].new)} =>
                      \E j \in ToSet(upd[u].old) \cap ToSet(list) : key[j] = key[i]
=============================================================================
