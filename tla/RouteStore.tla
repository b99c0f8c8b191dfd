------------------------------ MODULE RouteStore ------------------------------
(* The routing profiles of the program: their rows, the objects that stand for *)
(* them in memory (RoutesRepo's map of weak pointers), the dialog that edits a *)
(* list of them, deep links that add some, and the threads that fetch remote   *)
(* profiles (RoutesRepo.cpp, dialog_manage_routes.cpp, RouteItem.cpp,          *)
(* RouteUpdater.cpp, mainwindow.cpp).                                          *)
(*                                                                             *)
(* An object exists as long as the dialog or a thread holds it; the map        *)
(* forgets it when it dies, so identity holds live objects only.               *)
EXTENDS RouteRules

CONSTANTS
  None,      \* no dialog, no editor
  Device,    \* the proxy profiles a rule may name: [id, name]
  Urls,      \* where remote profiles are
  Served,    \* what each URL may answer
  Links,     \* documents the user may import
  Lines,     \* what the user may write in a box of the editor
  RemoteLinks, \* links that add a remote profile: [name, url, auto]
  Stores,    \* the rows at the first start, with the steps left to the user
  MaxId      \* bound: ids of routing profiles

\* The stores are written by the program, which names what it fetches: only from a
\* URL without a host, where nothing is served, a profile gets no name.
Named(p) == p.remote /\ p.name = "" => Served[p.url] = {}
IsStore(store) ==
  /\ store.rows # << >> /\ store.rows \in Seq(ToSet(store.rows)) /\ Len(store.rows) <= MaxId
  /\ \A id \in DOMAIN store.rows :
       IsProfile(store.rows[id]) /\ store.rows[id].id = id /\ Named(store.rows[id])
ASSUME RouteAssumption ==
  /\ MaxId \in Nat
  /\ \A store \in Stores : IsStore(store)
  /\ \A url \in Urls : \A doc \in Served[url] : IsDocument(doc)
  /\ \A doc \in Links : IsDocument(doc)
  /\ \A link \in RemoteLinks : link.name = "" => Served[link.url] = {}
  /\ Lines \subseteq Words
  /\ Device \in Seq(ToSet(Device))
  /\ \A i, j \in DOMAIN Device : Device[i].id = Device[j].id => i = j
  /\ \A i \in DOMAIN Device : Device[i].id # "invalid"

Jobs == {"auto", "dialog", "link"}
Idle == [list |-> << >>, at |-> 0, url |-> "", pc |-> "idle"]
Busy(list) == [list |-> list, at |-> 0, url |-> "", pc |-> "next"]

VARIABLES
  rows,      \* route_profiles with their route_rules
  lastId,    \* entity_ids.route_profile_last_id
  heap,      \* the live objects
  identity,  \* identityMap
  current,   \* current_route_id
  dialog,    \* DialogManageRoutes: chainList and currentRoute, and the ids it saw
  editor,    \* RouteItem: the profile it works on and its place in the list
  job,       \* threads: automatic update, update of the dialog, remote link
  budget,    \* bound: changes left to the user
  kept,      \* history: what the user last said of each profile
  raced      \* history: ids a thread or the dialog held a stale view of
vars == <<rows, lastId, heap, identity, current, dialog, editor, job, budget, kept, raced>>

Settings(p) == [name |-> p.name, url |-> p.url, auto |-> p.auto]
Said(p) == [name |-> p.name, url |-> p.url, auto |-> p.auto, rules |-> IF p.remote THEN << >> ELSE p.rules]

Init ==
  \E store \in Stores :
    /\ rows = [i \in DOMAIN store.rows |-> saveToDatabase(store.rows[i])]
    /\ lastId = Len(store.rows)
    /\ budget = store.budget
    /\ kept = [i \in DOMAIN store.rows |-> Said(store.rows[i])]
    /\ heap = << >> /\ identity = << >> /\ raced = {}
    /\ current = 1 /\ dialog = None /\ editor = None
    /\ job = [j \in Jobs |-> Idle]

(***************************************************************************)
(* Objects                                                                 *)
(***************************************************************************)
Held(d, jobs) ==
  (IF d = None THEN {} ELSE ToSet(d.list) \cup {d.current}) \cup UNION {ToSet(jobs[j].list) : j \in Jobs}

\* The objects and the map after a step: what nobody holds is gone.
Keep(objects, map, d, jobs) ==
  LET held == Held(d, jobs)
  IN  /\ heap' = [o \in DOMAIN objects \cap held |-> objects[o]]
      /\ identity' = [id \in {i \in DOMAIN map : map[i] \in held} |-> map[id]]
      /\ dialog' = d /\ job' = jobs

\* The lowest n numbers no object bears.
Free(n) == InOrder((1..(Cardinality(DOMAIN heap) + n)) \ DOMAIN heap)
Fresh == Free(1)[1]

\* GetAllRouteProfiles: the live object of each row, or a new one.
Loaded ==
  LET unknown == DOMAIN rows \ DOMAIN identity
      free == Free(Cardinality(unknown))
      new == [id \in unknown |-> free[Cardinality({i \in unknown : i <= id})]]
      object == [id \in DOMAIN rows |-> IF id \in unknown THEN new[id] ELSE identity[id]]
      rowOf(o) == rows[CHOOSE id \in unknown : new[id] = o]
      ids == InOrder(DOMAIN rows)
  IN  [list |-> [i \in 1..Cardinality(DOMAIN rows) |-> object[ids[i]]], map |-> object,
       objects |-> [o \in DOMAIN heap \cup {new[id] : id \in unknown} |->
                      IF o \in DOMAIN heap THEN heap[o] ELSE loadFromDatabase(rowOf(o))]]

(***************************************************************************)
(* The repository                                                          *)
(***************************************************************************)
AddRouteProfile(p) ==
  /\ lastId < MaxId
  /\ lastId' = lastId + 1
  /\ rows' = Put(rows, lastId + 1, saveToDatabase([p EXCEPT !.id = lastId + 1]))
  /\ kept' = Put(kept, lastId + 1, Said(p))

\* UpdateRouteProfiles: new ids first, then rows that are not in the list go.
New(list) == {i \in DOMAIN list : heap[list[i]].id < 0}
Numbered(list) ==
  [o \in DOMAIN heap |->
     LET i == CHOOSE k \in DOMAIN list : list[k] = o
     IN  IF o \in ToSet(list) /\ heap[o].id < 0
         THEN [heap[o] EXCEPT !.id = lastId + Cardinality({k \in New(list) : k <= i})] ELSE heap[o]]
IdsOf(list, objects) == {objects[o].id : o \in ToSet(list)}
ObjectOf(id, list, objects) == CHOOSE o \in ToSet(list) : objects[o].id = id
(* Slip: an entry that is there stays.                                         *)
IdentityBefore(list, objects) ==
  LET deleted == DOMAIN rows \ IdsOf(list, objects)
  IN  [id \in (IdsOf(list, objects) \cup DOMAIN identity) \ deleted |->
         IF id \in DOMAIN identity THEN identity[id] ELSE ObjectOf(id, list, objects)]
IdentityAfter(list, objects) ==
  LET deleted == DOMAIN rows \ IdsOf(list, objects)
  IN  [id \in (IdsOf(list, objects) \cup DOMAIN identity) \ deleted |->
         IF id \in IdsOf(list, objects) THEN ObjectOf(id, list, objects) ELSE identity[id]]

(***************************************************************************)
(* The dialog                                                              *)
(***************************************************************************)
Spend == budget > 0 /\ budget' = budget - 1
AtList == dialog # None /\ editor = None
Unspent == UNCHANGED <<budget, kept, raced>>
Stored == UNCHANGED <<rows, lastId, current>>

OpenDialog ==
  /\ dialog = None
  /\ LET list == Loaded.list
         shown == IF current \in DOMAIN rows THEN Loaded.map[current] ELSE list[1]
     IN  Keep(Loaded.objects, Loaded.map, [list |-> list, current |-> shown, saw |-> DOMAIN rows], job)
  /\ Stored /\ Unspent /\ UNCHANGED editor

\* The list with a profile that no row stands for yet.
Appended(p, becomesCurrent) ==
  /\ Len(dialog.list) < MaxId
  /\ Keep(Put(heap, Fresh, p), identity,
          [dialog EXCEPT !.list = Append(@, Fresh), !.current = IF becomesCurrent THEN Fresh ELSE @], job)

Clone(i) ==
  /\ AtList /\ Spend
  /\ Appended([heap[dialog.list[i]] EXCEPT !.id = -1, !.name = "clone"], FALSE)
  /\ Stored /\ UNCHANGED <<editor, kept, raced>>

(* Slip: the current profile is only taken out of the list.                    *)
DeleteOnly(i) ==
  /\ AtList /\ Spend /\ Len(dialog.list) > 1
  /\ Keep(heap, identity, [dialog EXCEPT !.list = RemoveAt(@, i)], job)
  /\ Stored /\ UNCHANGED <<editor, kept, raced>>

DeleteFromList(i) ==
  /\ AtList /\ Spend /\ Len(dialog.list) > 1
  /\ LET list == RemoveAt(dialog.list, i)
     IN  Keep(heap, identity,
              [dialog EXCEPT !.list = list,
                             !.current = IF @ = dialog.list[i] THEN list[1] ELSE @], job)
  /\ Stored /\ UNCHANGED <<editor, kept, raced>>

updateCurrentRouteProfile(i) ==
  /\ AtList
  /\ Keep(heap, identity, [dialog EXCEPT !.current = dialog.list[i]], job)
  /\ Stored /\ Unspent /\ UNCHANGED editor

Cancel ==
  /\ AtList
  /\ Keep(heap, identity, None, job)
  /\ Stored /\ Unspent /\ UNCHANGED editor

\* Profiles of which a thread is yet to save an object the list does not hold.
Pending(j) == {job[j].list[i] : i \in {k \in DOMAIN job[j].list : k >= job[j].at}}
StaleIn(list) == {heap[o].id : o \in (Pending("auto") \cup Pending("link")) \ ToSet(list)}

Accept ==
  /\ AtList
  /\ LET list == dialog.list
         objects == Numbered(list)
         ids == IdsOf(list, objects)
         saved(id) == objects[ObjectOf(id, list, objects)]
         unseen == DOMAIN rows \ (ids \cup dialog.saw)
     IN  /\ lastId' = lastId + Cardinality(New(list)) /\ lastId' <= MaxId
         /\ rows' = [id \in ids |-> saveToDatabase(saved(id))]
         /\ current' = objects[dialog.current].id
         /\ kept' = [id \in ids \cup (unseen \cap DOMAIN kept) |-> IF id \in ids THEN Said(saved(id)) ELSE kept[id]]
         /\ raced' = raced \cup unseen \cup StaleIn(list)
         /\ Keep(objects, IdentityAfter(list, objects), None, job)
  /\ UNCHANGED <<editor, budget>>

(***************************************************************************)
(* The editor of a structured profile                                      *)
(***************************************************************************)
DnsHijack ==
  [NewRule EXCEPT !.name = "dns-hijack", !.action = "hijack-dns", !.f = [protocol |-> "dns"]]
\* Rules without a name of their own get one by chance.
Renamed(rules) ==
  [i \in DOMAIN rules |->
     IF rules[i].name = "" \/ \E k \in 1..i - 1 : rules[k].name = rules[i].name
     THEN [rules[i] EXCEPT !.name = Ordinal("rule_", i)] ELSE rules[i]]

Opened(p) == [p EXCEPT !.rules = Renamed(IF IsEmptyProfile(p) THEN Append(@, DnsHijack) ELSE @)]
Boxes(p) == [target \in Targets |-> GetSimpleRules(p.rules, target)]

Acceptable(p) == p.name # "" /\ (p.remote => p.url # "") /\ (p.remote \/ ~IsEmptyProfile(p))
Accepted(p, boxes) ==
  LET after(rules, target) == UpdateSimpleRules(rules, boxes[target], target)
  IN  [p EXCEPT !.default = stringToOutboundID(outboundIDToString(@)),
                !.rules = FilterEmptyRules(after(after(after(after(@, "Bypass"), "Block"), "Proxy"), "WarpBypass"))]

\* What the user may change: the name, the URL, the automatic update, a line.
Changes(p) ==
  {p} \cup (IF p.remote THEN {[p EXCEPT !.url = u] : u \in Urls} \cup {[p EXCEPT !.auto = ~@]} ELSE {})
BoxesAfter(boxes) ==
  {boxes} \cup {[boxes EXCEPT !["Block"].domain = Append(@, line)] : line \in Lines}

Edit(i) ==
  /\ AtList /\ ~heap[dialog.list[i]].raw
  /\ editor' = [at |-> i, p |-> Opened(heap[dialog.list[i]])]
  /\ Stored /\ Unspent /\ UNCHANGED <<heap, identity, dialog, job>>

NewRoute(remote) ==
  /\ AtList /\ budget > 0
  /\ editor' = [at |-> 0, p |-> Opened([NewProfile EXCEPT !.remote = remote])]
  /\ Stored /\ Unspent /\ UNCHANGED <<heap, identity, dialog, job>>

EditorAccept(p, boxes) ==
  /\ editor # None /\ Acceptable(Accepted(p, boxes))
  /\ LET at == editor.at
     IN  IF at = 0 THEN Appended(Accepted(p, boxes), FALSE)
         ELSE Keep(Put(heap, Fresh, Accepted(p, boxes)), identity,
                   [dialog EXCEPT !.list[at] = Fresh,
                                  !.current = IF @ = dialog.list[at] THEN Fresh ELSE @], job)
  /\ editor' = None
  /\ Stored /\ UNCHANGED <<kept, raced>>

EditorCancel ==
  /\ editor # None /\ editor' = None
  /\ Stored /\ Unspent /\ UNCHANGED <<heap, identity, dialog, job>>

EditorDone ==
  /\ editor # None /\ Spend
  /\ \E p \in Changes(IF editor.at = 0 THEN [editor.p EXCEPT !.name = "named"] ELSE editor.p) :
       \E boxes \in BoxesAfter(Boxes(p)) : EditorAccept(p, boxes)

(***************************************************************************)
(* Imports                                                                 *)
(***************************************************************************)
ImportInDialog(doc) ==
  /\ AtList /\ Spend
  /\ LET p == FromShareInput(Device, doc)
     IN  /\ p # Refused
         /\ IF doc.kind = "array"
            THEN /\ editor' = [at |-> 0, p |-> Opened([NewProfile EXCEPT !.rules = p.rules])]
                 /\ UNCHANGED <<heap, identity, dialog, job>>
            ELSE Appended(p, TRUE) /\ UNCHANGED editor
  /\ Stored /\ UNCHANGED <<kept, raced>>

handle_import_route(doc) ==
  /\ Spend
  /\ LET p == FromShareInput(Device, doc)
     IN  /\ p # Refused
         /\ AddRouteProfile(IF p.name = "" THEN [p EXCEPT !.name = "Imported profile"] ELSE p)
  /\ UNCHANGED <<heap, identity, current, dialog, editor, job, raced>>

DownloadProfile(doc, name, default) ==
  /\ Spend /\ dialog = None /\ doc.kind = "array"
  /\ AddRouteProfile([NewProfile EXCEPT !.name = name, !.default = default, !.rules = parseJsonArray(Device, doc.rules)])
  /\ UNCHANGED <<heap, identity, current, dialog, editor, job, raced>>

FromRemoteRoutesLink(link) ==
  [NewProfile EXCEPT !.remote = TRUE, !.url = link.url, !.auto = link.auto, !.name = link.name]

handle_add_remote_routes(link) ==
  /\ Spend /\ job["link"] = Idle
  /\ LET p == FromRemoteRoutesLink(link)
     IN  /\ AddRouteProfile(p)
         /\ Keep(Put(heap, Fresh, [p EXCEPT !.id = lastId + 1]), Put(identity, lastId + 1, Fresh),
                 dialog, [job EXCEPT !["link"] = Busy(<<Fresh>>)])
  /\ UNCHANGED <<current, editor, raced>>

\* While an update of the dialog runs, the profile is added and not fetched.
tryImportRemoteRoutesLink(link) ==
  /\ AtList /\ Spend /\ Len(dialog.list) < MaxId
  /\ Keep(Put(heap, Fresh, FromRemoteRoutesLink(link)), identity, [dialog EXCEPT !.list = Append(@, Fresh)],
          IF job["dialog"] = Idle THEN [job EXCEPT !["dialog"] = Busy(<<Fresh>>)] ELSE job)
  /\ Stored /\ UNCHANGED <<editor, kept, raced>>

\* The menu of the tray and of the main window.
SelectRoute(id) ==
  /\ Spend /\ id # current /\ current' = id
  /\ UNCHANGED <<rows, lastId, heap, identity, dialog, editor, job, kept, raced>>

(***************************************************************************)
(* Threads                                                                 *)
(***************************************************************************)
IsRemote(o) == heap[o].remote /\ heap[o].url # ""

updateRemoteProfiles(list) ==
  /\ AtList /\ Spend /\ job["dialog"] = Idle /\ list # << >>
  /\ Keep(heap, identity, dialog, [job EXCEPT !["dialog"] = Busy(list)])
  /\ Stored /\ UNCHANGED <<editor, kept, raced>>

on_update_route_clicked ==
  \/ AtList /\ \E o \in ToSet(dialog.list) : heap[o].remote /\ updateRemoteProfiles(<<o>>)
  \/ AtList /\ updateRemoteProfiles(Chosen(dialog.list, {i \in DOMAIN dialog.list : IsRemote(dialog.list[i])}))

UI_update_all_remote_routes ==
  /\ Spend /\ job["auto"] = Idle
  /\ Keep(Loaded.objects, Loaded.map, dialog, [job EXCEPT !["auto"] = Busy(Loaded.list)])
  /\ Stored /\ UNCHANGED <<editor, kept, raced>>

\* The thread goes on with its next profile; at the end it lets all of them go.
Next1(j) == [job EXCEPT ![j] = IF @.at = Len(@.list) THEN Idle ELSE [@ EXCEPT !.pc = "next", !.url = ""]]
Wanted(j, p) == p.remote /\ p.url # "" /\ (j = "auto" => p.auto)
AfterAnswer(j, ok) ==
  IF j = "link" \/ (j = "auto" /\ ok) THEN [job EXCEPT ![j].pc = "save"] ELSE Next1(j)

Ask(j) ==
  /\ job[j].pc = "next" /\ job[j].at < Len(job[j].list)
  /\ LET o == job[j].list[job[j].at + 1]
         taken == [job EXCEPT ![j].at = @ + 1]
     IN  \/ /\ Wanted(j, heap[o])
            /\ Keep(heap, identity, dialog, [taken EXCEPT ![j].pc = "wait", ![j].url = heap[o].url])
         \/ /\ ~Wanted(j, heap[o])
            /\ LET after == IF taken[j].at = Len(job[j].list) THEN Idle ELSE taken[j]
               IN  Keep(heap, identity, dialog,
                        [job EXCEPT ![j] = IF j = "link" THEN [taken[j] EXCEPT !.pc = "save"] ELSE after])
  /\ Stored /\ Unspent /\ UNCHANGED editor

(* Slip: the name of the remote profile is always taken.                       *)
UpdateWholeProfile(p, doc) ==
  LET fetched == FromShareInput(Device, doc)
  IN  [p EXCEPT !.raw = FALSE, !.route = << >>, !.rules = fetched.rules, !.default = fetched.default,
                !.name = fetched.name]
UpdateProfile(p, doc) ==
  LET fetched == FromShareInput(Device, doc)
  IN  [p EXCEPT !.raw = FALSE, !.route = << >>, !.rules = fetched.rules, !.default = fetched.default,
                !.name = IF @ = "" THEN fetched.name ELSE @]
Usable(doc) == FromShareInput(Device, doc) # Refused /\ ~FromShareInput(Device, doc).raw

Answer(j, doc) ==
  /\ job[j].pc = "wait" /\ doc \in Served[job[j].url]
  /\ LET o == job[j].list[job[j].at]
         objects == IF Usable(doc) THEN [heap EXCEPT ![o] = UpdateProfile(@, doc)] ELSE heap
     IN  Keep(objects, identity, dialog, AfterAnswer(j, Usable(doc)))
  /\ Stored /\ Unspent /\ UNCHANGED editor

NoAnswer(j) ==
  /\ job[j].pc = "wait"
  /\ Keep(heap, identity, dialog, AfterAnswer(j, FALSE))
  /\ Stored /\ Unspent /\ UNCHANGED editor

SaveFetched(j) ==
  /\ job[j].pc = "save"
  /\ LET o == job[j].list[job[j].at]
     IN  /\ rows' = Put(rows, heap[o].id, saveToDatabase(heap[o]))
         /\ Keep(heap, Put(identity, heap[o].id, o), dialog, Next1(j))
  /\ Unspent /\ UNCHANGED <<lastId, current, editor>>

\* The user's Cancel, or what the thread reads of a dialog that is gone.
StopUpdate ==
  /\ job["dialog"].pc = "next"
  /\ Keep(heap, identity, dialog, [job EXCEPT !["dialog"] = Idle])
  /\ Stored /\ Unspent /\ UNCHANGED editor

Next ==
  \/ OpenDialog \/ Accept \/ Cancel \/ EditorDone \/ EditorCancel
  \/ \E i \in 1..MaxId : AtList /\ i <= Len(dialog.list)
                           /\ (Clone(i) \/ DeleteFromList(i) \/ updateCurrentRouteProfile(i) \/ Edit(i))
  \/ \E remote \in BOOLEAN : NewRoute(remote)
  \/ \E doc \in Links : \/ ImportInDialog(doc) \/ handle_import_route(doc)
                        \/ DownloadProfile(doc, "bypass", "proxy") \/ DownloadProfile(doc, "foreign", "direct")
  \/ \E link \in RemoteLinks : handle_add_remote_routes(link) \/ tryImportRemoteRoutesLink(link)
  \/ \E id \in DOMAIN rows : SelectRoute(id)
  \/ on_update_route_clicked \/ UI_update_all_remote_routes
  \/ \E j \in Jobs : Ask(j) \/ NoAnswer(j) \/ SaveFetched(j)
  \/ \E j \in Jobs, url \in Urls : \E doc \in Served[url] : Answer(j, doc)
  \/ StopUpdate

Spec == Init /\ [][Next]_vars

(***************************************************************************)
(* Properties                                                              *)
(***************************************************************************)
Structured == {heap[o] : o \in {x \in DOMAIN heap : ~heap[x].raw}}
Nameless(rules) == [i \in DOMAIN rules |-> [rules[i] EXCEPT !.name = ""]]

\* Rows and objects are profiles of well-formed rules; the live objects are those
\* somebody holds, and the map knows no other (RoutesRepo keeps weak pointers).
IsRow(id) ==
  LET p == loadFromDatabase(rows[id]) IN IsProfile(p) /\ p.id = id /\ rows[id] = saveToDatabase(p)
TypeOK ==
  /\ lastId \in 0..MaxId /\ DOMAIN rows \subseteq 1..lastId /\ \A id \in DOMAIN rows : IsRow(id)
  /\ DOMAIN heap \subseteq Nat /\ DOMAIN heap = Held(dialog, job)
  /\ \A o \in DOMAIN heap : IsProfile(heap[o]) /\ heap[o].id \in 1..lastId \cup {-1}
  /\ \A id \in DOMAIN identity : identity[id] \in DOMAIN heap /\ heap[identity[id]].id = id
  /\ dialog # None => dialog \in [list : Seq(Nat), current : Nat, saw : SUBSET Nat]
  /\ editor # None => IsProfile(editor.p) /\ editor.at \in 0..Len(dialog.list)
  /\ DOMAIN job = Jobs
  /\ \A j \in Jobs : job[j] \in [list : Seq(Nat), at : Nat, url : {job[j].url}, pc : {"idle", "next", "wait", "save"}]

\* A profile that is opened in the editor and accepted as it is keeps its rules
\* and their order, though the editor rebuilds the simple ones from lines of
\* text.  Not so: two rules of one simple type, attributes no line shows, a value
\* named twice, an action or outbound other than the type's.
PlainSimple(rules, r) ==
  IsSimple(r) =>
    /\ \A i, j \in DOMAIN rules : rules[i].type = r.type /\ rules[j].type = r.type => i = j
    /\ [CleanRule(r.type) EXCEPT !.f = r.f, !.name = r.name] = r
    /\ DOMAIN r.f \subseteq LinesOf(r.type)
    /\ \A k \in DOMAIN r.f : IsInjective(r.f[k])
EditorKeepsRules ==
  \A p \in Structured :
    (~IsEmptyProfile(p) /\ \A i \in DOMAIN p.rules : PlainSimple(p.rules, p.rules[i])) =>
      Nameless(Accepted(Opened(p), Boxes(Opened(p))).rules) = Nameless(FilterEmptyRules(p.rules))

\* A shared profile that is imported on the device it comes from has the same
\* rules in the same order, or the rule is one of those a share cannot say: with
\* a number (they are written as numbers and read as texts), with the method of a
\* rejection (written reject_method, read method), to the Warp bypass or to a
\* profile that is gone or whose name is not its own.
TellsOutbound(o) ==
  \/ o \in {"proxy", "direct"}
  \/ \E d \in ToSet(Device) : d.id = o /\ getOutboundID(Device, Shown(d)) = o
Portable(r) ==
  /\ r.type = CustomType \/ ~isEmpty(r)
  /\ DOMAIN r.f \subseteq (Always \cup OfAction(r.action)) \ {"ip_version", "port", "source_port", "override_port", "method"}
  /\ IF Routes(r) THEN TellsOutbound(r.outbound) ELSE r.outbound = NewRule.outbound
ShareKeepsRules ==
  \A p \in Structured :
    (\A i \in DOMAIN p.rules : Portable(p.rules[i]) /\ p.rules[i].name # "") =>
      LET q == FromShareInput(Device, ToShareObject(Device, p))
      IN  q.rules = p.rules /\ q.name = p.name /\ q.default = stringToOutboundID(outboundIDToString(p.default))

\* The profile in use has a row, whatever the dialog adds, replaces, deletes and
\* renumbers: otherwise nothing can be started (GetRouteProfile gives nullptr).
CurrentExists == current \in DOMAIN rows

\* The store holds the profiles the user added and did not delete, with the name,
\* the URL, the automatic update and the rules he gave them last, every attribute
\* of each rule: threads save objects they took from the map earlier, and INSERT,
\* SELECT and the reader each number the 34 columns of a rule (saveToDatabase,
\* ruleJsonFromRow).  Only a profile of which a thread or the dialog holds a stale
\* view at an Accept may differ; the rules of a remote one are fetched.
StoreObeysUser ==
  \A id \in (DOMAIN kept \cup DOMAIN rows) \ raced :
    /\ id \in DOMAIN kept /\ id \in DOMAIN rows
    /\ rows[id].url = kept[id].url /\ rows[id].auto = kept[id].auto
    /\ kept[id].name # "" => rows[id].name = kept[id].name
    /\ ~rows[id].remote => loadFromDatabase(rows[id]).rules = kept[id].rules

\* The object the repository hands out for an id agrees with its row on what the
\* user set, even after an Accept while a thread keeps the objects of before
\* (UpdateRouteProfiles replaces the entries of the map, a deletion erases them).
CacheMatchesRow ==
  \A id \in DOMAIN identity :
    /\ id \in DOMAIN rows /\ heap[identity[id]].id = id
    /\ Settings(heap[identity[id]]) = Settings(rows[id])
=============================================================================
