------------------------------- MODULE WebClient -------------------------------
(***************************************************************************)
(* The page the server hands out (static/js/app.1da22a51.js): one login    *)
(* form, three tabs kept alive, and a folder that is opened and closed.    *)
(* Every click sends its requests and returns; answers come in any order,  *)
(* late, or not at all, and whichever comes is written over what is shown. *)
(*                                                                         *)
(* The server is reduced to what its answers hold.  Shares and downloads   *)
(* are left out: their answers change nothing in the page.                 *)
(***************************************************************************)
EXTENDS Integers, Sequences, FiniteSets

CONSTANTS
    Users,         \* names somebody may log in with
    Existing,      \* folders stored before the page is opened
    MaxClicks,     \* bound: what the user does
    MaxFailures,   \* bound: requests that fail
    MaxElsewhere   \* bound: changes by other pages

Root == 0
Views == {"files", "groups", "users", "currentUser"}
Tabs == {"files", "groups", "users"}
NoSession == "no session"
NoList == [n |-> 0]   \* null or undefined: the spinner

\* What the server keeps, and lists: a folder, a file or a group.
Item == [view : {"files", "groups"}, dir : Int, owner : Users, folder : BOOLEAN, id : Int]

ASSUME ClientAssumption ==
    /\ NoSession \notin Users
    /\ Existing \subseteq Item
    /\ \A i \in Existing : i.view = "files" /\ i.folder /\ i.id \in -99 .. -1
    /\ MaxClicks \in Nat /\ MaxFailures \in Nat /\ MaxElsewhere \in Nat

VARIABLES
    session,    \* store.state.session, known here by whose it is
    tab,        \* the component VComponentSwitcher shows
    path,       \* ids of the opened folders: currentData and its parentData chain
    shown,      \* what each view shows: elements, groups, users, currentUser
    inflight,   \* requests sent whose answer has not been seen
    sent,       \* how many requests were sent; numbers them
    newest,     \* history: the latest list request of each view
    stored,     \* the server's items
    told,       \* history: items whose creation was answered OK
    clicks, failures, elsewhere

page == <<session, tab, path, shown>>
net  == <<inflight, sent, newest>>
counters == <<clicks, failures, elsewhere>>
vars == <<page, net, stored, told, counters>>

Init ==
    /\ session = NoSession /\ tab = "files" /\ path = <<>>
    /\ shown = [v \in Views |-> NoList]
    /\ inflight = {} /\ sent = 0 /\ newest = [v \in Views |-> 0]
    /\ stored = Existing /\ told = {}
    /\ clicks = 0 /\ failures = 0 /\ elsewhere = 0

Current(p) == IF p = <<>> THEN Root ELSE p[Len(p)]

\* An axios call: a request with its parameters as they are now.
Request(n, kind, view, user, dir, folder) ==
    [n |-> n, kind |-> kind, view |-> view, user |-> user, dir |-> dir,
     folder |-> folder, phase |-> "sent", rows |-> {}]

Send(out, kind, view, user, dir, folder) ==
    /\ inflight' = out \cup {Request(sent + 1, kind, view, user, dir, folder)}
    /\ sent' = sent + 1
    /\ newest' = IF kind = "list" THEN [newest EXCEPT ![view] = sent + 1] ELSE newest

Click == clicks < MaxClicks /\ clicks' = clicks + 1 /\ UNCHANGED <<failures, elsewhere>>

----------------------------------------------------------------------------
\* Files.vue

\* Mutant: the list is cleared but not asked for again.
ReloadForgetsRequest(out, p, user) ==
    /\ path' = p
    /\ shown' = [shown EXCEPT !["files"] = NoList]
    /\ inflight' = out /\ UNCHANGED <<sent, newest>>

\* reloadData, after currentData became the last folder of p.
Reload(out, p, user) ==
    /\ path' = p
    /\ shown' = [shown EXCEPT !["files"] = NoList]
    /\ Send(out, "list", "files", user, Current(p), FALSE)

\* The tab is open and its list is there: forms and folder buttons only exist then.
ListOpen == session # NoSession /\ tab = "files" /\ shown["files"] # NoList

OpenFolder ==
    /\ ListOpen
    /\ \E i \in shown["files"].rows : i.folder /\ Reload(inflight, Append(path, i.id), session)
    /\ Click
    /\ UNCHANGED <<session, tab, stored, told>>

\* The button is there whenever currentData has a parent, list or spinner.
CloseFolder ==
    /\ session # NoSession /\ tab = "files" /\ path # <<>>
    /\ Reload(inflight, SubSeq(path, 1, Len(path) - 1), session)
    /\ Click
    /\ UNCHANGED <<session, tab, stored, told>>

\* uploadFile and createSubFolder: into the folder that is current now.
CreateFile ==
    /\ ListOpen
    /\ \E folder \in BOOLEAN :
          Send(inflight, "create", "files", session, Current(path), folder)
    /\ Click
    /\ UNCHANGED <<page, stored, told>>

----------------------------------------------------------------------------
\* Login.vue, VComponentSwitcher.vue, Users.vue, Groups.vue and the store

\* loadSession: the form stays, with its data, until an answer brings a session.
SubmitLogin ==
    /\ session = NoSession
    /\ \E u \in Users : Send(inflight, "login", "files", u, Root, FALSE)
    /\ Click
    /\ UNCHANGED <<page, stored, told>>

\* Mutant: Files, too, loads its list when it is activated.
ActivatedReloads(component) ==
    IF component = "files"
    THEN Reload(inflight, path, session) ELSE UNCHANGED <<path, shown, net>>

\* activated(): Users and Groups load their lists, over the ones they show;
\* Files has none, it loads its own when it is mounted and never again by itself.
Activated(component) ==
    /\ \/ /\ component = "files"
          /\ UNCHANGED net
       \/ /\ component = "groups"
          /\ Send(inflight, "list", "groups", session, Root, FALSE)
       \/ /\ component = "users"
          /\ LET reqs == {Request(sent + 1, "list", "users", session, Root, FALSE),
                          Request(sent + 2, "list", "currentUser", session, Root, FALSE)} IN
             /\ inflight' = inflight \cup reqs
             /\ sent' = sent + 2
             /\ newest' = [newest EXCEPT !["users"] = sent + 1, !["currentUser"] = sent + 2]
    /\ UNCHANGED <<path, shown>>

\* keep-alive keeps what a component holds while another one is shown, and
\* calls activated() each time it is shown again, the first time included.
SelectTab ==
    /\ session # NoSession
    /\ \E component \in Tabs \ {tab} : tab' = component /\ Activated(component)
    /\ Click
    /\ UNCHANGED <<session, stored, told>>

CreateGroup ==
    /\ session # NoSession /\ tab = "groups"
    /\ Send(inflight, "create", "groups", session, Root, FALSE)
    /\ Click
    /\ UNCHANGED <<page, stored, told>>

----------------------------------------------------------------------------
\* The server and the network.

NewItem(r) ==
    [view |-> r.view, dir |-> r.dir, owner |-> r.user, folder |-> r.folder, id |-> r.n]

Listed(r) ==
    {i \in stored : i.view = r.view /\ i.dir = r.dir /\ i.owner = r.user}

Become(r, phase, rows) ==
    inflight' = (inflight \ {r}) \cup {[r EXCEPT !.phase = phase, !.rows = rows]}

\* A request takes effect and its answer is on the way.
Serve(r) ==
    /\ r.phase = "sent"
    /\ stored' = IF r.kind = "create" THEN stored \cup {NewItem(r)} ELSE stored
    /\ Become(r, "answered", IF r.kind = "list" THEN Listed(r) ELSE {})
    /\ UNCHANGED <<page, sent, newest, told, counters>>

\* It is refused, or lost, or its answer is: the page learns of an error.
Lose(r) ==
    /\ r.phase \in {"sent", "answered"}
    /\ failures < MaxFailures /\ failures' = failures + 1
    /\ Become(r, "failed", {})
    /\ UNCHANGED <<page, sent, newest, stored, told, clicks, elsewhere>>

\* Another page of the same user stores a folder.
Elsewhere ==
    /\ session # NoSession
    /\ elsewhere < MaxElsewhere /\ elsewhere' = elsewhere + 1
    /\ \E dir \in {Root} \cup {i.id : i \in Existing} :
          stored' = stored \cup {[view |-> "files", dir |-> dir, owner |-> session,
                                  folder |-> TRUE, id |-> - 100 - elsewhere]}
    /\ UNCHANGED <<page, net, told, clicks, failures>>

----------------------------------------------------------------------------
\* The page sees an answer.  r is the request, rest the ones still in flight.

\* setSession.  The first session mounts Main, and with it Files, which loads
\* the root; a later one, from a second click, changes nothing but the session.
LoggedIn(r, rest) ==
    /\ session' = r.user
    /\ IF session = NoSession
       THEN Reload(rest, <<>>, r.user)
       ELSE inflight' = rest /\ UNCHANGED <<path, shown, sent, newest>>
    /\ UNCHANGED told

\* Mutant: the response is shown instead of its data.
WholeResponseArrives(r, rest) ==
    /\ shown' = [shown EXCEPT ![r.view] =
                    [n |-> r.n, user |-> r.user, dir |-> r.dir, rows |-> {r}]]
    /\ inflight' = rest
    /\ UNCHANGED <<session, path, sent, newest, told>>

\* elements = data, setGroups, setUsers, setCurrentUser: whatever is shown by now.
ListArrives(r, rest) ==
    /\ shown' = [shown EXCEPT ![r.view] =
                    [n |-> r.n, user |-> r.user, dir |-> r.dir, rows |-> r.rows]]
    /\ inflight' = rest
    /\ UNCHANGED <<session, path, sent, newest, told>>

\* Mutant: nothing is loaded after a creation.
CreatedWithoutReload(r, rest) ==
    /\ told' = told \cup {NewItem(r)}
    /\ inflight' = rest
    /\ UNCHANGED <<session, path, shown, sent, newest>>

\* The view the item belongs to is loaded anew: the folder that is current now.
Created(r, rest) ==
    /\ told' = told \cup {NewItem(r)}
    /\ IF r.view = "files"
       THEN Reload(rest, path, session)
       ELSE Send(rest, "list", "groups", session, Root, FALSE) /\ UNCHANGED <<path, shown>>
    /\ UNCHANGED session

\* errHandler: an alert.  In loadFiles it comes before elements = data, which
\* then sets elements to undefined.
Failed(r, rest) ==
    /\ shown' = IF r.kind = "list" /\ r.view = "files"
                THEN [shown EXCEPT !["files"] = NoList] ELSE shown
    /\ inflight' = rest
    /\ UNCHANGED <<session, path, sent, newest, told>>

Deliver(r) ==
    /\ LET rest == inflight \ {r} IN
       \/ r.phase = "answered" /\ r.kind = "login" /\ LoggedIn(r, rest)
       \/ r.phase = "answered" /\ r.kind = "list" /\ ListArrives(r, rest)
       \/ r.phase = "answered" /\ r.kind = "create" /\ Created(r, rest)
       \/ r.phase = "failed" /\ Failed(r, rest)
    /\ UNCHANGED <<tab, stored, counters>>

----------------------------------------------------------------------------
Clicks ==
    \/ SubmitLogin \/ OpenFolder \/ CloseFolder \/ CreateFile \/ SelectTab \/ CreateGroup

Next ==
    \/ Clicks
    \/ Elsewhere
    \/ \E r \in inflight : Serve(r) \/ Lose(r) \/ Deliver(r)

Spec == Init /\ [][Next]_vars

\* Requests are answered, or fail, and the browser gets to the answers.
FairSpec ==
    /\ Spec
    /\ WF_vars(\E r \in inflight : Serve(r))
    /\ WF_vars(\E r \in inflight : Deliver(r))

----------------------------------------------------------------------------
\* What is to be shown of it.

Requests == [n : Nat, kind : {"login", "list", "create"}, view : Views, user : Users,
             dir : Int, folder : BOOLEAN, phase : {"sent", "answered", "failed"},
             rows : SUBSET Item]

PageOK ==
    /\ session \in Users \cup {NoSession} /\ tab \in Tabs /\ path \in Seq(Int)
    /\ shown \in [Views -> {NoList} \cup [n : Nat, user : Users, dir : Int, rows : SUBSET Item]]

NetOK == inflight \subseteq Requests /\ sent \in Nat /\ newest \in [Views -> 0..sent]

\* Every variable has its type: an identity or none, lists of items, numbered
\* requests.
TypeOK ==
    /\ PageOK /\ NetOK
    /\ stored \subseteq Item /\ told \subseteq Item
    /\ clicks \in 0..MaxClicks /\ failures \in 0..MaxFailures /\ elsewhere \in 0..MaxElsewhere

\* Everything the page was told is stored is in the list, if it belongs there.
Complete(list, view) ==
    \A i \in told :
        i.view = view /\ i.owner = list.user /\ i.dir = list.dir => i \in list.rows

\* A view that shows the answer to the latest request it made shows the folder
\* the heading names, and in it everything whose creation the page has seen
\* confirmed: whatever is clicked while requests are under way, each change of
\* folder and each confirmation asks again with what is current then.
FreshView ==
    \A v \in {"files", "groups"} :
        shown[v] # NoList /\ shown[v].n = newest[v] =>
            /\ v = "files" => shown[v].dir = Current(path)
            /\ Complete(shown[v], v)

\* The root is current, its spinner turns, and no answer that concerns the
\* files is to come: the request for the list failed.
Dead ==
    /\ session # NoSession /\ path = <<>> /\ shown["files"] = NoList
    /\ \A r \in inflight : r.view = "files" => r.kind = "login"

\* Nothing in the page gets it out of that: the forms and the folders are only
\* there with a list, the root has no way back, the kept-alive tab does not
\* load again, and the login form is gone.
DeadEnd == [][Dead => Dead']_vars

\* Somebody is logged in, and no request ever failed.
Healthy == session # NoSession /\ failures = 0

\* While nothing fails, a spinner turns only for an answer that is still to come:
\* the latest list request is under way, and asks for the folder that is open.
\* No overtaken answer and no change of folder, tab or session swallows it.
SpinnerAwaits ==
    Healthy /\ shown["files"] = NoList =>
        \E r \in inflight :
            /\ r.kind = "list" /\ r.view = "files"
            /\ r.n = newest["files"] /\ r.dir = Current(path)

\* A spinner ends in a list unless some request failed, however many answers
\* are overtaken.
SpinnerEnds ==
    session # NoSession /\ shown["files"] = NoList ~>
        shown["files"] # NoList \/ failures > 0

\* Refuted: the heading over the list names the folder the list is of.
HeadingMatchesList == shown["files"] # NoList => shown["files"].dir = Current(path)

----------------------------------------------------------------------------
\* Inductive invariants.

\* Why the types last: what is created has a view that lists it, and before
\* the first session nothing but a login is under way.
TypeInv ==
    /\ TypeOK
    /\ \A r \in inflight :
          /\ r.kind = "create" => r.view \in {"files", "groups"}
          /\ session = NoSession => r.kind = "login"

\* Why FreshView holds: the latest request of a view asks for what is current,
\* and its answer holds all that had been confirmed when it was sent; what is
\* confirmed later makes another request the latest.
FreshInv ==
    /\ told \subseteq stored
    /\ \A v \in Views : shown[v].n <= sent
    /\ \A r \in inflight :
          /\ r.n <= sent
          /\ r.kind = "create" /\ r.phase = "answered" => NewItem(r) \in stored
          /\ r.kind = "list" /\ r.n = newest[r.view] =>
                /\ r.view = "files" => r.dir = Current(path)
                /\ r.phase = "answered" => Complete(r, r.view)
    /\ FreshView

\* Why SpinnerAwaits holds: an answer that is an error counts as a failure from
\* the moment it is one.
SpinnerInv ==
    /\ SpinnerAwaits
    /\ failures = 0 => \A r \in inflight : r.phase # "failed"
=============================================================================
