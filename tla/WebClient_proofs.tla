--------------------------- MODULE WebClient_proofs ---------------------------
(***************************************************************************)
(* The page, for any users, clicks, failures and order of answers: its     *)
(* types, what a list shows that answers the latest request, and that the  *)
(* failed list of the root is the end of it.                               *)
(***************************************************************************)
EXTENDS WebClient, SequenceTheorems, TLAPS

\* The folder that is open has an id, and a path keeps its type when a folder
\* is opened or closed.
LEMMA PathType ==
  ASSUME NEW p \in Seq(Int)
  PROVE  /\ Current(p) \in Int
         /\ \A i \in Int : Append(p, i) \in Seq(Int)
         /\ p # <<>> => SubSeq(p, 1, Len(p) - 1) \in Seq(Int)
  <1>1. p # <<>> => SubSeq(p, 1, Len(p) - 1) \in Seq(Int)
    BY LenProperties, SubSeqProperties, EmptySeq
  <1>. QED BY <1>1, LenProperties, EmptySeq, ElementOfSeq, AppendProperties DEF Current, Root

\* Numbers of requests, with one more of them.
LEMMA Raise ==
  ASSUME NEW s \in Nat, NEW t \in Nat, s <= t, NEW f \in [Views -> 0..s],
         NEW view, NEW n \in 0..t
  PROVE  [f EXCEPT ![view] = n] \in [Views -> 0..t]
  <1>1. \A v \in Views : f[v] \in 0..t
    OBVIOUS
  <1>. QED BY <1>1

\* A new request keeps the net well typed,
LEMMA SendType ==
  ASSUME NetOK, NEW out \in SUBSET inflight, NEW kind \in {"login", "list", "create"},
         NEW view \in Views, NEW user \in Users, NEW dir \in Int, NEW folder \in BOOLEAN,
         Send(out, kind, view, user, dir, folder)
  PROVE  NetOK'
  <1>1. Request(sent + 1, kind, view, user, dir, folder) \in Requests
    BY DEF NetOK, Request, Requests
  <1>. QED BY <1>1 DEF NetOK, Send

\* so does a reload, and the page with it.
LEMMA ReloadType ==
  ASSUME TypeOK, NEW out \in SUBSET inflight, NEW p \in Seq(Int), NEW user \in Users,
         Reload(out, p, user)
  PROVE  NetOK' /\ path' \in Seq(Int)
         /\ shown' \in [Views -> {NoList} \cup [n : Nat, user : Users, dir : Int,
                                               rows : SUBSET Item]]
  <1>1. NetOK'
    BY PathType, SendType DEF TypeOK, Reload, Views
  <1>. QED BY <1>1 DEF TypeOK, PageOK, Reload

\* What an activated component sends.
LEMMA ActivatedType ==
  ASSUME TypeOK, session \in Users, NEW component \in Tabs, Activated(component)
  PROVE  /\ NetOK' /\ UNCHANGED <<path, shown>>
         /\ \A r \in inflight' : r \in inflight \/ r.kind = "list"
  <1>1. CASE component = "files"
    BY <1>1 DEF Activated, TypeOK, NetOK, net
  <1>2. CASE component = "groups"
    <2>1. Send(inflight, "list", "groups", session, Root, FALSE) /\ UNCHANGED <<path, shown>>
      BY <1>2 DEF Activated
    <2>2. NetOK /\ inflight \in SUBSET inflight /\ Root \in Int /\ "groups" \in Views
      BY DEF TypeOK, Views, Root
    <2>3. NetOK'
      BY <2>1, <2>2, SendType
    <2>. QED BY <2>1, <2>3 DEF Send, Request
  <1>3. CASE component = "users"
    <2>. DEFINE a == Request(sent + 1, "list", "users", session, Root, FALSE)
                b == Request(sent + 2, "list", "currentUser", session, Root, FALSE)
    <2>1. /\ inflight' = inflight \cup {a, b} /\ sent' = sent + 2
          /\ newest' = [newest EXCEPT !["users"] = sent + 1, !["currentUser"] = sent + 2]
          /\ UNCHANGED <<path, shown>>
      BY <1>3 DEF Activated
    <2>2. a \in Requests /\ b \in Requests /\ a.kind = "list" /\ b.kind = "list"
      BY DEF TypeOK, NetOK, Request, Requests, Views, Root
    <2>3. NetOK
      BY DEF TypeOK
    <2>4. inflight' \subseteq Requests /\ sent' \in Nat /\ newest' \in [Views -> 0..sent']
      <3>. HIDE DEF a, b
      <3>1. sent \in Nat /\ newest \in [Views -> 0..sent]
        BY <2>3 DEF NetOK
      <3>2. newest' \in [Views -> 0..sent']
        <4>0. /\ sent + 1 \in Nat /\ sent + 2 \in Nat /\ sent <= sent + 1 /\ sent + 1 <= sent + 2
              /\ sent + 1 \in 0..sent + 1 /\ sent + 2 \in 0..sent + 2
          BY <3>1
        <4>1. [newest EXCEPT !["users"] = sent + 1] \in [Views -> 0..sent + 1]
          BY <3>1, <4>0, Raise
        <4>2. [[newest EXCEPT !["users"] = sent + 1] EXCEPT !["currentUser"] = sent + 2]
                 \in [Views -> 0..sent + 2]
          BY <3>1, <4>0, <4>1, Raise
        <4>. QED BY <2>1, <4>2
      <3>. QED BY <2>1, <2>2, <2>3, <3>1, <3>2 DEF NetOK
    <2>5. \A r \in inflight' : r \in inflight \/ r.kind = "list"
      <3>. HIDE DEF a, b
      <3>. QED BY <2>1, <2>2
    <2>. QED BY <2>1, <2>4, <2>5 DEF NetOK
  <1>. QED BY <1>1, <1>2, <1>3 DEF Tabs

\* A request that is served or lost stays a request.
LEMMA BecomeType ==
  ASSUME NetOK, NEW r \in inflight, NEW phase \in {"sent", "answered", "failed"},
         NEW rows \in SUBSET Item, Become(r, phase, rows), UNCHANGED <<sent, newest>>
  PROVE  /\ NetOK'
         /\ \A q \in inflight' : \E s \in inflight : q.kind = s.kind /\ q.view = s.view
  <1>1. r \in Requests
    BY DEF NetOK
  <1>2. [r EXCEPT !.phase = phase, !.rows = rows] \in Requests
    BY <1>1 DEF Requests
  <1>3. /\ [r EXCEPT !.phase = phase, !.rows = rows].kind = r.kind
        /\ [r EXCEPT !.phase = phase, !.rows = rows].view = r.view
    BY <1>1 DEF Requests
  <1>. QED BY <1>2, <1>3 DEF NetOK, Become

\* The counters stay within their bounds when something is clicked.
LEMMA ClickType == TypeOK /\ Click => /\ clicks' \in 0..MaxClicks
                                      /\ failures' \in 0..MaxFailures
                                      /\ elsewhere' \in 0..MaxElsewhere
  BY ClientAssumption DEF TypeOK, Click

\* What a click does keeps TypeInv.
LEMMA ClicksType == TypeInv /\ Clicks => TypeInv'
  <1> SUFFICES ASSUME TypeInv, Clicks PROVE TypeInv'
    OBVIOUS
  <1>. USE DEF Views
  <1>0. TypeOK /\ PageOK /\ NetOK /\ inflight \in SUBSET inflight
    BY DEF TypeInv, TypeOK
  <1>1. ASSUME NEW p \in Seq(Int), Reload(inflight, p, session), session \in Users, Click,
               UNCHANGED <<session, tab, stored, told>>
        PROVE  TypeInv'
    <2>1. NetOK' /\ PageOK'
      BY <1>0, <1>1, ReloadType DEF PageOK
    <2>2. \A r \in inflight' : r \in inflight \/ r.kind = "list"
      BY <1>1 DEF Reload, Send, Request
    <2>3. TypeOK'
      BY <1>0, <1>1, <2>1, ClickType DEF TypeOK
    <2>. QED BY <1>1, <2>2, <2>3, ClientAssumption DEF TypeInv
  <1>2. ASSUME NEW kind \in {"login", "create"}, NEW view \in {"files", "groups"},
               NEW user \in Users, NEW dir \in Int, NEW folder \in BOOLEAN,
               Send(inflight, kind, view, user, dir, folder), Click,
               kind = "login" \/ session # NoSession, UNCHANGED <<page, stored, told>>
        PROVE  TypeInv'
    <2>0. kind \in {"login", "list", "create"} /\ view \in Views
      BY <1>2
    <2>1a. NetOK'
      BY <1>0, <1>2, <2>0, SendType
    <2>1b. PageOK'
      BY <1>0, <1>2 DEF PageOK, page
    <2>1. NetOK' /\ PageOK'
      BY <2>1a, <2>1b
    <2>2. \A r \in inflight' : r \in inflight \/ (r.kind = kind /\ r.view = view)
      BY <1>2 DEF Send, Request
    <2>3. TypeOK'
      BY <1>0, <1>2, <2>1, ClickType DEF TypeOK
    <2>. QED BY <1>2, <2>2, <2>3 DEF TypeInv, page
  <1>3. CASE OpenFolder
    <2>1. PICK i \in shown["files"].rows : Reload(inflight, Append(path, i.id), session)
      BY <1>3 DEF OpenFolder
    <2>2. shown["files"] # NoList /\ session \in Users
      BY <1>0, <1>3 DEF OpenFolder, ListOpen, PageOK
    <2>3. i \in Item
      BY <1>0, <2>1, <2>2 DEF PageOK
    <2>4. Append(path, i.id) \in Seq(Int)
      BY <1>0, <2>3, PathType DEF PageOK, Item
    <2>. QED BY <1>1, <1>3, <2>1, <2>2, <2>4 DEF OpenFolder
  <1>4. CASE CloseFolder
    <2>1. session \in Users /\ SubSeq(path, 1, Len(path) - 1) \in Seq(Int)
      BY <1>0, <1>4, PathType DEF CloseFolder, PageOK
    <2>. QED BY <1>1, <1>4, <2>1 DEF CloseFolder
  <1>5. CASE CreateFile
    <2>1. session \in Users /\ session # NoSession /\ Current(path) \in Int
      BY <1>0, <1>5, PathType DEF CreateFile, ListOpen, PageOK
    <2>2. PICK folder \in BOOLEAN :
             Send(inflight, "create", "files", session, Current(path), folder)
      BY <1>5 DEF CreateFile
    <2>. QED BY <1>2, <1>5, <2>1, <2>2 DEF CreateFile
  <1>6. CASE SubmitLogin
    <2>1. PICK u \in Users : Send(inflight, "login", "files", u, Root, FALSE)
      BY <1>6 DEF SubmitLogin
    <2>2. Root \in Int
      BY DEF Root
    <2>. QED BY <1>2, <1>6, <2>1, <2>2 DEF SubmitLogin
  <1>7. CASE CreateGroup
    <2>1. session \in Users /\ session # NoSession
      BY <1>0, <1>7 DEF CreateGroup, PageOK
    <2>2. Send(inflight, "create", "groups", session, Root, FALSE)
      BY <1>7 DEF CreateGroup
    <2>3. Root \in Int
      BY DEF Root
    <2>. QED BY <1>2, <1>7, <2>1, <2>2, <2>3 DEF CreateGroup
  <1>8. CASE SelectTab
    <2>1. session \in Users /\ session # NoSession
      BY <1>0, <1>8 DEF SelectTab, PageOK
    <2>2. PICK component \in Tabs : tab' = component /\ Activated(component)
      BY <1>8 DEF SelectTab
    <2>3. /\ NetOK' /\ UNCHANGED <<path, shown>>
          /\ \A r \in inflight' : r \in inflight \/ r.kind = "list"
      BY <1>0, <2>1, <2>2, ActivatedType
    <2>4. PageOK'
      BY <1>0, <1>8, <2>2, <2>3 DEF PageOK, SelectTab
    <2>5. TypeOK'
      BY <1>0, <1>8, <2>3, <2>4, ClickType DEF TypeOK, SelectTab
    <2>. QED BY <1>8, <2>1, <2>3, <2>5 DEF TypeInv, SelectTab
  <1>. QED BY <1>3, <1>4, <1>5, <1>6, <1>7, <1>8 DEF Clicks

\* So does what the server and the network do,
LEMMA ServerType ==
  ASSUME TypeInv, NEW r \in inflight, Serve(r) \/ Lose(r)
  PROVE  TypeInv'
  <1>0. TypeOK /\ PageOK /\ NetOK /\ r \in Requests
    BY DEF TypeInv, TypeOK, NetOK
  <1>1. CASE Serve(r)
    <2>1. PICK rows \in SUBSET Item : Become(r, "answered", rows)
      BY <1>0, <1>1 DEF Serve, Listed, TypeOK
    <2>2. /\ NetOK'
          /\ \A q \in inflight' : \E s \in inflight : q.kind = s.kind /\ q.view = s.view
      BY <1>0, <1>1, <2>1, BecomeType DEF Serve
    <2>3. r.kind = "create" => NewItem(r) \in Item
      BY <1>0 DEF NewItem, Item, Requests, TypeInv
    <2>4. stored' \subseteq Item /\ told' \subseteq Item
      BY <1>0, <1>1, <2>3 DEF Serve, TypeOK
    <2>5. PageOK'
      BY <1>0, <1>1 DEF PageOK, Serve, page
    <2>6. TypeOK'
      BY <1>0, <1>1, <2>2, <2>4, <2>5 DEF TypeOK, Serve, counters
    <2>. QED BY <1>1, <2>2, <2>6 DEF TypeInv, Serve, page
  <1>2. CASE Lose(r)
    <2>1. /\ NetOK'
          /\ \A q \in inflight' : \E s \in inflight : q.kind = s.kind /\ q.view = s.view
      BY <1>0, <1>2, BecomeType DEF Lose
    <2>2. PageOK'
      BY <1>0, <1>2 DEF PageOK, Lose, page
    <2>3. failures' \in 0..MaxFailures
      BY <1>0, <1>2, ClientAssumption DEF Lose, TypeOK
    <2>4. TypeOK'
      BY <1>0, <1>2, <2>1, <2>2, <2>3 DEF TypeOK, Lose
    <2>. QED BY <1>2, <2>1, <2>4 DEF TypeInv, Lose, page
  <1>. QED BY <1>1, <1>2

\* and what another page does.
LEMMA ElsewhereType == TypeInv /\ Elsewhere => TypeInv'
  <1> SUFFICES ASSUME TypeInv, Elsewhere PROVE TypeInv'
    OBVIOUS
  <1>0. TypeOK /\ PageOK /\ NetOK
    BY DEF TypeInv, TypeOK
  <1>1. PageOK' /\ NetOK'
    BY <1>0 DEF PageOK, NetOK, Elsewhere, page, net
  <1>2. elsewhere \in Nat /\ elsewhere' \in 0..MaxElsewhere
    BY <1>0, ClientAssumption DEF Elsewhere, TypeOK
  <1>3. \A dir \in {Root} \cup {i.id : i \in Existing} : dir \in Int
    BY ClientAssumption DEF Root
  <1>4. session \in Users
    BY <1>0 DEF Elsewhere, PageOK
  <1>5. stored' \subseteq Item
    <2>1. PICK dir \in {Root} \cup {i.id : i \in Existing} :
             stored' = stored \cup {[view |-> "files", dir |-> dir, owner |-> session,
                                    folder |-> TRUE, id |-> - 100 - elsewhere]}
      BY DEF Elsewhere
    <2>2. - 100 - elsewhere \in Int
      BY <1>2
    <2>3. [view |-> "files", dir |-> dir, owner |-> session,
           folder |-> TRUE, id |-> - 100 - elsewhere] \in Item
      BY <1>3, <1>4, <2>2 DEF Item
    <2>. QED BY <1>0, <2>1, <2>3 DEF TypeOK
  <1>6. TypeOK'
    BY <1>0, <1>1, <1>2, <1>5 DEF TypeOK, Elsewhere
  <1>. QED BY <1>6 DEF TypeInv, Elsewhere, page, net

\* and the answers the page sees.
LEMMA DeliverType ==
  ASSUME TypeInv, NEW r \in inflight, Deliver(r)
  PROVE  TypeInv'
  <1>. DEFINE rest == inflight \ {r}
  <1>0. TypeOK /\ PageOK /\ NetOK /\ r \in Requests /\ rest \in SUBSET inflight
    BY DEF TypeInv, TypeOK, NetOK
  <1>1. UNCHANGED <<tab, stored, counters>>
    BY DEF Deliver
  <1>2. ASSUME NetOK', PageOK', told' \in SUBSET Item,
               \A q \in inflight' : q \in inflight \/ q.kind = "list",
               session' = session \/ session' # NoSession,
               session = NoSession => session' # NoSession \/ inflight' \subseteq inflight
        PROVE  TypeInv'
    <2>1. TypeOK'
      BY <1>0, <1>1, <1>2 DEF TypeOK, counters
    <2>. QED BY <1>2, <2>1 DEF TypeInv
  <1>3. CASE r.kind = "login" /\ LoggedIn(r, rest)
    <2>1. r.user \in Users /\ session' = r.user /\ session' # NoSession /\ told' = told
      BY <1>0, <1>3, ClientAssumption DEF LoggedIn, Requests
    <2>2. CASE session = NoSession
      <3>1. Reload(rest, <<>>, r.user) /\ <<>> \in Seq(Int)
        BY <1>3, <2>2 DEF LoggedIn
      <3>2. NetOK' /\ PageOK'
        BY <1>0, <1>1, <2>1, <3>1, ReloadType DEF PageOK
      <3>3. \A q \in inflight' : q \in inflight \/ q.kind = "list"
        BY <3>1 DEF Reload, Send, Request
      <3>. QED BY <1>0, <1>2, <2>1, <3>2, <3>3 DEF TypeOK
    <2>3. CASE session # NoSession
      <3>1. NetOK' /\ PageOK' /\ inflight' \subseteq inflight
        BY <1>0, <1>1, <1>3, <2>1, <2>3 DEF LoggedIn, NetOK, PageOK
      <3>. QED BY <1>0, <1>2, <2>1, <3>1 DEF TypeOK
    <2>. QED BY <2>2, <2>3
  <1>4. CASE r.kind = "list" /\ ListArrives(r, rest)
    <2>1. [n |-> r.n, user |-> r.user, dir |-> r.dir, rows |-> r.rows]
             \in [n : Nat, user : Users, dir : Int, rows : SUBSET Item]
      BY <1>0 DEF Requests
    <2>2. PageOK'
      BY <1>0, <1>1, <1>4, <2>1 DEF ListArrives, PageOK
    <2>3. NetOK' /\ inflight' \subseteq inflight /\ UNCHANGED <<session, told>>
      BY <1>0, <1>4 DEF ListArrives, NetOK
    <2>. QED BY <1>0, <1>2, <2>2, <2>3 DEF TypeOK
  <1>5. CASE r.kind = "create" /\ Created(r, rest)
    <2>1. session \in Users /\ session # NoSession /\ session' = session
      BY <1>0, <1>5 DEF TypeInv, PageOK, Created
    <2>2. NewItem(r) \in Item
      BY <1>0, <1>5 DEF NewItem, Item, Requests, TypeInv
    <2>3. told' \in SUBSET Item
      BY <1>0, <1>5, <2>2 DEF Created, TypeOK
    <2>4. CASE r.view = "files"
      <3>1. Reload(rest, path, session) /\ path \in Seq(Int)
        BY <1>0, <1>5, <2>4 DEF Created, PageOK
      <3>2. NetOK' /\ PageOK'
        BY <1>0, <1>1, <2>1, <3>1, ReloadType DEF PageOK
      <3>3. \A q \in inflight' : q \in inflight \/ q.kind = "list"
        BY <3>1 DEF Reload, Send, Request
      <3>. QED BY <1>2, <2>1, <2>3, <3>2, <3>3
    <2>5. CASE r.view # "files"
      <3>1. Send(rest, "list", "groups", session, Root, FALSE) /\ UNCHANGED <<path, shown>>
        BY <1>5, <2>5 DEF Created
      <3>2. Root \in Int /\ "groups" \in Views
        BY DEF Root, Views
      <3>3. NetOK'
        BY <1>0, <2>1, <3>1, <3>2, SendType
      <3>4. PageOK'
        BY <1>0, <1>1, <2>1, <3>1 DEF PageOK
      <3>5. \A q \in inflight' : q \in inflight \/ q.kind = "list"
        BY <3>1 DEF Send, Request
      <3>. QED BY <1>2, <2>1, <2>3, <3>3, <3>4, <3>5
    <2>. QED BY <2>4, <2>5
  <1>6. CASE Failed(r, rest)
    <2>1. PageOK'
      BY <1>0, <1>1, <1>6 DEF Failed, PageOK
    <2>2. NetOK' /\ inflight' \subseteq inflight /\ UNCHANGED <<session, told>>
      BY <1>0, <1>6 DEF Failed, NetOK
    <2>. QED BY <1>0, <1>2, <2>1, <2>2 DEF TypeOK
  <1>. QED BY <1>3, <1>4, <1>5, <1>6 DEF Deliver

\* The types of the page are inductive together with what is under way.
LEMMA TypeInvariant == Spec => []TypeInv
  <1>1. Init => TypeInv
    BY ClientAssumption, EmptySeq
       DEF Init, TypeInv, TypeOK, PageOK, NetOK, Tabs, Views
  <1>2. TypeInv /\ [Next]_vars => TypeInv'
    <2> SUFFICES ASSUME TypeInv, [Next]_vars PROVE TypeInv'
      OBVIOUS
    <2>1. CASE Clicks
      BY <2>1, ClicksType
    <2>2. CASE Elsewhere
      BY <2>2, ElsewhereType
    <2>3. CASE \E r \in inflight : Serve(r) \/ Lose(r) \/ Deliver(r)
      BY <2>3, ServerType, DeliverType
    <2>4. CASE UNCHANGED vars
      BY <2>4 DEF vars, page, net, counters, TypeInv, TypeOK, PageOK, NetOK
    <2>. QED BY <2>1, <2>2, <2>3, <2>4 DEF Next
  <1>. QED BY <1>1, <1>2, PTL DEF Spec

\* Every variable of the page and of its requests keeps its type.
THEOREM PageTypes == Spec => []TypeOK
  <1>1. TypeInv => TypeOK
    BY DEF TypeInv
  <1>. QED BY <1>1, TypeInvariant, PTL

----------------------------------------------------------------------------
\* When the list of the root has failed, no click, no answer and no other page
\* brings it back.
THEOREM FailedRootStays == Spec => DeadEnd
  <1>1. TypeInv /\ [Next]_vars => (Dead => Dead')
    <2> SUFFICES ASSUME TypeInv, [Next]_vars, Dead PROVE Dead'
      OBVIOUS
    <2>. USE DEF Views
    <2>0. TypeOK /\ PageOK /\ NetOK /\ shown["files"] = NoList /\ path = <<>>
          /\ session \in Users
      BY DEF TypeInv, TypeOK, PageOK, Dead
    <2>1. ASSUME UNCHANGED <<session, path, shown>>,
                 \A q \in inflight' : q.view = "files" /\ q.kind # "login" =>
                    \E r \in inflight : r.view = "files" /\ r.kind # "login"
          PROVE  Dead'
      BY <2>1 DEF Dead
    <2>2. CASE Clicks
      <3>1. ~OpenFolder /\ ~CreateFile /\ ~CloseFolder /\ ~SubmitLogin
        BY <2>0 DEF OpenFolder, CreateFile, CloseFolder, SubmitLogin, ListOpen, Dead
      <3>2. CASE CreateGroup
        BY <2>1, <3>2 DEF CreateGroup, Send, Request, page
      <3>3. CASE SelectTab
        <4>1. PICK component \in Tabs : Activated(component)
          BY <3>3 DEF SelectTab
        <4>2. UNCHANGED <<session, path, shown>>
          BY <2>0, <3>3, <4>1, ActivatedType DEF SelectTab
        <4>3. \A q \in inflight' : q \in inflight \/ q.view # "files"
          BY <4>1 DEF Activated, Send, Request, net
        <4>. QED BY <2>1, <4>2, <4>3
      <3>. QED BY <2>2, <3>1, <3>2, <3>3 DEF Clicks
    <2>3. CASE Elsewhere
      BY <2>1, <2>3 DEF Elsewhere, page, net
    <2>4. ASSUME NEW r \in inflight, Serve(r) \/ Lose(r) PROVE Dead'
      <3>1. UNCHANGED <<session, path, shown, sent, newest>>
        BY <2>4 DEF Serve, Lose, page
      <3>2. PICK phase \in {"answered", "failed"}, rows \in SUBSET Item : Become(r, phase, rows)
        BY <2>0, <2>4 DEF Serve, Lose, Listed, TypeOK
      <3>3. \A q \in inflight' : \E s \in inflight : q.kind = s.kind /\ q.view = s.view
        BY <2>0, <3>1, <3>2, BecomeType
      <3>. QED BY <2>1, <3>1, <3>3
    <2>5. ASSUME NEW r \in inflight, Deliver(r) PROVE Dead'
      <3>. DEFINE rest == inflight \ {r}
      <3>0. r \in Requests
        BY <2>0 DEF NetOK
      <3>1. CASE r.kind = "login" /\ LoggedIn(r, rest)
        BY <2>0, <3>0, <3>1, ClientAssumption DEF LoggedIn, Dead, Requests
      <3>2. CASE r.kind = "list" /\ ListArrives(r, rest)
        <4>1. r.view \in Views /\ r.view # "files"
          BY <3>0, <3>2 DEF Dead, Requests
        <4>2. shown'["files"] = shown["files"] /\ inflight' \subseteq inflight
              /\ UNCHANGED <<session, path>>
          BY <2>0, <3>2, <4>1 DEF ListArrives, PageOK
        <4>. QED BY <4>2 DEF Dead
      <3>3. CASE r.kind = "create" /\ Created(r, rest)
        <4>1. r.view # "files"
          BY <3>3 DEF Dead
        <4>. QED BY <2>1, <3>3, <4>1 DEF Created, Send, Request
      <3>4. CASE Failed(r, rest)
        <4>1. ~(r.kind = "list" /\ r.view = "files")
          BY DEF Dead
        <4>. QED BY <2>1, <3>4, <4>1 DEF Failed
      <3>. QED BY <2>5, <3>1, <3>2, <3>3, <3>4 DEF Deliver
    <2>6. CASE UNCHANGED vars
      BY <2>1, <2>6 DEF vars, page, net
    <2>. QED BY <2>2, <2>3, <2>4, <2>5, <2>6 DEF Next
  <1>. QED BY <1>1, TypeInvariant, PTL DEF Spec, DeadEnd

----------------------------------------------------------------------------
\* Steps that show nothing new: whenever the folder changes or an item of a
\* view is confirmed, a request that has not been sent yet becomes its latest.
LEMMA AskAgain ==
  ASSUME TypeInv, TypeInv', FreshInv, stored \subseteq stored', told' \subseteq stored',
         sent <= sent',
         \A v \in Views : newest'[v] = newest[v] \/ newest'[v] > sent,
         \A v \in Views : shown'[v] = shown[v] \/ shown'[v] = NoList,
         path' = path \/ newest'["files"] > sent,
         \A i \in told' : i \in told \/ newest'[i.view] > sent,
         \A r \in inflight' :
            \/ r \in inflight
            \/ /\ sent < r.n /\ r.n <= sent' /\ r.phase = "sent"
               /\ r.kind = "list" /\ r.view = "files" => r.dir = Current(path')
  PROVE  FreshInv'
  <1>0. /\ sent \in Nat /\ sent' \in Nat /\ inflight \subseteq Requests
        /\ inflight' \subseteq Requests
        /\ newest \in [Views -> 0..sent] /\ newest' \in [Views -> 0..sent']
        /\ shown \in [Views -> {NoList} \cup [n : Nat, user : Users, dir : Int,
                                             rows : SUBSET Item]]
    BY DEF TypeInv, TypeOK, NetOK, PageOK
  <1>1. ASSUME NEW v \in Views, newest'[v] <= sent
        PROVE  /\ newest'[v] = newest[v]
               /\ v = "files" => path' = path
               /\ \A i \in told' : i.view = v => i \in told
    BY <1>0, <1>1
  <1>2. \A v \in Views : shown'[v].n <= sent'
    <2>. TAKE v \in Views
    <2>1. CASE shown'[v] = shown[v]
      <3>1. shown[v].n <= sent /\ shown[v].n \in Nat
        BY <1>0 DEF FreshInv, NoList
      <3>. QED BY <1>0, <2>1, <3>1
    <2>2. CASE shown'[v] = NoList
      BY <1>0, <2>2 DEF NoList
    <2>. QED BY <2>1, <2>2
  <1>3. ASSUME NEW r \in inflight'
        PROVE  /\ r.n <= sent'
               /\ r.kind = "create" /\ r.phase = "answered" => NewItem(r) \in stored'
               /\ r.kind = "list" /\ r.n = newest'[r.view] =>
                     /\ r.view = "files" => r.dir = Current(path')
                     /\ r.phase = "answered" => Complete(r, r.view)'
    <2>1. r.n \in Nat /\ r.view \in Views
      BY <1>0 DEF Requests
    <2>2. CASE r \in inflight
      <3>1. /\ r.n <= sent
            /\ r.kind = "create" /\ r.phase = "answered" => NewItem(r) \in stored
            /\ r.kind = "list" /\ r.n = newest[r.view] =>
                  /\ r.view = "files" => r.dir = Current(path)
                  /\ r.phase = "answered" => Complete(r, r.view)
        BY <2>2 DEF FreshInv
      <3>2. ASSUME r.kind = "list", r.n = newest'[r.view]
            PROVE  /\ r.view = "files" => r.dir = Current(path')
                   /\ r.phase = "answered" => Complete(r, r.view)'
        <4>1. /\ newest'[r.view] = newest[r.view]
              /\ r.view = "files" => path' = path
              /\ \A i \in told' : i.view = r.view => i \in told
          BY <1>1, <2>1, <3>1, <3>2
        <4>. QED BY <3>1, <3>2, <4>1 DEF Complete
      <3>. QED BY <1>0, <2>1, <3>1, <3>2
    <2>3. CASE r \notin inflight
      BY <1>3, <2>3
    <2>. QED BY <2>2, <2>3
  <1>4. ASSUME NEW v \in {"files", "groups"}, shown'[v] # NoList, shown'[v].n = newest'[v]
        PROVE  /\ v = "files" => shown'[v].dir = Current(path')
               /\ Complete(shown[v], v)'
    <2>1. v \in Views /\ shown'[v] = shown[v]
      BY <1>4 DEF Views
    <2>2. shown[v].n <= sent
      BY <2>1 DEF FreshInv
    <2>3. /\ newest'[v] = newest[v]
          /\ v = "files" => path' = path
          /\ \A i \in told' : i.view = v => i \in told
      BY <1>1, <1>4, <2>1, <2>2
    <2>4. FreshView
      BY DEF FreshInv
    <2>5. /\ v = "files" => shown[v].dir = Current(path)
          /\ Complete(shown[v], v)
      BY <1>4, <2>1, <2>3, <2>4 DEF FreshView
    <2>. QED BY <2>1, <2>3, <2>5 DEF Complete
  <1>5. FreshView'
    BY <1>4 DEF FreshView
  <1>. QED BY <1>2, <1>3, <1>5 DEF FreshInv

\* Everything the page asks for again counts as such a step: a reload,
LEMMA ReloadFresh ==
  ASSUME TypeInv, TypeInv', FreshInv, NEW out \in SUBSET inflight, NEW p, NEW user,
         Reload(out, p, user), stored' = stored, told' \subseteq stored,
         \A i \in told' : i \in told \/ i.view = "files"
  PROVE  FreshInv'
  <1>0. /\ sent \in Nat /\ newest \in [Views -> 0..sent] /\ "files" \in Views
        /\ shown \in [Views -> {NoList} \cup [n : Nat, user : Users, dir : Int,
                                             rows : SUBSET Item]]
    BY DEF TypeInv, TypeOK, NetOK, PageOK, Views
  <1>1. /\ path' = p /\ shown' = [shown EXCEPT !["files"] = NoList]
        /\ inflight' = out \cup {Request(sent + 1, "list", "files", user, Current(p), FALSE)}
        /\ sent' = sent + 1 /\ newest' = [newest EXCEPT !["files"] = sent + 1]
    BY DEF Reload, Send
  <1>2. newest'["files"] > sent /\ sent <= sent'
    BY <1>0, <1>1
  <1>3. \A v \in Views : /\ newest'[v] = newest[v] \/ newest'[v] > sent
                         /\ shown'[v] = shown[v] \/ shown'[v] = NoList
    BY <1>0, <1>1, <1>2
  <1>4. \A r \in inflight' :
           \/ r \in inflight
           \/ /\ sent < r.n /\ r.n <= sent' /\ r.phase = "sent"
              /\ r.kind = "list" /\ r.view = "files" => r.dir = Current(path')
    BY <1>0, <1>1 DEF Request
  <1>. QED BY <1>2, <1>3, <1>4, AskAgain

\* and any other request.
LEMMA SendFresh ==
  ASSUME TypeInv, TypeInv', FreshInv, NEW out \in SUBSET inflight,
         NEW kind \in {"login", "list", "create"}, NEW view \in Views,
         NEW user, NEW dir, NEW folder, kind = "list" => view # "files",
         Send(out, kind, view, user, dir, folder),
         UNCHANGED <<path, shown, stored>>, told' \subseteq stored,
         \A i \in told' : i \in told \/ (kind = "list" /\ i.view = view)
  PROVE  FreshInv'
  <1>0. sent \in Nat /\ newest \in [Views -> 0..sent]
    BY DEF TypeInv, TypeOK, NetOK
  <1>1. /\ inflight' = out \cup {Request(sent + 1, kind, view, user, dir, folder)}
        /\ sent' = sent + 1
        /\ newest' = IF kind = "list" THEN [newest EXCEPT ![view] = sent + 1] ELSE newest
    BY DEF Send
  <1>2. sent <= sent' /\ (kind = "list" => newest'[view] > sent)
    BY <1>0, <1>1
  <1>3. \A v \in Views : newest'[v] = newest[v] \/ newest'[v] > sent
    BY <1>0, <1>1, <1>2
  <1>4. \A r \in inflight' :
           \/ r \in inflight
           \/ /\ sent < r.n /\ r.n <= sent' /\ r.phase = "sent"
              /\ r.kind = "list" /\ r.view = "files" => r.dir = Current(path')
    BY <1>0, <1>1 DEF Request
  <1>5. \A i \in told' : i \in told \/ newest'[i.view] > sent
    BY <1>2
  <1>. QED BY <1>2, <1>3, <1>4, <1>5, AskAgain

\* A step that sends nothing, and hides or keeps what is shown.
LEMMA QuietFresh ==
  ASSUME TypeInv, TypeInv', FreshInv, inflight' \subseteq inflight,
         stored \subseteq stored', UNCHANGED <<path, sent, newest, told>>,
         \A v \in Views : shown'[v] = shown[v] \/ shown'[v] = NoList
  PROVE  FreshInv'
  <1>1. sent <= sent' /\ told' \subseteq stored'
    BY DEF TypeInv, TypeOK, NetOK, FreshInv
  <1>. QED BY <1>1, AskAgain

\* A click asks anew for what it changes.
LEMMA ClicksFresh == TypeInv /\ TypeInv' /\ FreshInv /\ Clicks => FreshInv'
  <1> SUFFICES ASSUME TypeInv, TypeInv', FreshInv, Clicks PROVE FreshInv'
    OBVIOUS
  <1>. USE DEF Views
  <1>0. inflight \in SUBSET inflight /\ told \subseteq stored
    BY DEF FreshInv
  <1>1. CASE OpenFolder
    <2>1. PICK i \in shown["files"].rows : Reload(inflight, Append(path, i.id), session)
      BY <1>1 DEF OpenFolder
    <2>. QED BY <1>0, <1>1, <2>1, ReloadFresh DEF OpenFolder
  <1>2. CASE CloseFolder
    BY <1>0, <1>2, ReloadFresh DEF CloseFolder
  <1>3. CASE CreateFile
    <2>1. PICK folder \in BOOLEAN :
             Send(inflight, "create", "files", session, Current(path), folder)
      BY <1>3 DEF CreateFile
    <2>2. UNCHANGED <<path, shown, stored, told>>
      BY <1>3 DEF CreateFile, page
    <2>. QED BY <1>0, <2>1, <2>2, SendFresh
  <1>4. CASE SubmitLogin
    <2>1. PICK u \in Users : Send(inflight, "login", "files", u, Root, FALSE)
      BY <1>4 DEF SubmitLogin
    <2>2. UNCHANGED <<path, shown, stored, told>>
      BY <1>4 DEF SubmitLogin, page
    <2>. QED BY <1>0, <2>1, <2>2, SendFresh
  <1>5. CASE CreateGroup
    <2>1. Send(inflight, "create", "groups", session, Root, FALSE)
      BY <1>5 DEF CreateGroup
    <2>2. UNCHANGED <<path, shown, stored, told>>
      BY <1>5 DEF CreateGroup, page
    <2>. QED BY <1>0, <2>1, <2>2, SendFresh
  <1>6. CASE SelectTab
    <2>1. PICK component \in Tabs : Activated(component)
      BY <1>6 DEF SelectTab
    <2>2. stored' = stored /\ told' = told
      BY <1>6 DEF SelectTab
    <2>3. CASE component = "files"
      <3>1. UNCHANGED <<path, shown, inflight, sent, newest>>
        BY <2>1, <2>3 DEF Activated, net
      <3>. QED BY <2>2, <3>1, QuietFresh
    <2>4. CASE component = "groups"
      <3>1. Send(inflight, "list", "groups", session, Root, FALSE) /\ UNCHANGED <<path, shown>>
        BY <2>1, <2>4 DEF Activated
      <3>. QED BY <1>0, <2>2, <3>1, SendFresh
    <2>5. CASE component = "users"
      <3>. DEFINE a == Request(sent + 1, "list", "users", session, Root, FALSE)
                  b == Request(sent + 2, "list", "currentUser", session, Root, FALSE)
      <3>1. /\ inflight' = inflight \cup {a, b} /\ sent' = sent + 2
            /\ newest' = [newest EXCEPT !["users"] = sent + 1, !["currentUser"] = sent + 2]
            /\ UNCHANGED <<path, shown>>
        BY <2>1, <2>5 DEF Activated
      <3>2. sent \in Nat /\ newest \in [Views -> 0..sent]
        BY DEF TypeInv, TypeOK, NetOK
      <3>3. /\ a.n = sent + 1 /\ a.phase = "sent" /\ a.view = "users"
            /\ b.n = sent + 2 /\ b.phase = "sent" /\ b.view = "currentUser"
        BY DEF Request
      <3>. HIDE DEF a, b
      <3>4. sent <= sent' /\ \A v \in Views : newest'[v] = newest[v] \/ newest'[v] > sent
        BY <3>1, <3>2
      <3>5. \A r \in inflight' :
               \/ r \in inflight
               \/ sent < r.n /\ r.n <= sent' /\ r.phase = "sent" /\ r.view # "files"
        BY <3>1, <3>2, <3>3
      <3>. QED BY <1>0, <2>2, <3>1, <3>4, <3>5, AskAgain
    <2>. QED BY <2>3, <2>4, <2>5 DEF Tabs
  <1>. QED BY <1>1, <1>2, <1>3, <1>4, <1>5, <1>6 DEF Clicks

\* The answer the server gives holds what is stored, and so all that had been
\* confirmed; a lost one holds nothing.
LEMMA ServerFresh ==
  ASSUME TypeInv, TypeInv', FreshInv, NEW r \in inflight, Serve(r) \/ Lose(r)
  PROVE  FreshInv'
  <1>0. /\ r \in Requests /\ sent \in Nat
        /\ UNCHANGED <<path, shown, sent, newest, told>> /\ told \subseteq stored
        /\ stored \subseteq stored'
    BY DEF TypeInv, TypeOK, NetOK, FreshInv, Serve, Lose, page
  <1>1. PICK phase \in {"answered", "failed"}, rows \in SUBSET Item :
          /\ Become(r, phase, rows)
          /\ phase = "answered" /\ r.kind = "create" => NewItem(r) \in stored'
          /\ phase = "answered" /\ r.kind = "list" => rows = Listed(r)
    <2>1. CASE Serve(r)
      BY <2>1, <1>0 DEF Serve, Listed, TypeInv, TypeOK
    <2>2. CASE Lose(r)
      <3>1. Become(r, "failed", {})
        BY <2>2 DEF Lose
      <3>. QED BY <3>1
    <2>. QED BY <2>1, <2>2
  <1>. DEFINE q == [r EXCEPT !.phase = phase, !.rows = rows]
  <1>2. /\ q.n = r.n /\ q.kind = r.kind /\ q.view = r.view /\ q.user = r.user /\ q.dir = r.dir
        /\ q.folder = r.folder /\ q.phase = phase /\ q.rows = rows
        /\ inflight' = (inflight \ {r}) \cup {q}
    BY <1>0, <1>1 DEF Become, Requests
  <1>3. /\ r.n <= sent
        /\ r.kind = "list" /\ r.n = newest[r.view] /\ r.view = "files" => r.dir = Current(path)
    BY DEF FreshInv
  <1>. HIDE DEF q
  <1>4. phase = "answered" /\ r.kind = "list" => Complete(q, q.view)'
    BY <1>0, <1>1, <1>2 DEF Complete, Listed
  <1>5. NewItem(q) = NewItem(r)
    BY <1>2 DEF NewItem
  <1>6. ASSUME NEW s \in inflight'
        PROVE  /\ s.n <= sent'
               /\ s.kind = "create" /\ s.phase = "answered" => NewItem(s) \in stored'
               /\ s.kind = "list" /\ s.n = newest'[s.view] =>
                     /\ s.view = "files" => s.dir = Current(path')
                     /\ s.phase = "answered" => Complete(s, s.view)'
    <2>1. CASE s = q
      BY <1>0, <1>1, <1>2, <1>3, <1>4, <1>5, <2>1
    <2>2. CASE s # q
      <3>1. s \in inflight
        BY <1>2, <2>2
      <3>. QED BY <1>0, <3>1 DEF FreshInv, Complete
    <2>. QED BY <2>1, <2>2
  <1>7. /\ told' \subseteq stored'
        /\ \A v \in Views : shown'[v].n <= sent'
        /\ FreshView'
    BY <1>0 DEF FreshInv, FreshView, Complete
  <1>. QED BY <1>6, <1>7 DEF FreshInv

\* A list that arrives is what is promised of it if it is the latest.
LEMMA ListFresh ==
  ASSUME TypeInv, TypeInv', FreshInv, NEW r \in inflight, r.kind = "list", r.phase = "answered",
         ListArrives(r, inflight \ {r}), stored' = stored
  PROVE  FreshInv'
  <1>0. /\ r \in Requests /\ sent \in Nat
        /\ shown \in [Views -> {NoList} \cup [n : Nat, user : Users, dir : Int,
                                             rows : SUBSET Item]]
    BY DEF TypeInv, TypeOK, NetOK, PageOK
  <1>. DEFINE list == [n |-> r.n, user |-> r.user, dir |-> r.dir, rows |-> r.rows]
  <1>1. /\ shown' = [shown EXCEPT ![r.view] = list] /\ inflight' = inflight \ {r}
        /\ UNCHANGED <<path, sent, newest, told>>
    BY DEF ListArrives
  <1>2. /\ r.view \in Views /\ list.n = r.n /\ list.user = r.user /\ list.dir = r.dir
        /\ list.rows = r.rows
    BY <1>0 DEF Requests
  <1>. HIDE DEF list
  <1>3. /\ r.n <= sent
        /\ r.n = newest[r.view] =>
              /\ r.view = "files" => r.dir = Current(path)
              /\ Complete(r, r.view)
    BY DEF FreshInv
  <1>4. \A v \in Views : shown'[v] = IF v = r.view THEN list ELSE shown[v]
    BY <1>0, <1>1
  <1>5. told' \subseteq stored' /\ \A v \in Views : shown'[v].n <= sent'
    BY <1>1, <1>2, <1>3, <1>4 DEF FreshInv
  <1>6. ASSUME NEW v \in {"files", "groups"}, shown'[v] # NoList, shown'[v].n = newest'[v]
        PROVE  /\ v = "files" => shown'[v].dir = Current(path')
               /\ Complete(shown[v], v)'
    <2>1. v \in Views
      BY DEF Views
    <2>2. CASE v = r.view
      BY <1>1, <1>2, <1>3, <1>4, <1>6, <2>1, <2>2 DEF Complete
    <2>3. CASE v # r.view
      <3>1. shown'[v] = shown[v]
        BY <1>4, <2>1, <2>3
      <3>. QED BY <1>1, <1>6, <3>1 DEF FreshInv, FreshView, Complete
    <2>. QED BY <2>2, <2>3
  <1>7. FreshView'
    BY <1>6 DEF FreshView
  <1>8. \A s \in inflight' :
           /\ s.n <= sent'
           /\ s.kind = "create" /\ s.phase = "answered" => NewItem(s) \in stored'
           /\ s.kind = "list" /\ s.n = newest'[s.view] =>
                 /\ s.view = "files" => s.dir = Current(path')
                 /\ s.phase = "answered" => Complete(s, s.view)'
    BY <1>1 DEF FreshInv, Complete
  <1>. QED BY <1>5, <1>7, <1>8 DEF FreshInv

\* So does an answer that opens the page or confirms an item; a list is shown
\* as it was answered, and a failure shows nothing.
LEMMA DeliverFresh ==
  ASSUME TypeInv, TypeInv', FreshInv, NEW r \in inflight, Deliver(r)
  PROVE  FreshInv'
  <1>. DEFINE rest == inflight \ {r}
  <1>0. /\ r \in Requests /\ rest \in SUBSET inflight /\ stored' = stored
        /\ told \subseteq stored
        /\ shown \in [Views -> {NoList} \cup [n : Nat, user : Users, dir : Int,
                                             rows : SUBSET Item]]
    BY DEF TypeInv, TypeOK, NetOK, PageOK, FreshInv, Deliver
  <1>1. CASE r.kind = "login" /\ LoggedIn(r, rest)
    <2>1. CASE session = NoSession
      BY <1>0, <1>1, <2>1, ReloadFresh DEF LoggedIn
    <2>2. CASE session # NoSession
      BY <1>0, <1>1, <2>2, QuietFresh DEF LoggedIn
    <2>. QED BY <2>1, <2>2
  <1>2. CASE r.phase = "answered" /\ r.kind = "list" /\ ListArrives(r, rest)
    BY <1>0, <1>2, ListFresh
  <1>3. CASE r.phase = "answered" /\ r.kind = "create" /\ Created(r, rest)
    <2>1. NewItem(r) \in stored /\ r.view \in {"files", "groups"}
      BY <1>3 DEF FreshInv, TypeInv
    <2>2. told' = told \cup {NewItem(r)} /\ NewItem(r).view = r.view
      BY <1>3 DEF Created, NewItem
    <2>3. CASE r.view = "files"
      BY <1>0, <1>3, <2>1, <2>2, <2>3, ReloadFresh DEF Created
    <2>4. CASE r.view = "groups"
      <3>1. Send(rest, "list", "groups", session, Root, FALSE) /\ UNCHANGED <<path, shown>>
        BY <1>3, <2>4 DEF Created
      <3>2. "groups" \in Views
        BY DEF Views
      <3>. QED BY <1>0, <2>1, <2>2, <2>4, <3>1, <3>2, SendFresh
    <2>. QED BY <2>1, <2>3, <2>4
  <1>4. CASE Failed(r, rest)
    <2>1. \A v \in Views : shown'[v] = shown[v] \/ shown'[v] = NoList
      BY <1>0, <1>4 DEF Failed
    <2>. QED BY <1>0, <1>4, <2>1, QuietFresh DEF Failed
  <1>. QED BY <1>1, <1>2, <1>3, <1>4 DEF Deliver

\* The inductive invariant of the page: what the latest request of each view
\* asks for, and what its answer holds.
THEOREM LatestRequest == Spec => []FreshInv
  <1>1. Init => FreshInv
    BY DEF Init, FreshInv, FreshView, NoList, Views
  <1>2. TypeInv /\ TypeInv' /\ FreshInv /\ [Next]_vars => FreshInv'
    <2> SUFFICES ASSUME TypeInv, TypeInv', FreshInv, [Next]_vars PROVE FreshInv'
      OBVIOUS
    <2>1. CASE Clicks
      BY <2>1, ClicksFresh
    <2>2. CASE Elsewhere
      BY <2>2, QuietFresh DEF Elsewhere, page, net
    <2>3. CASE \E r \in inflight : Serve(r) \/ Lose(r) \/ Deliver(r)
      BY <2>3, ServerFresh, DeliverFresh
    <2>4. CASE UNCHANGED vars
      BY <2>4, QuietFresh DEF vars, page, net
    <2>. QED BY <2>1, <2>2, <2>3, <2>4 DEF Next
  <1>. QED BY <1>1, <1>2, TypeInvariant, PTL DEF Spec

\* The answer to the latest request of a view shows the open folder, and in it
\* all that has been confirmed, for any number of clicks, failures and pages.
THEOREM LatestIsFresh == Spec => []FreshView
  <1>1. FreshInv => FreshView
    BY DEF FreshInv
  <1>. QED BY <1>1, LatestRequest, PTL

----------------------------------------------------------------------------
\* What a spinner waits for.

Awaited(r) == /\ r.kind = "list" /\ r.view = "files"
              /\ r.n = newest["files"] /\ r.dir = Current(path)

\* A step that leaves folder and spinner alone, or puts a list in its place, and
\* keeps what is awaited under way.
LEMMA AwaitStep ==
  ASSUME SpinnerInv, failures' = 0 => failures = 0, UNCHANGED <<path, session>>,
         newest'["files"] = newest["files"],
         shown'["files"] # NoList \/
             (shown'["files"] = shown["files"] /\
                 \A r \in inflight : Awaited(r) =>
                     \E q \in inflight' : q.kind = r.kind /\ q.view = r.view /\
                                          q.n = r.n /\ q.dir = r.dir),
         failures' = 0 => \A q \in inflight' : q.phase # "failed"
  PROVE  SpinnerInv'
  BY DEF SpinnerInv, SpinnerAwaits, Healthy, Awaited

\* A reload sends what its spinner waits for.
LEMMA AwaitReload ==
  ASSUME TypeInv, SpinnerInv, NEW out \in SUBSET inflight, NEW p, NEW user, Reload(out, p, user),
         failures' = failures
  PROVE  SpinnerInv'
  <1>. DEFINE new == Request(sent + 1, "list", "files", user, Current(p), FALSE)
  <1>1. /\ path' = p /\ inflight' = out \cup {new} /\ newest'["files"] = sent + 1
    BY DEF Reload, Send, TypeInv, TypeOK, NetOK, Views
  <1>2. /\ new.kind = "list" /\ new.view = "files" /\ new.n = sent + 1
        /\ new.dir = Current(p) /\ new.phase = "sent"
    BY DEF Request
  <1>. HIDE DEF new
  <1>3. /\ new \in inflight' /\ new.kind = "list" /\ new.view = "files"
        /\ new.n = newest'["files"] /\ new.dir = Current(path')
    BY <1>1, <1>2
  <1>4. failures' = 0 => \A q \in inflight' : q.phase # "failed"
    BY <1>1, <1>2 DEF SpinnerInv
  <1>. QED BY <1>3, <1>4 DEF SpinnerInv, SpinnerAwaits

\* Any other request changes nothing about it.
LEMMA AwaitSend ==
  ASSUME TypeInv, SpinnerInv, NEW out \in SUBSET inflight,
         NEW kind, NEW view, NEW user, NEW dir, NEW folder, kind = "list" => view = "groups",
         Send(out, kind, view, user, dir, folder),
         \A r \in inflight : r.kind = "list" => r \in out,
         UNCHANGED <<path, shown, session, failures>>
  PROVE  SpinnerInv'
  <1>1. /\ inflight' = out \cup {Request(sent + 1, kind, view, user, dir, folder)}
        /\ newest'["files"] = newest["files"]
    BY DEF Send, TypeInv, TypeOK, NetOK, Views
  <1>2. Request(sent + 1, kind, view, user, dir, folder).phase = "sent"
    BY DEF Request
  <1>3. \A r \in inflight : Awaited(r) => r \in inflight'
    BY <1>1 DEF Awaited
  <1>4. failures' = 0 => \A q \in inflight' : q.phase # "failed"
    BY <1>1, <1>2 DEF SpinnerInv
  <1>. QED BY <1>1, <1>3, <1>4, AwaitStep

\* Every click either reloads or leaves the awaited request alone,
LEMMA ClicksAwait == TypeInv /\ SpinnerInv /\ Clicks => SpinnerInv'
  <1> SUFFICES ASSUME TypeInv, SpinnerInv, Clicks PROVE SpinnerInv'
    OBVIOUS
  <1>0. inflight \in SUBSET inflight /\ failures' = failures
    BY DEF Clicks, SubmitLogin, OpenFolder, CloseFolder, CreateFile, SelectTab, CreateGroup, Click
  <1>1. CASE OpenFolder \/ CloseFolder
    BY <1>0, <1>1, AwaitReload DEF OpenFolder, CloseFolder
  <1>2. CASE CreateFile \/ CreateGroup
    BY <1>0, <1>2, AwaitSend DEF CreateFile, CreateGroup, page
  <1>3. CASE SubmitLogin
    <2>1. PICK u \in Users : Send(inflight, "login", "files", u, Root, FALSE)
      BY <1>3 DEF SubmitLogin
    <2>. QED BY <1>0, <1>3, <2>1, AwaitSend DEF SubmitLogin, page
  <1>4. CASE SelectTab
    <2>1. PICK component \in Tabs : Activated(component)
      BY <1>4 DEF SelectTab
    <2>2. session' = session
      BY <1>4 DEF SelectTab
    <2>3. CASE component = "groups"
      BY <1>0, <2>1, <2>2, <2>3, AwaitSend DEF Activated
    <2>4. CASE component # "groups"
      <3>1. /\ UNCHANGED <<path, shown>> /\ newest'["files"] = newest["files"]
            /\ inflight \subseteq inflight'
            /\ \A q \in inflight' : q \in inflight \/ q.phase = "sent"
        <4>1. newest \in [Views -> 0..sent]
          BY DEF TypeInv, TypeOK, NetOK
        <4>2. CASE component = "files"
          BY <2>1, <4>2 DEF Activated, net
        <4>3. CASE component = "users"
          BY <2>1, <4>1, <4>3 DEF Activated, Request, Views
        <4>. QED BY <2>4, <4>2, <4>3 DEF Tabs
      <3>2. failures' = 0 => \A q \in inflight' : q.phase # "failed"
        BY <1>0, <3>1 DEF SpinnerInv
      <3>. QED BY <1>0, <2>2, <3>1, <3>2, AwaitStep
    <2>. QED BY <2>3, <2>4
  <1>. QED BY <1>1, <1>2, <1>3, <1>4 DEF Clicks

\* serving or losing it leaves it under way, under the same number,
LEMMA ServerAwaits ==
  ASSUME TypeInv, SpinnerInv, NEW r \in inflight, Serve(r) \/ Lose(r)
  PROVE  SpinnerInv'
  <1>1. PICK phase, rows :
           /\ phase \in {"answered", "failed"} /\ Become(r, phase, rows)
           /\ phase = "failed" => failures' # 0
    BY DEF Serve, Lose, TypeInv, TypeOK
  <1>. DEFINE s == [r EXCEPT !.phase = phase, !.rows = rows]
  <1>2. /\ s.kind = r.kind /\ s.view = r.view /\ s.n = r.n /\ s.dir = r.dir /\ s.phase = phase
    BY DEF TypeInv, TypeOK, NetOK, Requests
  <1>3. inflight' = (inflight \ {r}) \cup {s} /\ UNCHANGED <<path, shown, session, newest>>
    BY <1>1 DEF Become, Serve, Lose, page
  <1>4. failures' = 0 => failures = 0
    BY DEF Serve, Lose, counters, TypeInv, TypeOK
  <1>. HIDE DEF s
  <1>5. failures' = 0 => \A q \in inflight' : q.phase # "failed"
    BY <1>1, <1>2, <1>3, <1>4 DEF SpinnerInv
  <1>6. \A q \in inflight : \E t \in inflight' :
           t.kind = q.kind /\ t.view = q.view /\ t.n = q.n /\ t.dir = q.dir
    BY <1>2, <1>3
  <1>. QED BY <1>3, <1>4, <1>5, <1>6, AwaitStep

\* and its answer ends the spinner; others' answers do, or leave it be.
LEMMA DeliverAwaits ==
  ASSUME TypeInv, SpinnerInv, NEW r \in inflight, Deliver(r)
  PROVE  SpinnerInv'
  <1>. DEFINE rest == inflight \ {r}
  <1>0. /\ r \in Requests /\ rest \in SUBSET inflight /\ failures' = failures
        /\ failures' = 0 => \A q \in rest : q.phase # "failed"
        /\ shown \in [Views -> {NoList} \cup [n : Nat, user : Users, dir : Int,
                                             rows : SUBSET Item]]
    BY DEF TypeInv, TypeOK, NetOK, PageOK, Deliver, counters, SpinnerInv
  <1>1. CASE r.kind = "login" /\ LoggedIn(r, rest)
    <2>1. CASE session = NoSession
      BY <1>0, <1>1, <2>1, AwaitReload DEF LoggedIn
    <2>2. CASE session # NoSession
      <3>1. \A q \in inflight : Awaited(q) => q \in inflight'
        BY <1>1, <2>2 DEF LoggedIn, Awaited
      <3>2. UNCHANGED <<path, shown, newest>> /\ inflight' = rest
        BY <1>1, <2>2 DEF LoggedIn
      <3>. QED BY <1>0, <2>2, <3>1, <3>2 DEF SpinnerInv, SpinnerAwaits, Healthy, Awaited
    <2>. QED BY <2>1, <2>2
  <1>2. CASE r.kind = "list" /\ ListArrives(r, rest)
    <2>. DEFINE list == [n |-> r.n, user |-> r.user, dir |-> r.dir, rows |-> r.rows]
    <2>1. /\ shown' = [shown EXCEPT ![r.view] = list] /\ inflight' = rest
          /\ UNCHANGED <<session, path, newest>>
      BY <1>2 DEF ListArrives
    <2>2. CASE r.view = "files"
      <3>1. shown'["files"] = list
        BY <1>0, <2>1, <2>2 DEF Views
      <3>2. "dir" \in DOMAIN list /\ "dir" \notin DOMAIN NoList
        BY DEF NoList
      <3>3. shown'["files"] # NoList
        BY <3>1, <3>2
      <3>. QED BY <1>0, <2>1, <3>3, AwaitStep
    <2>3. CASE r.view # "files"
      <3>1. shown'["files"] = shown["files"]
        BY <1>0, <2>1, <2>3 DEF Views
      <3>2. \A q \in inflight : Awaited(q) => q \in inflight'
        BY <2>1, <2>3 DEF Awaited
      <3>. QED BY <1>0, <2>1, <3>1, <3>2, AwaitStep
    <2>. QED BY <2>2, <2>3
  <1>3. CASE r.kind = "create" /\ Created(r, rest)
    <2>1. CASE r.view = "files"
      BY <1>0, <1>3, <2>1, AwaitReload DEF Created
    <2>2. CASE r.view # "files"
      <3>1. \A q \in inflight : q.kind = "list" => q \in rest
        BY <1>3
      <3>. QED BY <1>0, <1>3, <2>2, <3>1, AwaitSend DEF Created
    <2>. QED BY <2>1, <2>2
  <1>4. CASE r.phase = "failed" /\ Failed(r, rest)
    BY <1>0, <1>4 DEF Failed, SpinnerInv, SpinnerAwaits, Healthy
  <1>. QED BY <1>1, <1>2, <1>3, <1>4 DEF Deliver

\* The inductive invariant of the spinner.
LEMMA SpinnerInvariant == Spec => []SpinnerInv
  <1>1. Init => SpinnerInv
    BY DEF Init, SpinnerInv, SpinnerAwaits, Healthy
  <1>2. TypeInv /\ SpinnerInv /\ [Next]_vars => SpinnerInv'
    <2> SUFFICES ASSUME TypeInv, SpinnerInv, [Next]_vars PROVE SpinnerInv'
      OBVIOUS
    <2>1. CASE Elsewhere
      BY <2>1, AwaitStep DEF Elsewhere, page, net, SpinnerInv
    <2>2. CASE UNCHANGED vars
      BY <2>2, AwaitStep DEF vars, page, net, counters, SpinnerInv
    <2>3. CASE \E r \in inflight : Serve(r) \/ Lose(r) \/ Deliver(r)
      BY <2>3, ServerAwaits, DeliverAwaits
    <2>. QED BY <2>1, <2>2, <2>3, ClicksAwait DEF Next
  <1>. QED BY <1>1, <1>2, TypeInvariant, PTL DEF Spec

\* No click, no overtaken answer and no second login takes the list away that a
\* spinner waits for, for any number of them.
THEOREM SpinnersAwaitAnswers == Spec => []SpinnerAwaits
  <1>1. SpinnerInv => SpinnerAwaits
    BY DEF SpinnerInv
  <1>. QED BY <1>1, SpinnerInvariant, PTL
=============================================================================
