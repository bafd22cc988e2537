---------------------------- MODULE Users_proofs ----------------------------
(***************************************************************************)
(* What requests that interleave do to accounts and sessions, for any      *)
(* accounts, any request bodies and any number of requests in flight.      *)
(***************************************************************************)
EXTENDS Users, SequenceTheorems, TLAPS

Account ==
    [email : Emails, role : Roles, disabled : BOOLEAN,
     ext : ExternalIds \cup {None}, linked : BOOLEAN, grants : SUBSET Customers]

\* What a request may still have to do.
Plans ==
    [invite |-> {<<>>, <<"grants">>, <<"insert">>, <<"insert", "grants">>},
     update |-> {<<>>, <<"admin">>, <<"grants">>, <<"grants", "admin">>},
     delete |-> {<<>>, <<"remove">>, <<"get", "remove">>},
     create |-> {<<>>, <<"insert">>},
     put |-> {<<>>, <<"admin">>, <<"attrs">>, <<"attrs", "admin">>,
              <<"load", "attrs">>, <<"load", "attrs", "admin">>},
     patch |-> {<<>>, <<"admin">>, <<"attrs">>, <<"attrs", "admin">>, <<"load">>,
                <<"load", "admin">>, <<"load", "attrs">>, <<"load", "attrs", "admin">>},
     login |-> {<<>>, <<"save">>, <<"stamp", "save">>, <<"read", "stamp", "save">>}]

\* The step a request is at.
Front(todo) == IF todo = <<>> THEN "done" ELSE Head(todo)
Ahead(r) == Front(r.todo)

\* A request is a record, whatever its step keeps in snap.
Fields == {"op", "id", "body", "todo", "snap", "since", "wrote", "code"}
IsRequest(r) == r = [f \in Fields |-> r[f]]

\* What a refused request may have written.
Leaves(op) ==
    CASE op = "invite" -> {"account"}
      [] op = "update" -> {"grants"}
      [] op \in {"put", "patch"} -> {"attrs"}
      [] op = "login" -> {"login"}
      [] OTHER -> {}

\* The body is one the handler let through.
BodyValid(op, b) ==
    /\ b \in Bodies
    /\ op \in {"invite", "create", "login"} => b.email \in Emails
    /\ op = "invite" => b.role \in Roles
    /\ op = "put" => b.attrs
    /\ op = "patch" => b.role = None

\* A request that goes on has not been refused, and what it has written it may
\* leave behind, unless no later step can refuse it.
Goes(r) ==
    /\ r.code \in Nat
    /\ Ahead(r) # "done" => r.code < 400
    /\ \/ r.wrote \subseteq Leaves(r.op)
       \/ Ahead(r) = "done" /\ r.code < 400
       \/ Ahead(r) = "save"

\* What the step ahead needs of the account it is about and of what was read.
Equipped(r, unused) ==
    /\ Ahead(r) \in {"grants", "admin", "get", "remove", "load", "attrs", "save"} =>
          r.id \in Ids \ unused
    /\ Ahead(r) = "load" =>
          (r.body.attrs <=> r.todo \in {<<"load", "attrs">>, <<"load", "attrs", "admin">>})
    /\ Ahead(r) \in {"admin", "remove"} /\ r.snap # None => r.snap \subseteq {r.id}
    /\ Ahead(r) = "attrs" => r.snap # None /\ r.snap \in [ext : ExternalIds \cup {None}]
    /\ Ahead(r) = "stamp" =>
          /\ r.id \in (Ids \ unused) \cup {None} /\ r.snap # None
          /\ r.id # None => r.snap.role \in Roles

Sound(r, unused) ==
    /\ IsRequest(r) /\ r.op \in DOMAIN Plans /\ r.todo \in Plans[r.op]
    /\ BodyValid(r.op, r.body) /\ Goes(r) /\ Equipped(r, unused)

\* An enabled admin is left once the account u has the role and disabled of b.
AdminAfterUpdate(rows, u, b) ==
    \E v \in DOMAIN rows :
        /\ (IF v = u /\ b.role # None THEN b.role ELSE rows[v].role) = "admin"
        /\ ~(IF v = u /\ b.disabled # None THEN b.disabled ELSE rows[v].disabled)

\* An enabled admin is left without the account u.
AdminWithout(rows, u) == \E v \in DOMAIN rows \ {u} : EnabledAdmin(rows, v)

\* The request r is in a transaction that holds the row lock of u.
Holder(r, u) == Ahead(r) \in {"admin", "remove"} /\ r.snap # None /\ r.id = u

\* What a transaction has read still holds for it, unless it was told.
Current(r, rows, tokens, sessions, lates) ==
    LET u == r.id IN
    /\ Ahead(r) = "admin" /\ r.snap # None =>
          /\ u \in DOMAIN rows
          /\ r.since = {} => AdminAfterUpdate(rows, u, r.body)
          /\ r.body.disabled = TRUE => sessions \cap {u} \subseteq r.snap \cup lates
    /\ Ahead(r) = "remove" /\ r.snap # None =>
          /\ u \in DOMAIN rows /\ u \notin tokens
          /\ r.since = {} => AdminWithout(rows, u)
          /\ sessions \cap {u} \subseteq r.snap \cup lates
    /\ Ahead(r) = "grants" /\ r.snap # None /\ u \notin r.since /\ u \in DOMAIN rows =>
          rows[u].grants \subseteq r.snap
    /\ Ahead(r) = "attrs" /\ r.op = "patch" /\ u \notin r.since /\ u \in DOMAIN rows =>
          r.snap.ext = rows[u].ext
    /\ Ahead(r) = "stamp" /\ u # None /\ u \in DOMAIN rows =>
          /\ rows[u].email = r.body.email
          /\ u \notin r.since => r.snap.role = rows[u].role
    /\ Ahead(r) = "save" /\ u \notin r.since => u \in DOMAIN rows /\ ~rows[u].disabled

Tables ==
    /\ TypeOK /\ user \in [DOMAIN user -> Account] /\ skew \in BOOLEAN
    /\ req = [s \in Slots |-> req[s]]

Requests ==
    \A s \in Slots : req[s] # None =>
        Sound(req[s], fresh) /\ Current(req[s], user, token, session, late)

\* A row lock has one holder.
Exclusive ==
    \A s, t \in Slots, u \in Ids :
        req[s] # None /\ req[t] # None /\ Holder(req[s], u) /\ Holder(req[t], u) => s = t

IInv == Tables /\ Requests /\ Exclusive /\ EnabledAdminRemains /\ DisabledHasNoSession

-----------------------------------------------------------------------------
(* Operators.                                                              *)

\* Head and Tail of short sequences.
LEMMA ShortSequences ==
  /\ \A a : <<a>> # <<>> /\ Head(<<a>>) = a /\ Tail(<<a>>) = <<>>
  /\ \A a, b : <<a, b>> # <<>> /\ Head(<<a, b>>) = a /\ Tail(<<a, b>>) = <<b>>
  /\ \A a, b, c : /\ <<a, b, c>> # <<>> /\ Head(<<a, b, c>>) = a
                  /\ Tail(<<a, b, c>>) = <<b, c>>
<1>1. ASSUME NEW a PROVE <<a>> # <<>> /\ Head(<<a>>) = a /\ Tail(<<a>>) = <<>>
  OBVIOUS
<1>2. ASSUME NEW a, NEW b
      PROVE  <<a, b>> # <<>> /\ Head(<<a, b>>) = a /\ Tail(<<a, b>>) = <<b>>
  OBVIOUS
<1>3. ASSUME NEW a, NEW b, NEW c
      PROVE  /\ <<a, b, c>> # <<>> /\ Head(<<a, b, c>>) = a
             /\ Tail(<<a, b, c>>) = <<b, c>>
  OBVIOUS
<1> QED BY <1>1, <1>2, <1>3, Zenon

\* The order of the steps of an operation.
Order(op, h, n) ==
    /\ h = "insert" => /\ op \in {"invite", "create"} /\ n \in {"done", "grants"}
                       /\ op = "create" => n = "done"
    /\ h = "grants" => /\ op \in {"invite", "update"} /\ n \in {"done", "admin"}
                       /\ op = "invite" => n = "done"
    /\ h = "admin" => op \in {"update", "put", "patch"} /\ n = "done"
    /\ h = "get" => op = "delete" /\ n = "remove"
    /\ h = "remove" => op = "delete" /\ n = "done"
    /\ h = "load" => op \in {"put", "patch"} /\ n \in {"done", "attrs", "admin"}
    /\ h = "attrs" => op \in {"put", "patch"} /\ n \in {"done", "admin"}
    /\ h = "read" => op = "login" /\ n = "stamp"
    /\ h = "stamp" => op = "login" /\ n = "save"
    /\ h = "save" => op = "login" /\ n = "done"

\* A request goes on in the order of its operation.
LEMMA PlanOrder ==
  ASSUME NEW op \in DOMAIN Plans, NEW p \in Plans[op], p # <<>>
  PROVE  /\ Tail(p) \in Plans[op] /\ <<>> \in Plans[op]
         /\ Front(p) = Head(p) /\ Order(op, Front(p), Front(Tail(p)))
         /\ Front(p) = "load" =>
              (p \in {<<"load", "attrs">>, <<"load", "attrs", "admin">>}
                 <=> Front(Tail(p)) = "attrs")
<1>1. op \in {"invite", "update", "delete", "create", "put", "patch", "login"}
  BY DEF Plans
<1>2. CASE op = "invite"
  <2>1. Plans[op] = {<<>>, <<"grants">>, <<"insert">>, <<"insert", "grants">>}
    BY <1>2 DEF Plans
  <2>2. CASE p = <<"grants">>
    BY <1>2, <2>1, <2>2, ShortSequences DEF Front, Order
  <2>3. CASE p = <<"insert">>
    BY <1>2, <2>1, <2>3, ShortSequences DEF Front, Order
  <2>4. CASE p = <<"insert", "grants">>
    BY <1>2, <2>1, <2>4, ShortSequences DEF Front, Order
  <2> QED BY <2>1, <2>2, <2>3, <2>4
<1>3. CASE op = "update"
  <2>1. Plans[op] = {<<>>, <<"admin">>, <<"grants">>, <<"grants", "admin">>}
    BY <1>3 DEF Plans
  <2>2. CASE p = <<"admin">>
    BY <1>3, <2>1, <2>2, ShortSequences DEF Front, Order
  <2>3. CASE p = <<"grants">>
    BY <1>3, <2>1, <2>3, ShortSequences DEF Front, Order
  <2>4. CASE p = <<"grants", "admin">>
    BY <1>3, <2>1, <2>4, ShortSequences DEF Front, Order
  <2> QED BY <2>1, <2>2, <2>3, <2>4
<1>4. CASE op = "delete"
  <2>1. Plans[op] = {<<>>, <<"remove">>, <<"get", "remove">>}
    BY <1>4 DEF Plans
  <2>2. CASE p = <<"remove">>
    BY <1>4, <2>1, <2>2, ShortSequences DEF Front, Order
  <2>3. CASE p = <<"get", "remove">>
    BY <1>4, <2>1, <2>3, ShortSequences DEF Front, Order
  <2> QED BY <2>1, <2>2, <2>3
<1>5. CASE op = "create"
  <2>1. Plans[op] = {<<>>, <<"insert">>}
    BY <1>5 DEF Plans
  <2>2. CASE p = <<"insert">>
    BY <1>5, <2>1, <2>2, ShortSequences DEF Front, Order
  <2> QED BY <2>1, <2>2
<1>6. CASE op = "put"
  <2>1. Plans[op] = {<<>>, <<"admin">>, <<"attrs">>, <<"attrs", "admin">>,
                     <<"load", "attrs">>, <<"load", "attrs", "admin">>}
    BY <1>6 DEF Plans
  <2>2. CASE p = <<"admin">>
    BY <1>6, <2>1, <2>2, ShortSequences DEF Front, Order
  <2>3. CASE p = <<"attrs">>
    BY <1>6, <2>1, <2>3, ShortSequences DEF Front, Order
  <2>4. CASE p = <<"attrs", "admin">>
    BY <1>6, <2>1, <2>4, ShortSequences DEF Front, Order
  <2>5. CASE p = <<"load", "attrs">>
    BY <1>6, <2>1, <2>5, ShortSequences DEF Front, Order
  <2>6. CASE p = <<"load", "attrs", "admin">>
    BY <1>6, <2>1, <2>6, ShortSequences DEF Front, Order
  <2> QED BY <2>1, <2>2, <2>3, <2>4, <2>5, <2>6
<1>7. CASE op = "patch"
  <2>1. Plans[op] = {<<>>, <<"admin">>, <<"attrs">>, <<"attrs", "admin">>, <<"load">>,
                     <<"load", "admin">>, <<"load", "attrs">>, <<"load", "attrs", "admin">>}
    BY <1>7 DEF Plans
  <2>2. CASE p = <<"admin">>
    BY <1>7, <2>1, <2>2, ShortSequences DEF Front, Order
  <2>3. CASE p = <<"attrs">>
    BY <1>7, <2>1, <2>3, ShortSequences DEF Front, Order
  <2>4. CASE p = <<"attrs", "admin">>
    BY <1>7, <2>1, <2>4, ShortSequences DEF Front, Order
  <2>5. CASE p = <<"load">>
    BY <1>7, <2>1, <2>5, ShortSequences DEF Front, Order
  <2>6. CASE p = <<"load", "admin">>
    BY <1>7, <2>1, <2>6, ShortSequences DEF Front, Order
  <2>7. CASE p = <<"load", "attrs">>
    BY <1>7, <2>1, <2>7, ShortSequences DEF Front, Order
  <2>8. CASE p = <<"load", "attrs", "admin">>
    BY <1>7, <2>1, <2>8, ShortSequences DEF Front, Order
  <2> QED BY <2>1, <2>2, <2>3, <2>4, <2>5, <2>6, <2>7, <2>8
<1>8. CASE op = "login"
  <2>1. Plans[op] = {<<>>, <<"save">>, <<"stamp", "save">>, <<"read", "stamp", "save">>}
    BY <1>8 DEF Plans
  <2>2. CASE p = <<"save">>
    BY <1>8, <2>1, <2>2, ShortSequences DEF Front, Order
  <2>3. CASE p = <<"stamp", "save">>
    BY <1>8, <2>1, <2>3, ShortSequences DEF Front, Order
  <2>4. CASE p = <<"read", "stamp", "save">>
    BY <1>8, <2>1, <2>4, ShortSequences DEF Front, Order
  <2> QED BY <2>1, <2>2, <2>3, <2>4
<1> QED BY <1>1, <1>2, <1>3, <1>4, <1>5, <1>6, <1>7, <1>8

\* A request, field by field.
Is(r, op, id, body, todo, snap, since, wrote, code) ==
    /\ IsRequest(r) /\ r.op = op /\ r.id = id /\ r.body = body /\ r.todo = todo
    /\ r.snap = snap /\ r.since = since /\ r.wrote = wrote /\ r.code = code

\* Requests begin as records.
LEMMA RequestIs ==
  ASSUME NEW op, NEW id, NEW body, NEW todo, NEW code
  PROVE  Is(Request(op, id, body, todo, code), op, id, body, todo, None, {}, {}, code)
<1> DEFINE r == Request(op, id, body, todo, code)
<1>1. IsRequest(r)
  BY DEF Request, IsRequest, Fields
<1>2. /\ r.op = op /\ r.id = id /\ r.body = body /\ r.todo = todo
      /\ r.snap = None /\ r.since = {} /\ r.wrote = {} /\ r.code = code
  BY DEF Request
<1> QED BY <1>1, <1>2, Zenon DEF Is

\* Changing fields of a request.
LEMMA FieldUpdate ==
  ASSUME NEW r, IsRequest(r)
  PROVE  /\ \A v : LET q == [r EXCEPT !.id = v]
                   IN  Is(q, r.op, v, r.body, r.todo, r.snap, r.since, r.wrote, r.code)
         /\ \A v : LET q == [r EXCEPT !.todo = v]
                   IN  Is(q, r.op, r.id, r.body, v, r.snap, r.since, r.wrote, r.code)
         /\ \A v : LET q == [r EXCEPT !.snap = v]
                   IN  Is(q, r.op, r.id, r.body, r.todo, v, r.since, r.wrote, r.code)
         /\ \A v : LET q == [r EXCEPT !.since = v]
                   IN  Is(q, r.op, r.id, r.body, r.todo, r.snap, v, r.wrote, r.code)
         /\ \A v : LET q == [r EXCEPT !.wrote = v]
                   IN  Is(q, r.op, r.id, r.body, r.todo, r.snap, r.since, v, r.code)
         /\ \A v : LET q == [r EXCEPT !.code = v]
                   IN  Is(q, r.op, r.id, r.body, r.todo, r.snap, r.since, r.wrote, v)
<1>1. ASSUME NEW f \in Fields, NEW v
      PROVE  /\ IsRequest([r EXCEPT ![f] = v]) /\ [r EXCEPT ![f] = v][f] = v
             /\ \A g \in Fields : g # f => [r EXCEPT ![f] = v][g] = r[g]
  BY Zenon DEF IsRequest
<1>2. ASSUME NEW v
      PROVE  /\ Is([r EXCEPT !.id = v], r.op, v, r.body, r.todo, r.snap, r.since, r.wrote, r.code)
             /\ Is([r EXCEPT !.todo = v], r.op, r.id, r.body, v, r.snap, r.since, r.wrote, r.code)
             /\ Is([r EXCEPT !.snap = v], r.op, r.id, r.body, r.todo, v, r.since, r.wrote, r.code)
  BY <1>1 DEF Is, Fields
<1>3. ASSUME NEW v
      PROVE  /\ Is([r EXCEPT !.since = v], r.op, r.id, r.body, r.todo, r.snap, v, r.wrote, r.code)
             /\ Is([r EXCEPT !.wrote = v], r.op, r.id, r.body, r.todo, r.snap, r.since, v, r.code)
             /\ Is([r EXCEPT !.code = v], r.op, r.id, r.body, r.todo, r.snap, r.since, r.wrote, v)
  BY <1>1 DEF Is, Fields
<1> QED BY <1>2, <1>3, Zenon

\* Done takes one step off the list.
LEMMA DoneIs ==
  ASSUME NEW s \in Slots, IsRequest(req[s]), NEW what
  PROVE  LET r == req[s]
         IN  Is(Done(s, what), r.op, r.id, r.body, Tail(r.todo), None, r.since,
                r.wrote \cup what, r.code)
<1> DEFINE r == req[s]
           a == [r EXCEPT !.todo = Tail(r.todo)]
           b == [a EXCEPT !.snap = None]
           c == [b EXCEPT !.wrote = r.wrote \cup what]
<1>1. Is(a, r.op, r.id, r.body, Tail(r.todo), r.snap, r.since, r.wrote, r.code)
  BY FieldUpdate, Zenon
<1>2. Is(b, a.op, a.id, a.body, a.todo, None, a.since, a.wrote, a.code)
  <2>1. IsRequest(a)
    BY <1>1 DEF Is
  <2> HIDE DEF a
  <2> QED BY <2>1, FieldUpdate, Zenon
<1>3. Is(c, b.op, b.id, b.body, b.todo, b.snap, b.since, r.wrote \cup what, b.code)
  <2>1. IsRequest(b)
    BY <1>2 DEF Is
  <2> HIDE DEF b
  <2> QED BY <2>1, FieldUpdate, Zenon
<1>4. Done(s, what) = c
  <2>1. a.wrote = r.wrote /\ b.wrote = a.wrote
    BY <1>1, <1>2, Zenon DEF Is
  <2> QED BY <2>1, Zenon DEF Done
<1> HIDE DEF a, b, c
<1> QED BY <1>1, <1>2, <1>3, <1>4, Zenon DEF Is

\* The request a step works for.
LEMMA AtStep ==
  ASSUME IInv, NEW s \in Slots, NEW h, At(s, h)
  PROVE  LET r == req[s]
         IN  /\ r # None /\ Ahead(r) = h /\ Front(r.todo) = h /\ r.todo # <<>> /\ IsRequest(r)
             /\ Sound(r, fresh) /\ Current(r, user, token, session, late)
             /\ Tail(r.todo) \in Plans[r.op] /\ <<>> \in Plans[r.op]
             /\ Order(r.op, h, Front(Tail(r.todo)))
             /\ h = "load" => (r.body.attrs <=> Front(Tail(r.todo)) = "attrs")
<1> DEFINE r == req[s]
<1>1. r # None /\ r.todo # <<>> /\ Front(r.todo) = h
  BY DEF At, Front
<1>2. Sound(r, fresh) /\ Current(r, user, token, session, late)
  BY <1>1 DEF IInv, Requests
<1>3. r.op \in DOMAIN Plans /\ r.todo \in Plans[r.op] /\ IsRequest(r) /\ Equipped(r, fresh)
  BY <1>2 DEF Sound
<1>4. /\ Tail(r.todo) \in Plans[r.op] /\ <<>> \in Plans[r.op]
      /\ Order(r.op, h, Front(Tail(r.todo)))
      /\ h = "load" => (r.todo \in {<<"load", "attrs">>, <<"load", "attrs", "admin">>}
                          <=> Front(Tail(r.todo)) = "attrs")
  BY <1>1, <1>3, PlanOrder
<1>5. Ahead(r) = h
  BY <1>1 DEF Ahead
<1>6. h = "load" => (r.body.attrs <=> r.todo \in {<<"load", "attrs">>, <<"load", "attrs", "admin">>})
  BY <1>3, <1>5, Zenon DEF Equipped
<1> QED BY <1>1, <1>2, <1>3, <1>4, <1>5, <1>6, Zenon

-----------------------------------------------------------------------------
(* Steps that change one request and no table.                             *)

\* A step that only changes its request keeps the invariant if the request stays
\* sound and takes no row lock that another holds.
LEMMA LocalStep ==
  ASSUME IInv, NEW s \in Slots, NEW r,
         req' = [req EXCEPT ![s] = r],
         UNCHANGED <<user, fresh, session, token, late, skew>>,
         r # None => Sound(r, fresh) /\ Current(r, user, token, session, late),
         r # None => \A u \in Ids : Holder(r, u) => ~Locked(u)
  PROVE  IInv'
<1>1. req'[s] = r /\ \A t \in Slots \ {s} : req'[t] = req[t]
  BY Zenon DEF IInv, Tables
<1>2. Tables'
  <2>1. req' = [t \in Slots |-> req'[t]]
    BY Zenon DEF IInv, Tables
  <2> QED BY <2>1 DEF IInv, Tables, TypeOK
<1>3. Requests'
  BY <1>1, Zenon DEF IInv, Requests
<1>4. Exclusive'
  <2> SUFFICES ASSUME NEW a \in Slots, NEW b \in Slots, NEW u \in Ids, req'[a] # None,
                      req'[b] # None, Holder(req'[a], u), Holder(req'[b], u)
               PROVE  a = b
    BY Zenon DEF Exclusive
  <2>1. ASSUME NEW t \in Slots, req[t] # None, Holder(req[t], u) PROVE Locked(u)
    BY <2>1 DEF Locked, Holds, At, Holder, Ahead, Front
  <2>2. CASE a # s /\ b # s
    BY <1>1, <2>2, Zenon DEF IInv, Exclusive
  <2>3. CASE a = s /\ b # s
    BY <1>1, <2>1, <2>3, Zenon
  <2>4. CASE a # s /\ b = s
    BY <1>1, <2>1, <2>4, Zenon
  <2> QED BY <2>2, <2>3, <2>4, Zenon
<1>5. EnabledAdminRemains' /\ DisabledHasNoSession'
  BY DEF IInv, EnabledAdminRemains, DisabledHasNoSession, EnabledAdmin
<1> QED BY <1>2, <1>3, <1>4, <1>5 DEF IInv

\* A request is refused, unless it is about to save a session.
LEMMA AnswerStep ==
  ASSUME IInv, NEW s \in Slots, NEW h, At(s, h),
         h \notin {"done", "save"}, NEW code \in Nat, Answer(s, code)
  PROVE  IInv'
<1> DEFINE r == req[s]
           x == [r EXCEPT !.todo = <<>>]
           y == [x EXCEPT !.snap = None]
           a == [y EXCEPT !.code = code]
<1>1. /\ r # None /\ IsRequest(r) /\ Sound(r, fresh) /\ Ahead(r) = h
      /\ r.todo # <<>> /\ <<>> \in Plans[r.op] /\ Order(r.op, h, Front(Tail(r.todo)))
  BY AtStep
<1>2. req' = [req EXCEPT ![s] = a] /\ UNCHANGED <<user, fresh, session, token, late, skew>>
  <2>1. req' = [req EXCEPT ![s].todo = <<>>, ![s].snap = None, ![s].code = code]
        /\ UNCHANGED <<user, fresh, session, token, late, skew>>
    BY DEF Answer
  <2>2. req = [t \in Slots |-> req[t]]
    BY DEF IInv, Tables
  <2> QED BY <2>1, <2>2, Zenon
<1>3. Is(a, r.op, r.id, r.body, <<>>, None, r.since, r.wrote, code)
  <2>1. Is(x, r.op, r.id, r.body, <<>>, r.snap, r.since, r.wrote, r.code)
    BY <1>1, FieldUpdate, Zenon
  <2>2. IsRequest(x)
    BY <2>1 DEF Is
  <2> HIDE DEF x
  <2>3. Is(y, x.op, x.id, x.body, x.todo, None, x.since, x.wrote, x.code)
    BY <2>2, FieldUpdate, Zenon
  <2>4. IsRequest(y)
    BY <2>3 DEF Is
  <2> HIDE DEF y
  <2>5. Is(a, y.op, y.id, y.body, y.todo, y.snap, y.since, y.wrote, code)
    BY <2>4, FieldUpdate, Zenon
  <2> HIDE DEF a
  <2> QED BY <2>1, <2>3, <2>5, Zenon DEF Is
<1> HIDE DEF a
<1>4. Ahead(a) = "done"
  BY <1>3 DEF Is, Ahead, Front
<1>5. r.wrote \subseteq Leaves(r.op)
  <2>1. Goes(r)
    BY <1>1 DEF Sound
  <2> QED BY <1>1, <2>1, Zenon DEF Goes
<1>6. Sound(a, fresh)
  BY <1>1, <1>3, <1>4, <1>5 DEF Is, Sound, Goes, Equipped
<1>7. Current(a, user, token, session, late) /\ \A u \in Ids : ~Holder(a, u)
  BY <1>4 DEF Current, Holder
<1> QED BY <1>2, <1>6, <1>7, LocalStep

-----------------------------------------------------------------------------
(* Requests begin.                                                         *)

\* The first admins are signed in, and no request has begun.
LEMMA InitHolds == Init => IInv
<1> SUFFICES ASSUME Init PROVE IInv
  OBVIOUS
<1> USE ConstantsTyped
<1>1. DOMAIN user = DOMAIN First /\ session = DOMAIN First /\ fresh = Ids \ DOMAIN First
      /\ token = {} /\ late = {} /\ skew = FALSE /\ req = [s \in Slots |-> None]
  BY DEF Init
<1>2. \A u \in DOMAIN First :
         user[u] = [email |-> First[u], role |-> "admin", disabled |-> FALSE, ext |-> None,
                    linked |-> TRUE, grants |-> {}]
  BY Zenon DEF Init, Row
<1>3. user = [u \in DOMAIN user |-> user[u]]
  BY Zenon DEF Init
<1>4. \A u \in DOMAIN First : /\ user[u] \in Account /\ user[u].role = "admin"
                              /\ user[u].disabled = FALSE /\ user[u].email = First[u]
                              /\ user[u].ext = None
  <2> SUFFICES ASSUME NEW u \in DOMAIN First
               PROVE  /\ user[u] \in Account /\ user[u].role = "admin"
                      /\ user[u].disabled = FALSE /\ user[u].email = First[u]
                      /\ user[u].ext = None
    BY Zenon
  <2>1. First[u] \in Emails /\ "admin" \in Roles /\ FALSE \in BOOLEAN /\ TRUE \in BOOLEAN
        /\ {} \in SUBSET Customers /\ None \in ExternalIds \cup {None}
    BY DEF Roles
  <2>2. user[u] = [email |-> First[u], role |-> "admin", disabled |-> FALSE, ext |-> None,
                   linked |-> TRUE, grants |-> {}]
    BY <1>2, Zenon
  <2>3. user[u] \in Account
    BY <2>1, <2>2, SMT DEF Account
  <2>4. user[u].role = "admin" /\ user[u].email = First[u] /\ user[u].ext = None
    BY <2>2, SMT
  <2>5. user[u].disabled = FALSE
    BY <2>2
  <2> QED BY <2>3, <2>4, <2>5, Zenon
<1>5. user \in [DOMAIN user -> Account]
  BY <1>1, <1>3, <1>4, Zenon
<1>6. TypeOK
  <2>1. \A u \in DOMAIN user :
          /\ user[u].email \in Emails /\ user[u].role \in Roles
          /\ user[u].disabled \in BOOLEAN /\ user[u].grants \subseteq Customers
    BY <1>1, <1>4 DEF Account
  <2>2. \A u, v \in DOMAIN user :
          u # v => /\ user[u].email # user[v].email
                   /\ user[u].ext = user[v].ext => user[u].ext = None
    BY <1>1, <1>4 DEF IsInjective
  <2>3. DOMAIN user \subseteq Ids \ fresh /\ fresh \subseteq Ids
        /\ session \cup token \subseteq Ids \ fresh /\ late \subseteq session
        /\ token \subseteq DOMAIN user
    BY <1>1
  <2> QED BY <2>1, <2>2, <2>3 DEF TypeOK
<1>7. Tables
  BY <1>1, <1>5, <1>6, Zenon DEF Tables
<1>8. Requests /\ Exclusive
  BY <1>1, Zenon DEF Requests, Exclusive
<1>9. EnabledAdminRemains /\ DisabledHasNoSession
  BY <1>1, <1>4 DEF EnabledAdminRemains, DisabledHasNoSession, EnabledAdmin
<1> QED BY <1>7, <1>8, <1>9 DEF IInv

\* A request begins with a plan of its operation, about an account that exists
\* or existed.
Enters(op, id, b, todo, code) ==
    /\ op \in DOMAIN Plans /\ todo \in Plans[op] /\ code \in Nat /\ BodyValid(op, b)
    /\ Front(todo) \notin {"attrs", "stamp", "save"}
    /\ Front(todo) = "done" \/ code < 400
    /\ Front(todo) \in {"done", "insert", "read"} \/ id \in Ids \ fresh
    /\ Front(todo) = "load" =>
          (b.attrs <=> todo \in {<<"load", "attrs">>, <<"load", "attrs", "admin">>})

\* The arrival of a request keeps the invariant.
LEMMA BeginStep ==
  ASSUME IInv, NEW s \in Slots, NEW op, NEW id, NEW b, NEW todo, NEW code,
         Begin(s, Request(op, id, b, todo, code)), Enters(op, id, b, todo, code)
  PROVE  IInv'
<1> USE DEF Enters
<1> DEFINE r == Request(op, id, b, todo, code)
<1>1. req' = [req EXCEPT ![s] = r] /\ UNCHANGED <<user, fresh, session, token, late, skew>>
  BY DEF Begin
<1>2. Is(r, op, id, b, todo, None, {}, {}, code)
  BY RequestIs
<1> HIDE DEF r
<1>3. Ahead(r) = Front(todo)
  BY <1>2 DEF Is, Ahead
<1>4. Goes(r)
  BY <1>2, <1>3 DEF Is, Goes
<1>5. Equipped(r, fresh)
  BY <1>2, <1>3, Zenon DEF Is, Equipped
<1>6. Sound(r, fresh)
  BY <1>2, <1>4, <1>5 DEF Is, Sound
<1>7. Current(r, user, token, session, late)
  BY <1>2, <1>3, Zenon DEF Is, Current
<1>8. \A u \in Ids : ~Holder(r, u)
  BY <1>2 DEF Is, Holder
<1> QED BY <1>1, <1>6, <1>7, <1>8, LocalStep

\* Lists of steps.
LEMMA ShortLists ==
  /\ \A a, b : <<a>> \o <<b>> = <<a, b>> /\ <<a>> \o <<>> = <<a>>
  /\ \A a : <<>> \o <<a>> = <<a>> /\ <<>> \o <<>> = <<>>
  /\ \A a, b, c : <<a, b>> \o <<c>> = <<a, b, c>> /\ <<a, b>> \o <<>> = <<a, b>>
<1>1. ASSUME NEW a, NEW b PROVE <<a>> \o <<b>> = <<a, b>> /\ <<a>> \o <<>> = <<a>>
  <2>1. <<a>> \in Seq({a, b}) /\ <<b>> \in Seq({a, b}) /\ <<a, b>> \in Seq({a, b})
    OBVIOUS
  <2>2. /\ <<a>> \o <<b>> \in Seq({a, b}) /\ Len(<<a>> \o <<b>>) = 2
        /\ (<<a>> \o <<b>>)[1] = a /\ (<<a>> \o <<b>>)[2] = b
    BY <2>1, ConcatProperties
  <2>3. <<a>> \o <<b>> = <<a, b>>
    <3>1. \A i \in 1 .. Len(<<a>> \o <<b>>) : (<<a>> \o <<b>>)[i] = <<a, b>>[i]
      <4>1. \A i \in 1 .. 2 : i = 1 \/ i = 2
        OBVIOUS
      <4>2. <<a, b>>[1] = a /\ <<a, b>>[2] = b
        OBVIOUS
      <4> QED BY <2>2, <4>1, <4>2, Zenon
    <3>2. Len(<<a, b>>) = 2
      OBVIOUS
    <3> QED BY <2>1, <2>2, <3>1, <3>2, SeqEqual, Zenon
  <2>4. <<a>> \o <<>> = <<a>>
    BY <2>1, ConcatEmptySeq
  <2> QED BY <2>3, <2>4
<1>2. ASSUME NEW a PROVE <<>> \o <<a>> = <<a>> /\ <<>> \o <<>> = <<>>
  OBVIOUS
<1>3. ASSUME NEW a, NEW b, NEW c
      PROVE  <<a, b>> \o <<c>> = <<a, b, c>> /\ <<a, b>> \o <<>> = <<a, b>>
  <2>1. <<a, b>> \in Seq({a, b, c}) /\ <<c>> \in Seq({a, b, c}) /\ <<a, b, c>> \in Seq({a, b, c})
    OBVIOUS
  <2>2. /\ <<a, b>> \o <<c>> \in Seq({a, b, c}) /\ Len(<<a, b>> \o <<c>>) = 3
        /\ (<<a, b>> \o <<c>>)[1] = a /\ (<<a, b>> \o <<c>>)[2] = b
        /\ (<<a, b>> \o <<c>>)[3] = c
    BY <2>1, ConcatProperties
  <2>3. <<a, b>> \o <<c>> = <<a, b, c>>
    <3>1. \A i \in 1 .. Len(<<a, b>> \o <<c>>) : (<<a, b>> \o <<c>>)[i] = <<a, b, c>>[i]
      <4>1. \A i \in 1 .. 3 : i = 1 \/ i = 2 \/ i = 3
        OBVIOUS
      <4>2. <<a, b, c>>[1] = a /\ <<a, b, c>>[2] = b /\ <<a, b, c>>[3] = c
        OBVIOUS
      <4> QED BY <2>2, <4>1, <4>2, Zenon
    <3>2. Len(<<a, b, c>>) = 3
      OBVIOUS
    <3> QED BY <2>1, <2>2, <3>1, <3>2, SeqEqual, Zenon
  <2>4. <<a, b>> \o <<>> = <<a, b>>
    BY <2>1, ConcatEmptySeq
  <2> QED BY <2>3, <2>4
<1> QED BY <1>1, <1>2, <1>3, Zenon

\* InviteUser inserts the account, then its grants.
LEMMA InviteStep ==
  ASSUME IInv, NEW s \in Slots, NEW b \in Invites, InviteUser(s, b)
  PROVE  IInv'
<1> DEFINE p == b.role # "admin" /\ b.grants \notin {None, {}}
           todo == <<"insert">> \o Optional("grants", p)
<1>1. todo = IF p THEN <<"insert", "grants">> ELSE <<"insert">>
  BY ShortLists, Zenon DEF Optional
<1>2. Begin(s, Request("invite", None, b, todo, 201))
  BY Zenon DEF InviteUser
<1>3. todo \in Plans["invite"] /\ "invite" \in DOMAIN Plans
  BY <1>1 DEF Plans
<1>4. Front(todo) = "insert"
  BY <1>1, ShortSequences DEF Front
<1>5. BodyValid("invite", b)
  BY ConstantsTyped, RequestsValid DEF BodyValid
<1> HIDE DEF todo
<1>6. /\ Front(todo) \notin {"attrs", "stamp", "save"} /\ 201 \in Nat /\ 201 < 400
      /\ Front(todo) \in {"done", "insert", "read"} /\ Front(todo) # "load"
  BY <1>4
<1>7. Enters("invite", None, b, todo, 201)
  BY <1>3, <1>5, <1>6, Zenon DEF Enters
<1> QED BY <1>2, <1>7, BeginStep, Zenon

\* UpdateUser refuses, or sets the grants, then role and disabled.
LEMMA UpdateStep ==
  ASSUME IInv, NEW s \in Slots, NEW c, NEW u \in Known, NEW b \in Updates,
         UpdateUser(s, c, u, b)
  PROVE  IInv'
<1> DEFINE g == b.grants # None
           a == b.role # None \/ b.disabled # None
           refused ==
             IF b.role = None /\ b.disabled = None /\ b.grants = None THEN 400
             ELSE IF c = u /\ (b.role \notin {None, "admin"} \/ b.disabled = TRUE) THEN 409
             ELSE 200
           todo == IF refused # 200 THEN <<>>
                   ELSE Optional("grants", g) \o Optional("admin", a)
<1>1. \/ todo = <<>>
      \/ refused = 200 /\ todo \in {<<"grants">>, <<"admin">>, <<"grants", "admin">>}
  <2> HIDE DEF refused
  <2>1. Optional("grants", g) \o Optional("admin", a)
          \in {<<>>, <<"grants">>, <<"admin">>, <<"grants", "admin">>}
    BY ShortLists, Zenon DEF Optional
  <2> QED BY <2>1, Zenon
<1>2. Begin(s, Request("update", u, b, todo, refused))
  BY Zenon DEF UpdateUser
<1>3. refused \in Nat
  OBVIOUS
<1>4. todo \in Plans["update"] /\ "update" \in DOMAIN Plans
  <2> HIDE DEF todo, refused
  <2> QED BY <1>1 DEF Plans
<1>5. Front(todo) = "done" \/ (Front(todo) \in {"grants", "admin"} /\ refused < 400)
  <2> HIDE DEF todo, refused
  <2> QED BY <1>1, ShortSequences DEF Front
<1>6. BodyValid("update", b)
  BY ConstantsTyped DEF BodyValid
<1>7. u \in Ids \ fresh
  BY DEF Known
<1> HIDE DEF todo, refused
<1>8. Enters("update", u, b, todo, refused)
  BY <1>3, <1>4, <1>5, <1>6, <1>7 DEF Enters
<1> QED BY <1>2, <1>8, BeginStep, Zenon

\* DeleteUser refuses, or looks the account up and deletes it.
LEMMA DeleteStep ==
  ASSUME IInv, NEW s \in Slots, NEW c, NEW u \in Known, DeleteUser(s, c, u)
  PROVE  IInv'
<1>1. <<>> \in Plans["delete"] /\ <<"get", "remove">> \in Plans["delete"]
      /\ "delete" \in DOMAIN Plans
  BY DEF Plans
<1>2. Front(<<>>) = "done" /\ Front(<<"get", "remove">>) = "get"
  BY ShortSequences DEF Front
<1>3. BodyValid("delete", NoBody)
  BY ConstantsTyped DEF BodyValid
<1>4. u \in Ids \ fresh /\ 409 \in Nat /\ 204 \in Nat /\ 204 < 400
  BY DEF Known
<1>5. CASE c = u
  <2>1. Begin(s, Request("delete", u, NoBody, <<>>, 409))
    BY <1>5, Zenon DEF DeleteUser
  <2>2. Front(<<>>) \notin {"attrs", "stamp", "save"} /\ Front(<<>>) # "load"
    BY <1>2
  <2>3. Enters("delete", u, NoBody, <<>>, 409)
    BY <2>2, <1>1, <1>2, <1>3, <1>4, Zenon DEF Enters
  <2> DEFINE todo == <<>>
             code == 409
  <2>4. Begin(s, Request("delete", u, NoBody, todo, code)) /\ Enters("delete", u, NoBody, todo, code)
    BY <2>1, <2>3
  <2> HIDE DEF todo, code
  <2> QED BY <2>4, BeginStep, Zenon
<1>6. CASE c # u
  <2>1. Begin(s, Request("delete", u, NoBody, <<"get", "remove">>, 204))
    BY <1>6, Zenon DEF DeleteUser
  <2>2. LET todo == <<"get", "remove">>
        IN  Front(todo) \notin {"attrs", "stamp", "save"} /\ Front(todo) # "load"
    BY <1>2
  <2>3. Enters("delete", u, NoBody, <<"get", "remove">>, 204)
    BY <2>2, <1>1, <1>3, <1>4, Zenon DEF Enters
  <2> QED BY <2>1, <2>3, BeginStep, Zenon
<1> QED BY <1>5, <1>6

\* createUser inserts an account.
LEMMA CreateStep ==
  ASSUME IInv, NEW s \in Slots, NEW b \in Creates, createUser(s, b)
  PROVE  IInv'
<1>1. <<"insert">> \in Plans["create"] /\ "create" \in DOMAIN Plans
  BY DEF Plans
<1>2. Front(<<"insert">>) = "insert"
  BY ShortSequences DEF Front
<1>3. BodyValid("create", b)
  BY ConstantsTyped, RequestsValid DEF BodyValid
<1>4. Begin(s, Request("create", None, b, <<"insert">>, 201))
  BY DEF createUser
<1>5. LET todo == <<"insert">>
      IN  /\ Front(todo) \notin {"attrs", "stamp", "save"} /\ 201 \in Nat /\ 201 < 400
          /\ Front(todo) \in {"done", "insert", "read"} /\ Front(todo) # "load"
  BY <1>2
<1>6. Enters("create", None, b, <<"insert">>, 201)
  BY <1>1, <1>3, <1>5, Zenon DEF Enters
<1> QED BY <1>4, <1>6, BeginStep, Zenon

\* putUser loads the account, writes its attributes and disabled.
LEMMA PutStep ==
  ASSUME IInv, NEW s \in Slots, NEW u \in Known, NEW b \in Puts, putUser(s, u, b)
  PROVE  IInv'
<1> DEFINE p == b.disabled # None
           todo == <<"load", "attrs">> \o Optional("admin", p)
<1>1. todo = IF p THEN <<"load", "attrs", "admin">> ELSE <<"load", "attrs">>
  BY ShortLists, Zenon DEF Optional
<1>2. Begin(s, Request("put", u, b, todo, 200))
  BY Zenon DEF putUser
<1>3. todo \in Plans["put"] /\ "put" \in DOMAIN Plans
  BY <1>1 DEF Plans
<1>4. Front(todo) = "load"
  BY <1>1, ShortSequences DEF Front
<1>5. BodyValid("put", b) /\ b.attrs
  BY ConstantsTyped, RequestsValid DEF BodyValid
<1>6. todo \in {<<"load", "attrs">>, <<"load", "attrs", "admin">>}
  BY <1>1, Zenon
<1>7. u \in Ids \ fresh
  BY DEF Known
<1> HIDE DEF todo
<1>8. Enters("put", u, b, todo, 200)
  BY <1>3, <1>4, <1>5, <1>6, <1>7 DEF Enters
<1> QED BY <1>2, <1>8, BeginStep, Zenon

\* patchUser loads the account and writes what the patch names.
LEMMA PatchStep ==
  ASSUME IInv, NEW s \in Slots, NEW u \in Known, NEW b \in Patches, patchUser(s, u, b)
  PROVE  IInv'
<1> DEFINE p == b.disabled # None
           todo == <<"load">> \o Optional("attrs", b.attrs) \o Optional("admin", p)
<1>1. \/ b.attrs /\ todo \in {<<"load", "attrs">>, <<"load", "attrs", "admin">>}
      \/ ~b.attrs /\ todo \in {<<"load">>, <<"load", "admin">>}
  <2> DEFINE q == <<"load">> \o Optional("attrs", b.attrs)
  <2>1. q = IF b.attrs THEN <<"load", "attrs">> ELSE <<"load">>
    BY ShortLists, Zenon DEF Optional
  <2>2. todo = q \o IF p THEN <<"admin">> ELSE <<>>
    BY Zenon DEF Optional
  <2> HIDE DEF q, todo
  <2>3. CASE b.attrs
    BY <2>1, <2>2, <2>3, ShortLists, Zenon
  <2>4. CASE ~b.attrs
    BY <2>1, <2>2, <2>4, ShortLists, Zenon
  <2> QED BY <2>3, <2>4
<1>2. Begin(s, Request("patch", u, b, todo, 200))
  BY Zenon DEF patchUser
<1> HIDE DEF todo
<1>3. todo \in Plans["patch"] /\ "patch" \in DOMAIN Plans
  BY <1>1 DEF Plans
<1>4. Front(todo) = "load"
  BY <1>1, ShortSequences DEF Front
<1>5. BodyValid("patch", b)
  BY ConstantsTyped, RequestsValid DEF BodyValid
<1>6. b.attrs <=> todo \in {<<"load", "attrs">>, <<"load", "attrs", "admin">>}
  <2>1. <<"load">> \notin {<<"load", "attrs">>, <<"load", "attrs", "admin">>}
        /\ <<"load", "admin">> \notin {<<"load", "attrs">>, <<"load", "attrs", "admin">>}
    OBVIOUS
  <2> QED BY <1>1, <2>1, Zenon
<1>7. u \in Ids \ fresh
  BY DEF Known
<1>8. Enters("patch", u, b, todo, 200)
  BY <1>3, <1>4, <1>5, <1>6, <1>7 DEF Enters
<1> QED BY <1>2, <1>8, BeginStep, Zenon

\* finish reads the account of an address, stamps the login and saves a session.
LEMMA LoginStep ==
  ASSUME IInv, NEW s \in Slots, NEW e \in Emails, finish(s, e)
  PROVE  IInv'
<1> DEFINE b == [NoBody EXCEPT !.email = e]
<1>1. <<"read", "stamp", "save">> \in Plans["login"] /\ "login" \in DOMAIN Plans
  BY DEF Plans
<1>2. Front(<<"read", "stamp", "save">>) = "read"
  BY ShortSequences DEF Front
<1>3. BodyValid("login", b)
  <2>1. NoBody \in Bodies
    BY ConstantsTyped
  <2>2. b \in Bodies /\ b.email = e
    BY <2>1 DEF Bodies
  <2> HIDE DEF b
  <2> QED BY <2>2 DEF BodyValid
<1>4. Begin(s, Request("login", None, b, <<"read", "stamp", "save">>, 302))
  BY DEF finish
<1> HIDE DEF b
<1>5. LET todo == <<"read", "stamp", "save">>
      IN  /\ Front(todo) \notin {"attrs", "stamp", "save"} /\ 302 \in Nat /\ 302 < 400
          /\ Front(todo) \in {"done", "insert", "read"} /\ Front(todo) # "load"
  BY <1>2
<1>6. Enters("login", None, b, <<"read", "stamp", "save">>, 302)
  BY <1>1, <1>3, <1>5, Zenon DEF Enters
<1> DEFINE todo == <<"read", "stamp", "save">>
<1>7. Begin(s, Request("login", None, b, todo, 302)) /\ Enters("login", None, b, todo, 302)
  BY <1>4, <1>6
<1> HIDE DEF todo
<1> QED BY <1>7, BeginStep, Zenon

-----------------------------------------------------------------------------
(* Steps of a request that change no table.                                *)

\* The request after a step of it.
LEMMA NextSound ==
  ASSUME IInv, NEW s \in Slots, NEW h, At(s, h), h # "done", NEW q, NEW unused,
         NEW id, NEW snap, NEW since, NEW what,
         LET r == req[s]
         IN  /\ Is(q, r.op, id, r.body, Tail(r.todo), snap, since, r.wrote \cup what, r.code)
             /\ what \subseteq Leaves(r.op) \/ Front(Tail(r.todo)) \in {"done", "save"},
         Equipped(q, unused)
  PROVE  Sound(q, unused) /\ Ahead(q) = Front(Tail(req[s].todo))
<1> DEFINE r == req[s]
           n == Front(Tail(r.todo))
<1>1. /\ r # None /\ IsRequest(r) /\ Sound(r, fresh) /\ Ahead(r) = h
      /\ Tail(r.todo) \in Plans[r.op] /\ Order(r.op, h, n)
  BY AtStep
<1>2. Ahead(q) = n
  BY DEF Is, Ahead
<1>3. q.code = r.code /\ q.op = r.op /\ q.wrote = r.wrote \cup what
  BY DEF Is
<1>4. Goes(r)
  BY <1>1 DEF Sound
<1>5. r.code \in Nat /\ r.code < 400
  BY <1>1, <1>4, Zenon DEF Goes
<1>6. r.wrote \subseteq Leaves(r.op) \/ n = "done"
  BY <1>1, <1>4, Zenon DEF Goes, Order
<1>7. Goes(q)
  <2>1. q.wrote \subseteq Leaves(q.op) \/ n \in {"done", "save"}
    BY <1>3, <1>6
  <2> QED BY <1>2, <1>3, <1>5, <2>1, Zenon DEF Goes
<1>8. IsRequest(q) /\ q.op \in DOMAIN Plans /\ q.todo \in Plans[q.op] /\ BodyValid(q.op, q.body)
  BY <1>1, Zenon DEF Is, Sound
<1> QED BY <1>2, <1>7, <1>8 DEF Sound

\* A transaction that has read, and written what nobody sees yet.
LEMMA ReadStep ==
  ASSUME IInv, NEW s \in Slots, NEW h \in {"grants", "admin", "remove"}, At(s, h), NEW v,
         req' = [req EXCEPT ![s].snap = v, ![s].since = {}],
         UNCHANGED <<user, fresh, session, token, late, skew>>,
         LET r == req[s]
         IN  /\ r.id \in DOMAIN user
             /\ h = "grants" => user[r.id].grants \subseteq v
             /\ h # "grants" => v \subseteq {r.id} /\ ~Locked(r.id)
             /\ h = "admin" => /\ AdminAfterUpdate(user, r.id, r.body)
                               /\ r.body.disabled = TRUE => session \cap {r.id} \subseteq v
             /\ h = "remove" => /\ AdminWithout(user, r.id) /\ r.id \notin token
                                /\ session \cap {r.id} \subseteq v
  PROVE  IInv'
<1> DEFINE r == req[s]
           x == [r EXCEPT !.snap = v]
           q == [x EXCEPT !.since = {}]
<1>1. r # None /\ IsRequest(r) /\ Sound(r, fresh) /\ Ahead(r) = h
  BY AtStep
<1>2. req' = [req EXCEPT ![s] = q]
  <2>1. req = [t \in Slots |-> req[t]]
    BY DEF IInv, Tables
  <2> QED BY <2>1, Zenon
<1>3. Is(q, r.op, r.id, r.body, r.todo, v, {}, r.wrote, r.code)
  <2>1. Is(x, r.op, r.id, r.body, r.todo, v, r.since, r.wrote, r.code)
    BY <1>1, FieldUpdate, Zenon
  <2>2. IsRequest(x)
    BY <2>1 DEF Is
  <2> HIDE DEF x
  <2>3. Is(q, x.op, x.id, x.body, x.todo, x.snap, {}, x.wrote, x.code)
    BY <2>2, FieldUpdate, Zenon
  <2> HIDE DEF q
  <2> QED BY <2>1, <2>3, Zenon DEF Is
<1> HIDE DEF q
<1>4. Ahead(q) = h
  BY <1>1, <1>3 DEF Is, Ahead
<1>5. Equipped(r, fresh) /\ Goes(r)
  BY <1>1 DEF Sound
<1>6. r.id \in Ids \ fresh
  BY <1>1, <1>5, Zenon DEF Equipped
<1>7. Equipped(q, fresh)
  BY <1>3, <1>4, <1>6, Zenon DEF Is, Equipped
<1>8. Sound(q, fresh)
  <2>1. Goes(q)
    BY <1>1, <1>3, <1>4, <1>5, Zenon DEF Is, Goes
  <2> QED BY <1>1, <1>3, <1>7, <2>1, Zenon DEF Is, Sound
<1>9. Current(q, user, token, session, late)
  <2>1. CASE h = "grants"
    BY <2>1, <1>3, <1>4, Zenon DEF Is, Current
  <2>2. CASE h = "admin"
    BY <2>2, <1>3, <1>4, Zenon DEF Is, Current
  <2>3. CASE h = "remove"
    BY <2>3, <1>3, <1>4, Zenon DEF Is, Current
  <2> QED BY <2>1, <2>2, <2>3
<1>10. \A u \in Ids : Holder(q, u) => ~Locked(u)
  BY <1>3, <1>4, Zenon DEF Is, Holder
<1> QED BY <1>2, <1>8, <1>9, <1>10, LocalStep

\* An account with another value in one column.
Columns == {"email", "role", "disabled", "ext", "linked", "grants"}
Updated(a, f, v) == [a EXCEPT ![f] = v]
Fits(f, v) ==
    \/ f = "role" /\ v \in Roles
    \/ f \in {"disabled", "linked"} /\ v \in BOOLEAN
    \/ f = "ext" /\ v \in ExternalIds \cup {None}
    \/ f = "grants" /\ v \in SUBSET Customers

\* Writing a column keeps an account an account, and its other columns.
LEMMA AccountUpdate ==
  ASSUME NEW a \in Account, NEW f \in Columns, NEW v, Fits(f, v)
  PROVE  /\ Updated(a, f, v) \in Account /\ Updated(a, f, v)[f] = v
         /\ \A g \in Columns : g # f => Updated(a, f, v)[g] = a[g]
<1>1. a = [g \in Columns |-> a[g]]
  BY DEF Account, Columns
<1>2. /\ Updated(a, f, v)[f] = v
      /\ \A g \in Columns : g # f => Updated(a, f, v)[g] = a[g]
  BY <1>1, Zenon DEF Updated
<1>3. Updated(a, f, v) \in Account
  <2>1. CASE f = "role" /\ v \in Roles
    BY <2>1 DEF Updated, Account
  <2>2. CASE f = "disabled" /\ v \in BOOLEAN
    BY <2>2 DEF Updated, Account
  <2>3. CASE f = "ext" /\ v \in ExternalIds \cup {None}
    BY <2>3 DEF Updated, Account
  <2>4. CASE f = "linked" /\ v \in BOOLEAN
    BY <2>4 DEF Updated, Account
  <2>5. CASE f = "grants" /\ v \in SUBSET Customers
    BY <2>5 DEF Updated, Account
  <2> QED BY <2>1, <2>2, <2>3, <2>4, <2>5, Zenon DEF Fits
<1> QED BY <1>2, <1>3

\* The accounts with the role and disabled that a body asks for.
LEMMA ChangedIs ==
  ASSUME Tables, NEW u \in DOMAIN user, NEW b \in Bodies
  PROVE  /\ DOMAIN Changed(u, b) = DOMAIN user
         /\ Changed(u, b) \in [DOMAIN user -> Account]
         /\ \A v \in DOMAIN user : v # u => Changed(u, b)[v] = user[v]
         /\ Changed(u, b)[u].role = IF b.role = None THEN user[u].role ELSE b.role
         /\ Changed(u, b)[u].disabled = IF b.disabled = None THEN user[u].disabled ELSE b.disabled
         /\ \A f \in {"email", "ext", "linked", "grants"} : Changed(u, b)[u][f] = user[u][f]
<1> DEFINE a == user[u]
           role == IF b.role = None THEN a.role ELSE b.role
           disabled == IF b.disabled = None THEN a.disabled ELSE b.disabled
           x == Updated(a, "role", role)
           y == Updated(x, "disabled", disabled)
<1>1. user = [v \in DOMAIN user |-> user[v]] /\ \A v \in DOMAIN user : user[v] \in Account
  BY Zenon DEF Tables
<1>2. b.role \in Roles \cup {None} /\ b.disabled \in BOOLEAN \cup {None}
  BY DEF Bodies
<1>3. /\ x \in Account /\ x.role = role
      /\ \A f \in Columns : f # "role" => x[f] = a[f]
  <2>1. a \in Account
    BY <1>1
  <2>2. role \in Roles /\ "role" \in Columns
    BY <1>2, <2>1 DEF Account, Columns
  <2> HIDE DEF role
  <2>3. Fits("role", role)
    BY <2>2, Zenon DEF Fits
  <2> QED BY <2>1, <2>2, <2>3, AccountUpdate
<1>4. /\ y \in Account /\ y.disabled = disabled
      /\ \A f \in Columns : f # "disabled" => y[f] = x[f]
  <2>1. a \in Account /\ x \in Account
    BY <1>1, <1>3
  <2>2. disabled \in BOOLEAN /\ "disabled" \in Columns
    BY <1>2, <2>1 DEF Account, Columns
  <2> HIDE DEF disabled, x
  <2>3. Fits("disabled", disabled)
    BY <2>2, Zenon DEF Fits
  <2> QED BY <2>1, <2>2, <2>3, AccountUpdate
<1>5. Changed(u, b) = [user EXCEPT ![u] = y]
  <2>1. x.disabled = a.disabled
    BY <1>3 DEF Columns
  <2> QED BY <1>1, <2>1, Zenon DEF Changed, Updated
<1> HIDE DEF x, y, role, disabled
<1>6. DOMAIN Changed(u, b) = DOMAIN user /\ Changed(u, b)[u] = y
      /\ \A v \in DOMAIN user : v # u => Changed(u, b)[v] = user[v]
  BY <1>1, <1>5, Zenon
<1>7. Changed(u, b) \in [DOMAIN user -> Account]
  BY <1>1, <1>4, <1>5, Zenon
<1>8. y.role = role /\ \A f \in {"email", "ext", "linked", "grants"} : y[f] = a[f]
  BY <1>3, <1>4 DEF Columns
<1> QED BY <1>4, <1>6, <1>7, <1>8, Zenon DEF role, disabled

\* The admins that are counted after the change are those of AdminAfterUpdate.
LEMMA ChangedAdmin ==
  ASSUME Tables, NEW u \in DOMAIN user, NEW b \in Bodies
  PROVE  ensureEnabledAdminRemains(Changed(u, b)) <=> AdminAfterUpdate(user, u, b)
<1> DEFINE c == Changed(u, b)
<1>1. /\ DOMAIN c = DOMAIN user /\ \A v \in DOMAIN user : v # u => c[v] = user[v]
      /\ c[u].role = IF b.role = None THEN user[u].role ELSE b.role
      /\ c[u].disabled = IF b.disabled = None THEN user[u].disabled ELSE b.disabled
  BY ChangedIs, Zenon
<1> HIDE DEF c
<1>2. ASSUME NEW v \in DOMAIN user
      PROVE  EnabledAdmin(c, v) <=>
               /\ (IF v = u /\ b.role # None THEN b.role ELSE user[v].role) = "admin"
               /\ ~(IF v = u /\ b.disabled # None THEN b.disabled ELSE user[v].disabled)
  <2>1. CASE v = u
    BY <1>1, <2>1, Zenon DEF EnabledAdmin
  <2>2. CASE v # u
    BY <1>1, <2>2, Zenon DEF EnabledAdmin
  <2> QED BY <2>1, <2>2
<1> QED BY <1>1, <1>2, Zenon DEF ensureEnabledAdminRemains, AdminAfterUpdate, c

\* The accounts but one.
LEMMA RestIs ==
  ASSUME Tables, NEW u
  PROVE  LET rest == Restrict(user, DOMAIN user \ {u})
         IN  /\ DOMAIN rest = DOMAIN user \ {u}
             /\ rest \in [DOMAIN user \ {u} -> Account]
             /\ \A v \in DOMAIN user \ {u} : rest[v] = user[v]
             /\ ensureEnabledAdminRemains(rest) <=> AdminWithout(user, u)
<1> DEFINE rest == Restrict(user, DOMAIN user \ {u})
<1>1. \A v \in DOMAIN user : user[v] \in Account
  BY Zenon DEF Tables
<1>2. rest = [v \in DOMAIN user \ {u} |-> user[v]]
  BY DEF Restrict
<1> HIDE DEF rest
<1>3. DOMAIN rest = DOMAIN user \ {u} /\ \A v \in DOMAIN user \ {u} : rest[v] = user[v]
  BY <1>2, Zenon
<1>4. rest \in [DOMAIN user \ {u} -> Account]
  BY <1>1, <1>2, Zenon
<1>5. ensureEnabledAdminRemains(rest) <=> AdminWithout(user, u)
  BY <1>3, Zenon DEF ensureEnabledAdminRemains, AdminWithout, EnabledAdmin
<1> QED BY <1>3, <1>4, <1>5, Zenon DEF rest

\* The DELETE of SetUserCustomerGrants.
LEMMA ClearGrantsStep ==
  ASSUME IInv, NEW s \in Slots, ClearGrants(s)
  PROVE  IInv'
<1> DEFINE u == req[s].id
<1>1. At(s, "grants")
  BY DEF ClearGrants
<1>2. CASE Answer(s, 400)
  BY <1>1, <1>2, AnswerStep
<1>3. CASE /\ u \in DOMAIN user
           /\ req' = [req EXCEPT ![s].snap = user[u].grants, ![s].since = {}]
           /\ UNCHANGED <<user, fresh, session, token, late, skew, calls>>
  BY <1>1, <1>3, ReadStep
<1> QED BY <1>2, <1>3 DEF ClearGrants

\* UpdateUserAdmin up to its commit: it takes the row lock.
LEMMA UpdateAdminStep ==
  ASSUME IInv, NEW s \in Slots, UpdateUserAdmin(s)
  PROVE  IInv'
<1> DEFINE u == req[s].id
           b == req[s].body
           doomed == IF b.disabled = TRUE THEN session \cap {u} ELSE {}
<1>1. At(s, "admin") /\ ~Locked(u)
  BY DEF UpdateUserAdmin
<1>2. ASSUME NEW c \in {404, 409}, Answer(s, c) PROVE IInv'
  BY <1>1, <1>2, AnswerStep
<1>3. CASE /\ u \in DOMAIN user /\ ensureEnabledAdminRemains(Changed(u, b))
           /\ req' = [req EXCEPT ![s].snap = doomed, ![s].since = {}]
           /\ UNCHANGED <<user, fresh, session, token, late, skew, calls>>
  <2>1. Sound(req[s], fresh)
    BY <1>1, AtStep
  <2>2. b \in Bodies
    BY <2>1 DEF Sound, BodyValid
  <2>3. AdminAfterUpdate(user, u, b)
    BY <1>3, <2>2, ChangedAdmin DEF IInv
  <2>4. doomed \subseteq {u} /\ (b.disabled = TRUE => session \cap {u} \subseteq doomed)
    OBVIOUS
  <2> HIDE DEF doomed
  <2> QED BY <1>1, <1>3, <2>3, <2>4, ReadStep
<1> QED BY <1>2, <1>3, Zenon DEF UpdateUserAdmin

\* The lookup of the account before it is deleted.
LEMMA GetUserStep ==
  ASSUME IInv, NEW s \in Slots, GetUser(s)
  PROVE  IInv'
<1> DEFINE r == req[s]
           q == Done(s, {})
<1>1. At(s, "get")
  BY DEF GetUser
<1>2. CASE Answer(s, 404)
  BY <1>1, <1>2, AnswerStep
<1>3. CASE /\ req' = [req EXCEPT ![s] = q]
           /\ UNCHANGED <<user, fresh, session, token, late, skew, calls>>
  <2>1. /\ IsRequest(r) /\ Sound(r, fresh) /\ Ahead(r) = "get"
        /\ Front(Tail(r.todo)) = "remove"
    BY <1>1, AtStep DEF Order
  <2>2. Is(q, r.op, r.id, r.body, Tail(r.todo), None, r.since, r.wrote \cup {}, r.code)
    BY <2>1, DoneIs
  <2> HIDE DEF q
  <2>3. Ahead(q) = "remove"
    BY <2>1, <2>2 DEF Is, Ahead
  <2>4. r.id \in Ids \ fresh
    BY <2>1 DEF Sound, Equipped
  <2>5. Equipped(q, fresh)
    BY <2>2, <2>3, <2>4, Zenon DEF Is, Equipped
  <2>6. Sound(q, fresh)
    <3> DEFINE what == {}
    <3>1. what \subseteq Leaves(r.op) /\ "get" # "done"
      OBVIOUS
    <3>2. Is(q, r.op, r.id, r.body, Tail(r.todo), None, r.since, r.wrote \cup what, r.code)
      BY <2>2
    <3> HIDE DEF what
    <3> QED BY <1>1, <2>5, <3>1, <3>2, NextSound, Zenon
  <2>7. Current(q, user, token, session, late) /\ \A u \in Ids : ~Holder(q, u)
    BY <2>2, <2>3, Zenon DEF Is, Current, Holder
  <2> QED BY <1>3, <2>6, <2>7, LocalStep
<1> QED BY <1>2, <1>3 DEF GetUser

\* store.DeleteUser up to its commit: it takes the row lock.
LEMMA RemoveUserStep ==
  ASSUME IInv, NEW s \in Slots, RemoveUser(s)
  PROVE  IInv'
<1> DEFINE u == req[s].id
           rest == Restrict(user, DOMAIN user \ {u})
<1>1. At(s, "remove") /\ ~Locked(u)
  BY DEF RemoveUser
<1>2. ASSUME NEW c \in {404, 409, 500}, Answer(s, c) PROVE IInv'
  BY <1>1, <1>2, AnswerStep
<1>3. CASE /\ u \in DOMAIN user \ token /\ ensureEnabledAdminRemains(rest)
           /\ req' = [req EXCEPT ![s].snap = session \cap {u}, ![s].since = {}]
           /\ UNCHANGED <<user, fresh, session, token, late, skew, calls>>
  <2>1. AdminWithout(user, u)
    BY <1>3, RestIs DEF IInv
  <2>2. session \cap {u} \subseteq {u}
    OBVIOUS
  <2> QED BY <1>1, <1>3, <2>1, <2>2, ReadStep
<1> QED BY <1>2, <1>3 DEF RemoveUser

\* GetUserWithIdentities keeps the external id for a request that writes attributes.
LEMMA LoadStep ==
  ASSUME IInv, NEW s \in Slots, load(s)
  PROVE  IInv'
<1> DEFINE r == req[s]
           u == r.id
           snap == IF r.body.attrs THEN [ext |-> user[u].ext] ELSE None
           d == Done(s, {})
           x == [d EXCEPT !.snap = snap]
           q == [x EXCEPT !.since = {}]
<1>1. At(s, "load")
  BY DEF load
<1>2. CASE Answer(s, 404)
  BY <1>1, <1>2, AnswerStep
<1>3. CASE /\ u \in DOMAIN user
           /\ req' = [req EXCEPT ![s] = [Done(s, {}) EXCEPT !.snap = snap, !.since = {}]]
           /\ UNCHANGED <<user, fresh, session, token, late, skew, calls>>
  <2>1. /\ IsRequest(r) /\ Sound(r, fresh) /\ Ahead(r) = "load"
        /\ Front(Tail(r.todo)) \in {"done", "attrs", "admin"}
        /\ r.body.attrs <=> Front(Tail(r.todo)) = "attrs"
    BY <1>1, AtStep DEF Order
  <2>2. Is(d, r.op, u, r.body, Tail(r.todo), None, r.since, r.wrote \cup {}, r.code)
    BY <2>1, DoneIs
  <2>3. req' = [req EXCEPT ![s] = q]
    BY <1>3, Zenon
  <2> HIDE DEF d
  <2>4. Is(q, r.op, u, r.body, Tail(r.todo), snap, {}, r.wrote \cup {}, r.code)
    <3>1. IsRequest(d)
      BY <2>2 DEF Is
    <3> HIDE DEF snap
    <3>2. Is(x, d.op, d.id, d.body, d.todo, snap, d.since, d.wrote, d.code)
      BY <3>1, FieldUpdate, Zenon
    <3>3. IsRequest(x)
      BY <3>2 DEF Is
    <3> HIDE DEF x
    <3>4. Is(q, x.op, x.id, x.body, x.todo, x.snap, {}, x.wrote, x.code)
      BY <3>3, FieldUpdate, Zenon
    <3> HIDE DEF q
    <3> QED BY <2>2, <3>2, <3>4, Zenon DEF Is
  <2> HIDE DEF q
  <2>5. Ahead(q) = Front(Tail(r.todo))
    BY <2>4 DEF Is, Ahead
  <2>6. r.id \in Ids \ fresh
    BY <2>1 DEF Sound, Equipped
  <2>7. user[u] \in Account
    BY <1>3, Zenon DEF IInv, Tables
  <2>8. user[u].ext \in ExternalIds \cup {None}
    BY <2>7 DEF Account
  <2>9. Ahead(q) = "attrs" => /\ q.snap \in [ext : ExternalIds \cup {None}] /\ q.snap # None
                              /\ q.snap.ext = user[u].ext
    <3>1. [ext |-> user[u].ext] \in [ext : ExternalIds \cup {None}]
          /\ [ext |-> user[u].ext].ext = user[u].ext
      BY <2>8
    <3>2. [ext |-> user[u].ext] # None
      BY <2>8, NoneIsNoValue, Zenon
    <3>3. q.snap = snap
      BY <2>4 DEF Is
    <3> QED BY <2>1, <2>5, <3>1, <3>2, <3>3, Zenon
  <2>10. Ahead(q) # "attrs" => q.snap = None
    BY <2>1, <2>4, <2>5, Zenon DEF Is
  <2>11. Equipped(q, fresh)
    BY <2>1, <2>4, <2>5, <2>6, <2>9, <2>10, Zenon DEF Is, Equipped
  <2>12. Sound(q, fresh)
    <3> DEFINE what == {}
               since == {}
    <3>1. what \subseteq Leaves(r.op) /\ "load" # "done"
      OBVIOUS
    <3>2. Is(q, r.op, r.id, r.body, Tail(r.todo), snap, since, r.wrote \cup what, r.code)
      BY <2>4
    <3> HIDE DEF snap, what, since
    <3> QED BY <1>1, <2>11, <3>1, <3>2, NextSound, Zenon
  <2>13. Current(q, user, token, session, late) /\ \A v \in Ids : ~Holder(q, v)
    <3>1. q.id = u
      BY <2>4 DEF Is
    <3>2. Ahead(q) \in {"done", "attrs", "admin"}
      BY <2>1, <2>5
    <3> HIDE DEF u, r, snap
    <3>3. Current(q, user, token, session, late)
      BY <2>9, <2>10, <3>1, <3>2, Zenon DEF Current
    <3>4. \A v \in Ids : ~Holder(q, v)
      BY <2>10, <3>2, Zenon DEF Holder
    <3> QED BY <3>3, <3>4
  <2> QED BY <1>3, <2>3, <2>12, <2>13, LocalStep
<1> QED BY <1>2, <1>3 DEF load

\* UpsertUserByIdentity reads the account of the address.
LEMMA ReadIdentityStep ==
  ASSUME IInv, NEW s \in Slots, ReadIdentity(s)
  PROVE  IInv'
<1> DEFINE r == req[s]
           found == AccountOf(r.body.email)
           u == IF found = {} THEN None ELSE CHOOSE v \in found : TRUE
           snap == IF u = None THEN [role |-> None, linked |-> FALSE]
                   ELSE [role |-> user[u].role, linked |-> user[u].linked]
           d == Done(s, {})
           w == [d EXCEPT !.id = u]
           x == [w EXCEPT !.since = {}]
           q == [x EXCEPT !.snap = snap]
<1>1. At(s, "read") /\ UNCHANGED <<user, fresh, session, token, late, skew>>
  BY DEF ReadIdentity
<1>2. req' = [req EXCEPT ![s] = q]
  BY Zenon DEF ReadIdentity
<1>3. /\ IsRequest(r) /\ Sound(r, fresh) /\ Front(Tail(r.todo)) = "stamp"
  BY <1>1, AtStep DEF Order
<1>4. Is(d, r.op, r.id, r.body, Tail(r.todo), None, r.since, r.wrote \cup {}, r.code)
  BY <1>3, DoneIs
<1>5. u = None \/ (u \in DOMAIN user /\ user[u].email = r.body.email)
  <2>1. CASE found = {}
    BY <2>1, Zenon
  <2>2. CASE found # {}
    <3>1. u \in found
      BY <2>2, Zenon
    <3> HIDE DEF u
    <3> QED BY <3>1 DEF AccountOf
  <2> QED BY <2>1, <2>2
<1>6. u # None => u \in Ids \ fresh /\ user[u] \in Account
  BY <1>5, Zenon DEF IInv, Tables, TypeOK
<1>7. snap # None /\ (u # None => snap.role \in Roles /\ snap.role = user[u].role)
  <2>1. CASE u = None
    <3>1. snap = [role |-> None, linked |-> FALSE]
      BY <2>1, Zenon
    <3> QED BY <2>1, <3>1, NoneIsNoValue, Zenon
  <2>2. CASE u # None
    <3>1. snap = [role |-> user[u].role, linked |-> user[u].linked]
      BY <2>2, Zenon
    <3>2. user[u].role \in Roles /\ user[u].linked \in BOOLEAN
      BY <1>6, <2>2 DEF Account
    <3> HIDE DEF snap, u
    <3>3. snap.role = user[u].role
      BY <3>1
    <3>4. snap # None
      BY <3>1, <3>2, NoneIsNoValue, Zenon
    <3> QED BY <3>2, <3>3, <3>4
  <2> QED BY <2>1, <2>2
<1> HIDE DEF d, u, snap
<1>8. Is(q, r.op, u, r.body, Tail(r.todo), snap, {}, r.wrote \cup {}, r.code)
  <2>1. IsRequest(d)
    BY <1>4 DEF Is
  <2>2. Is(w, d.op, u, d.body, d.todo, d.snap, d.since, d.wrote, d.code)
    BY <2>1, FieldUpdate, Zenon
  <2>3. IsRequest(w)
    BY <2>2 DEF Is
  <2> HIDE DEF w
  <2>4. Is(x, w.op, w.id, w.body, w.todo, w.snap, {}, w.wrote, w.code)
    BY <2>3, FieldUpdate, Zenon
  <2>5. IsRequest(x)
    BY <2>4 DEF Is
  <2> HIDE DEF x
  <2>6. Is(q, x.op, x.id, x.body, x.todo, snap, x.since, x.wrote, x.code)
    BY <2>5, FieldUpdate, Zenon
  <2> HIDE DEF q
  <2> QED BY <1>4, <2>2, <2>4, <2>6, Zenon DEF Is
<1> HIDE DEF q
<1>9. Ahead(q) = "stamp"
  BY <1>3, <1>8 DEF Is, Ahead
<1>10. Equipped(q, fresh)
  BY <1>6, <1>7, <1>8, <1>9, Zenon DEF Is, Equipped
<1>11. Sound(q, fresh)
  <2> DEFINE what == {}
             since == {}
  <2>1. what \subseteq Leaves(r.op) /\ "read" # "done"
    OBVIOUS
  <2>2. Is(q, r.op, u, r.body, Tail(r.todo), snap, since, r.wrote \cup what, r.code)
    BY <1>8
  <2> HIDE DEF what, since
  <2> QED BY <1>1, <1>10, <2>1, <2>2, NextSound, Zenon
<1>12. Current(q, user, token, session, late) /\ \A v \in Ids : ~Holder(q, v)
  BY <1>5, <1>7, <1>8, <1>9, Zenon DEF Is, Current, Holder
<1> QED BY <1>1, <1>2, <1>11, <1>12, LocalStep

\* A request that was answered leaves its slot.
LEMMA ReturnStep ==
  ASSUME IInv, NEW s \in Slots, Return(s)
  PROVE  IInv'
BY LocalStep DEF Return

-----------------------------------------------------------------------------
(* What a step that writes a table leaves to the other requests.           *)

\* A request q is the request p, told or not of a change.
Same(p, q) ==
    /\ IsRequest(q) /\ q.op = p.op /\ q.id = p.id /\ q.body = p.body /\ q.todo = p.todo
    /\ q.wrote = p.wrote /\ q.code = p.code
    /\ q.snap = p.snap \/ Ahead(p) = "grants"

\* The steps that a change of role or disabled is told to.
Minds(p) ==
    \/ Ahead(p) \in {"stamp", "save"}
    \/ Ahead(p) \in {"admin", "remove"} /\ p.snap # None

\* A request that is told stays sound, and ids stay used.
LEMMA SameSound ==
  ASSUME NEW p, NEW q, NEW unused, NEW less \in SUBSET unused, Sound(p, unused), Same(p, q)
  PROVE  Sound(q, less) /\ Ahead(q) = Ahead(p)
<1>1. Ahead(q) = Ahead(p)
  BY Zenon DEF Same, Ahead
<1>2. Goes(q)
  BY <1>1, Zenon DEF Sound, Same, Goes
<1>3. Ids \ unused \subseteq Ids \ less
  OBVIOUS
<1>4. Equipped(q, less)
  <2>1. Equipped(p, unused)
    BY DEF Sound
  <2>2. CASE Ahead(p) = "grants"
    BY <1>1, <1>3, <2>1, <2>2 DEF Same, Equipped
  <2>3. CASE Ahead(p) # "grants"
    <3>1. q.snap = p.snap
      BY <2>3 DEF Same
    <3>2. p.id \in Ids \ unused => p.id \in Ids \ less
      BY <1>3
    <3> QED BY <1>1, <2>1, <3>1, <3>2, Zenon DEF Same, Equipped
  <2> QED BY <2>2, <2>3
<1> QED BY <1>1, <1>2, <1>4, Zenon DEF Sound, Same

\* The rows change to next in the row of u alone, and q, which is p, has been
\* told of it if it minds.
Harmless(p, q, u, rows, next) ==
    /\ Same(p, q) /\ q.snap = p.snap
    /\ q.since = p.since \/ q.since = p.since \cup {u}
    /\ DOMAIN next \subseteq DOMAIN rows
    /\ \A v \in DOMAIN rows : v # u => v \in DOMAIN next /\ next[v] = rows[v]
    /\ u \in DOMAIN next => next[u].email = rows[u].email
    /\ Ahead(p) \in {"admin", "remove"} /\ p.snap # None => p.id \in DOMAIN next
    /\ Minds(p) /\ u \in DOMAIN rows =>
          \/ u \in q.since
          \/ /\ u \in DOMAIN next /\ next[u].role = rows[u].role
             /\ next[u].disabled = rows[u].disabled
    /\ Ahead(p) = "attrs" /\ u \in DOMAIN next =>
          u \in q.since \/ next[u].ext = rows[u].ext
    /\ Ahead(p) = "grants" /\ p.snap # None /\ p.id = u /\ u \in DOMAIN next =>
          u \in q.since \/ next[u].grants = rows[u].grants

\* Sessions end, and the late ones that are left stay late.
Fewer(sessions, left, lates, later) ==
    left \subseteq sessions /\ \A x \in left : x \in lates => x \in later

\* Rows of other accounts, and other columns, do not matter to a request; what
\* it minds it is told of.
LEMMA OtherCurrent ==
  ASSUME NEW p, NEW q, NEW u, NEW rows, NEW next, NEW tokens, NEW sessions, NEW left,
         NEW lates, NEW later, Current(p, rows, tokens, sessions, lates),
         Harmless(p, q, u, rows, next), Fewer(sessions, left, lates, later)
  PROVE  Current(q, next, tokens, left, later)
<1> USE DEF Harmless, Fewer
<1>1. Ahead(q) = Ahead(p) /\ q.id = p.id /\ q.body = p.body /\ q.op = p.op
  BY Zenon DEF Same, Ahead
<1>2. p.since \subseteq q.since
  BY SMT
<1>3. ASSUME Minds(p), u \notin q.since, NEW v \in DOMAIN rows
      PROVE  /\ v \in DOMAIN next /\ next[v].role = rows[v].role
             /\ next[v].disabled = rows[v].disabled
  BY <1>3, Zenon
<1>4. CASE Ahead(p) = "admin" /\ p.snap # None
  <2>1. /\ p.id \in DOMAIN rows
        /\ p.since = {} => AdminAfterUpdate(rows, p.id, p.body)
        /\ p.body.disabled = TRUE => sessions \cap {p.id} \subseteq p.snap \cup lates
    BY <1>4, Zenon DEF Current
  <2>2. p.id \in DOMAIN next
    BY <1>4
  <2>3. q.since = {} => AdminAfterUpdate(next, p.id, p.body)
    <3> SUFFICES ASSUME q.since = {} PROVE AdminAfterUpdate(next, p.id, p.body)
      OBVIOUS
    <3>1. p.since = {} /\ u \notin q.since /\ Minds(p)
      BY <1>2, <1>4 DEF Minds
    <3>2. AdminAfterUpdate(rows, p.id, p.body)
      BY <2>1, <3>1
    <3> QED BY <1>3, <3>1, <3>2, Zenon DEF AdminAfterUpdate
  <2>4. p.body.disabled = TRUE => left \cap {p.id} \subseteq p.snap \cup later
    BY <2>1, Zenon
  <2> QED BY <1>1, <1>4, <2>2, <2>3, <2>4, Zenon DEF Current
<1>5. CASE Ahead(p) = "remove" /\ p.snap # None
  <2>1. /\ p.id \in DOMAIN rows /\ p.id \notin tokens
        /\ p.since = {} => AdminWithout(rows, p.id)
        /\ sessions \cap {p.id} \subseteq p.snap \cup lates
    BY <1>5, Zenon DEF Current
  <2>2. p.id \in DOMAIN next
    BY <1>5
  <2>3. q.since = {} => AdminWithout(next, p.id)
    <3> SUFFICES ASSUME q.since = {} PROVE AdminWithout(next, p.id)
      OBVIOUS
    <3>1. p.since = {} /\ u \notin q.since /\ Minds(p)
      BY <1>2, <1>5 DEF Minds
    <3>2. AdminWithout(rows, p.id)
      BY <2>1, <3>1
    <3> QED BY <1>3, <3>1, <3>2, Zenon DEF AdminWithout, EnabledAdmin
  <2>4. left \cap {p.id} \subseteq p.snap \cup later
    BY <2>1, Zenon
  <2> QED BY <1>1, <1>5, <2>1, <2>2, <2>3, <2>4, Zenon DEF Current
<1>6. CASE Ahead(p) \in {"admin", "remove"} /\ p.snap = None
  BY <1>1, <1>6, Zenon DEF Current
<1>7. CASE Ahead(p) = "grants"
  <2>1. p.snap # None /\ p.id \notin p.since /\ p.id \in DOMAIN rows =>
          rows[p.id].grants \subseteq p.snap
    BY <1>7, Zenon DEF Current
  <2>2. p.snap # None /\ p.id \notin q.since /\ p.id \in DOMAIN next =>
          next[p.id].grants \subseteq p.snap
    BY <1>2, <1>7, <2>1, Zenon
  <2> QED BY <1>1, <1>7, <2>2, Zenon DEF Current
<1>8. CASE Ahead(p) = "attrs"
  <2>1. p.op = "patch" /\ p.id \notin p.since /\ p.id \in DOMAIN rows =>
          p.snap.ext = rows[p.id].ext
    BY <1>8, Zenon DEF Current
  <2>2. p.op = "patch" /\ p.id \notin q.since /\ p.id \in DOMAIN next =>
          p.snap.ext = next[p.id].ext
    BY <1>2, <1>8, <2>1, Zenon
  <2> QED BY <1>1, <1>8, <2>2, Zenon DEF Current
<1>9. CASE Ahead(p) = "stamp"
  <2>1. p.id # None /\ p.id \in DOMAIN rows =>
          /\ rows[p.id].email = p.body.email
          /\ p.id \notin p.since => p.snap.role = rows[p.id].role
    BY <1>9, Zenon DEF Current
  <2>2. Minds(p)
    BY <1>9 DEF Minds
  <2>3. p.id # None /\ p.id \in DOMAIN next =>
          /\ next[p.id].email = p.body.email
          /\ p.id \notin q.since => p.snap.role = next[p.id].role
    BY <1>2, <2>1, <2>2, Zenon
  <2> QED BY <1>1, <1>9, <2>3, Zenon DEF Current
<1>10. CASE Ahead(p) = "save"
  <2>1. p.id \notin p.since => p.id \in DOMAIN rows /\ ~rows[p.id].disabled
    BY <1>10, Zenon DEF Current
  <2>2. Minds(p)
    BY <1>10 DEF Minds
  <2>3. p.id \notin q.since => p.id \in DOMAIN next /\ ~next[p.id].disabled
    BY <1>2, <2>1, <2>2, Zenon
  <2> QED BY <1>1, <1>10, <2>3, Zenon DEF Current
<1>11. CASE Ahead(p) \notin {"admin", "remove", "grants", "attrs", "stamp", "save"}
  BY <1>1, <1>11, Zenon DEF Current
<1> QED BY <1>4, <1>5, <1>6, <1>7, <1>8, <1>9, <1>10, <1>11, Zenon

\* New accounts do not matter to a request: their ids were not in use.
LEMMA GrownCurrent ==
  ASSUME NEW p, NEW rows, NEW next, NEW tokens, NEW sessions, NEW lates, NEW unused,
         None \notin unused, Sound(p, unused), Current(p, rows, tokens, sessions, lates),
         \A v \in DOMAIN rows : v \in DOMAIN next /\ next[v] = rows[v],
         \A v \in DOMAIN next : v \in DOMAIN rows \/ v \in unused
  PROVE  Current(p, next, tokens, sessions, lates)
<1>1. Equipped(p, unused)
  BY DEF Sound
<1>2. ASSUME Ahead(p) \in {"grants", "admin", "remove", "attrs", "stamp", "save"}
      PROVE  p.id \in DOMAIN next => p.id \in DOMAIN rows /\ next[p.id] = rows[p.id]
  BY <1>1, <1>2 DEF Equipped
<1>3. CASE Ahead(p) = "admin"
  <2>1. AdminAfterUpdate(rows, p.id, p.body) => AdminAfterUpdate(next, p.id, p.body)
    BY Zenon DEF AdminAfterUpdate
  <2> QED BY <1>3, <2>1, Zenon DEF Current
<1>4. CASE Ahead(p) = "remove"
  <2>1. AdminWithout(rows, p.id) => AdminWithout(next, p.id)
    BY Zenon DEF AdminWithout, EnabledAdmin
  <2> QED BY <1>4, <2>1, Zenon DEF Current
<1>5. CASE Ahead(p) \in {"grants", "attrs"}
  BY <1>2, <1>5, Zenon DEF Current
<1>6. CASE Ahead(p) \in {"stamp", "save"}
  BY <1>2, <1>6, Zenon DEF Current
<1>7. CASE Ahead(p) \notin {"admin", "remove", "grants", "attrs", "stamp", "save"}
  BY <1>7, Zenon DEF Current
<1> QED BY <1>3, <1>4, <1>5, <1>6, <1>7, Zenon

\* Sessions and tokens only matter to the request that holds the row lock.
LEMMA SessionsCurrent ==
  ASSUME NEW p, NEW rows, NEW tokens, NEW held, NEW sessions, NEW left, NEW lates, NEW later,
         Current(p, rows, tokens, sessions, lates),
         Holder(p, p.id) =>
            /\ p.id \in left =>
                  p.id \in later \/ (p.id \in sessions /\ (p.id \in lates => p.id \in later))
            /\ Ahead(p) = "remove" => p.id \notin held
  PROVE  Current(p, rows, held, left, later)
<1>1. CASE Ahead(p) = "admin" /\ p.snap # None
  <2>1. Holder(p, p.id)
    BY <1>1, Zenon DEF Holder
  <2>2. /\ p.id \in DOMAIN rows /\ (p.since = {} => AdminAfterUpdate(rows, p.id, p.body))
        /\ p.body.disabled = TRUE => sessions \cap {p.id} \subseteq p.snap \cup lates
    BY <1>1, Zenon DEF Current
  <2>3. p.body.disabled = TRUE => left \cap {p.id} \subseteq p.snap \cup later
    BY <2>1, <2>2, Zenon
  <2> QED BY <1>1, <2>2, <2>3, Zenon DEF Current
<1>2. CASE Ahead(p) = "remove" /\ p.snap # None
  <2>1. Holder(p, p.id)
    BY <1>2, Zenon DEF Holder
  <2>2. /\ p.id \in DOMAIN rows /\ (p.since = {} => AdminWithout(rows, p.id))
        /\ sessions \cap {p.id} \subseteq p.snap \cup lates
    BY <1>2, Zenon DEF Current
  <2>3. left \cap {p.id} \subseteq p.snap \cup later
    BY <2>1, <2>2, Zenon
  <2> QED BY <1>2, <2>1, <2>2, <2>3, Zenon DEF Current
<1>3. CASE ~(Ahead(p) \in {"admin", "remove"} /\ p.snap # None)
  BY <1>3, Zenon DEF Current
<1> QED BY <1>1, <1>2, <1>3, Zenon

\* A step that writes a table keeps the requests sound, current and exclusive.
LEMMA WriteStep ==
  ASSUME IInv, NEW s \in Slots, fresh' \in SUBSET fresh,
         Sound(req'[s], fresh'), Current(req'[s], user', token', session', late'),
         \A u \in Ids : ~Holder(req'[s], u),
         \A t \in Slots \ {s} :
            /\ req[t] = None => req'[t] = None
            /\ req[t] # None => /\ Same(req[t], req'[t])
                                /\ Current(req'[t], user', token', session', late')
  PROVE  Requests' /\ Exclusive'
<1>1. ASSUME NEW t \in Slots \ {s}, req'[t] # None
      PROVE  /\ req[t] # None /\ Sound(req'[t], fresh') /\ Ahead(req'[t]) = Ahead(req[t])
             /\ Same(req[t], req'[t]) /\ Current(req'[t], user', token', session', late')
  <2>1. req[t] # None
    BY <1>1
  <2>2. Sound(req[t], fresh)
    BY <2>1 DEF IInv, Requests
  <2>3. Same(req[t], req'[t]) /\ Current(req'[t], user', token', session', late')
    BY <2>1
  <2>4. Sound(req'[t], fresh') /\ Ahead(req'[t]) = Ahead(req[t])
    BY <2>2, <2>3, SameSound, Zenon
  <2> QED BY <2>1, <2>3, <2>4
<1>2. Requests'
  BY <1>1, Zenon DEF Requests
<1>3. Exclusive'
  <2> SUFFICES ASSUME NEW a \in Slots, NEW b \in Slots, NEW u \in Ids, req'[a] # None,
                      req'[b] # None, Holder(req'[a], u), Holder(req'[b], u)
               PROVE  a = b
    BY Zenon DEF Exclusive
  <2>1. a # s /\ b # s
    BY Zenon
  <2>2. ASSUME NEW t \in Slots \ {s}, req'[t] # None, Holder(req'[t], u)
        PROVE  req[t] # None /\ Holder(req[t], u)
    <3>1. /\ req[t] # None /\ Ahead(req'[t]) = Ahead(req[t]) /\ Same(req[t], req'[t])
      BY <1>1, <2>2, Zenon
    <3> QED BY <2>2, <3>1 DEF Holder, Same
  <2> QED BY <2>1, <2>2, Zenon DEF IInv, Exclusive
<1> QED BY <1>2, <1>3

-----------------------------------------------------------------------------
(* Accounts are inserted.                                                  *)

\* A new row, with an address and an external id that nobody has.
LEMMA RowAdded ==
  ASSUME Tables, NEW n \in fresh, NEW row \in Account,
         \A v \in DOMAIN user : /\ user[v].email # row.email
                                /\ user[v].ext = row.ext => row.ext = None,
         user' = Inserted(n, row), fresh' = fresh \ {n},
         UNCHANGED <<session, token, late, skew>>, req' = [t \in Slots |-> req'[t]]
  PROVE  /\ Tables' /\ DOMAIN user' = DOMAIN user \cup {n} /\ user'[n] = row
         /\ \A v \in DOMAIN user : v # n /\ user'[v] = user[v]
<1>1. /\ DOMAIN user \subseteq Ids \ fresh /\ fresh \subseteq Ids
      /\ session \cup token \subseteq Ids \ fresh /\ late \subseteq session /\ token \subseteq DOMAIN user
      /\ \A u, v \in DOMAIN user :
           u # v => /\ user[u].email # user[v].email
                    /\ user[u].ext = user[v].ext => user[u].ext = None
      /\ \A v \in DOMAIN user : user[v] \in Account
  BY Zenon DEF Tables, TypeOK
<1>2. user' = [v \in DOMAIN user \cup {n} |-> IF v = n THEN row ELSE user[v]]
  BY DEF Inserted
<1>3. n \notin DOMAIN user
  BY <1>1
<1>4. /\ DOMAIN user' = DOMAIN user \cup {n} /\ user'[n] = row
      /\ \A v \in DOMAIN user : v # n /\ user'[v] = user[v]
  BY <1>2, <1>3, Zenon
<1>5. \A v \in DOMAIN user' : user'[v] \in Account
  BY <1>1, <1>4, Zenon
<1>6. user' \in [DOMAIN user' -> Account]
  BY <1>2, <1>5, Zenon
<1>7. TypeOK'
  <2>1. /\ DOMAIN user' \subseteq Ids \ fresh' /\ fresh' \subseteq Ids
        /\ session' \cup token' \subseteq Ids \ fresh' /\ late' \subseteq session'
        /\ token' \subseteq DOMAIN user'
    BY <1>1, <1>4
  <2>2. \A v \in DOMAIN user' :
          /\ user'[v].email \in Emails /\ user'[v].role \in Roles
          /\ user'[v].disabled \in BOOLEAN /\ user'[v].grants \subseteq Customers
    BY <1>5 DEF Account
  <2>3. \A u, v \in DOMAIN user' :
          u # v => /\ user'[u].email # user'[v].email
                   /\ user'[u].ext = user'[v].ext => user'[u].ext = None
    <3> SUFFICES ASSUME NEW u \in DOMAIN user', NEW v \in DOMAIN user', u # v
                 PROVE  /\ user'[u].email # user'[v].email
                        /\ user'[u].ext = user'[v].ext => user'[u].ext = None
      BY Zenon
    <3>1. CASE u # n /\ v # n
      BY <1>1, <1>4, <3>1, SMT
    <3>2. CASE u = n /\ v # n
      BY <1>4, <3>2, SMT
    <3>3. CASE u # n /\ v = n
      BY <1>4, <3>3, SMT
    <3> QED BY <3>1, <3>2, <3>3
  <2> QED BY <2>1, <2>2, <2>3 DEF TypeOK
<1>8. skew' \in BOOLEAN
  BY DEF Tables
<1> QED BY <1>4, <1>6, <1>7, <1>8, Zenon DEF Tables

\* An enabled account is inserted, and its request goes on with it.
LEMMA AccountStep ==
  ASSUME IInv, NEW s \in Slots, NEW h \in {"insert", "stamp"}, At(s, h), fresh # {},
         NEW row \in Account, row.disabled = FALSE,
         \A v \in DOMAIN user : /\ user[v].email # row.email
                                /\ user[v].ext = row.ext => row.ext = None,
         user' = Inserted(NewId, row), fresh' = fresh \ {NewId},
         req' = [req EXCEPT ![s] = [Done(s, {"account"}) EXCEPT !.id = NewId]],
         UNCHANGED <<session, token, late, skew>>
  PROVE  IInv'
<1> DEFINE r == req[s]
           d == Done(s, {"account"})
           n == NewId
           q == [d EXCEPT !.id = n]
<1>1. n \in fresh
  BY Zenon DEF NewId
<1> HIDE DEF n
<1>2. /\ req'[s] = q /\ (\A t \in Slots \ {s} : req'[t] = req[t])
      /\ req' = [t \in Slots |-> req'[t]]
  BY Zenon DEF IInv, Tables, n
<1>3. /\ Tables' /\ DOMAIN user' = DOMAIN user \cup {n} /\ user'[n] = row
      /\ \A v \in DOMAIN user : v # n /\ user'[v] = user[v]
  BY <1>1, <1>2, RowAdded, Zenon DEF IInv, n
<1>4. /\ IsRequest(r) /\ Sound(r, fresh) /\ Ahead(r) = h
      /\ Order(r.op, h, Front(Tail(r.todo)))
  BY AtStep
<1>5. Is(d, r.op, r.id, r.body, Tail(r.todo), None, r.since, r.wrote \cup {"account"}, r.code)
  BY <1>4, DoneIs
<1> HIDE DEF d
<1>6. Is(q, r.op, n, r.body, Tail(r.todo), None, r.since, r.wrote \cup {"account"}, r.code)
  <2>1. IsRequest(d)
    BY <1>5 DEF Is
  <2>2. Is(q, d.op, n, d.body, d.todo, d.snap, d.since, d.wrote, d.code)
    BY <2>1, FieldUpdate, Zenon
  <2> HIDE DEF q
  <2> QED BY <1>5, <2>2, Zenon DEF Is
<1> HIDE DEF q
<1>7. Ahead(q) = Front(Tail(r.todo)) /\ q.snap = None /\ q.id = n
  BY <1>6 DEF Is, Ahead
<1>8. Ahead(q) \in {"done", "grants", "save"}
      /\ ({"account"} \subseteq Leaves(r.op) \/ Front(Tail(r.todo)) \in {"done", "save"})
  BY <1>4, <1>7 DEF Order, Leaves
<1>9. n \in Ids \ fresh'
  BY <1>1 DEF IInv, Tables, TypeOK, n
<1>10. Equipped(q, fresh')
  BY <1>7, <1>8, <1>9, Zenon DEF Equipped
<1>11. Sound(q, fresh')
  <2>1. h # "done"
    OBVIOUS
  <2> QED BY <1>6, <1>8, <1>10, <2>1, NextSound, Zenon
<1>12. Current(q, user', token', session', late') /\ \A u \in Ids : ~Holder(q, u)
  BY <1>3, <1>7, <1>8, Zenon DEF Current, Holder
<1>13. None \notin fresh
  BY NoneIsNoValue DEF IInv, Tables, TypeOK
<1>14. ASSUME NEW t \in Slots \ {s}, req[t] # None
       PROVE  Same(req[t], req'[t]) /\ Current(req'[t], user', token', session', late')
  <2>1. Sound(req[t], fresh) /\ Current(req[t], user, token, session, late)
    BY <1>14 DEF IInv, Requests
  <2>2. Same(req[t], req'[t])
    BY <1>2, <2>1, Zenon DEF Sound, Same
  <2>3. Current(req[t], user', token, session, late)
    BY <1>1, <1>3, <1>13, <2>1, GrownCurrent, Zenon
  <2> QED BY <1>2, <2>2, <2>3, Zenon
<1>15. Requests' /\ Exclusive'
  <2>1. fresh' \in SUBSET fresh
    OBVIOUS
  <2> QED BY <1>2, <1>11, <1>12, <1>14, <2>1, WriteStep, Zenon
<1>16. EnabledAdminRemains' /\ DisabledHasNoSession'
  BY <1>3, Zenon DEF IInv, EnabledAdminRemains, EnabledAdmin, DisabledHasNoSession
<1> QED BY <1>3, <1>15, <1>16, Zenon DEF IInv

ExternalId == ExternalIds \cup {None}

NewRow(row, email, ext) ==
    row \in Account /\ row.email = email /\ row.ext = ext /\ row.disabled = FALSE

\* The row of a new account is enabled.
LEMMA RowIs ==
  ASSUME NEW email \in Emails, NEW role \in Roles, NEW ext \in ExternalId, NEW linked \in BOOLEAN
  PROVE  NewRow(Row(email, role, ext, linked), email, ext)
<1> DEFINE row == Row(email, role, ext, linked)
<1>1. row \in Account
  BY DEF Row, Account, ExternalId
<1>2. row.email = email /\ row.ext = ext
  BY DEF Row
<1>3. row.disabled = FALSE
  BY DEF Row
<1> QED BY <1>1, <1>2, <1>3 DEF NewRow

\* CreateInvitedUser and CreateSCIMUser.
LEMMA InsertStep ==
  ASSUME IInv, NEW s \in Slots, Insert(s)
  PROVE  IInv'
<1> DEFINE r == req[s]
           b == r.body
           taken == \/ AccountOf(b.email) # {}
                    \/ b.ext # None /\ \E u \in DOMAIN user : user[u].ext = b.ext
           role == IF r.op = "create" THEN DefaultRole ELSE b.role
           row == Row(b.email, role, b.ext, FALSE)
<1>1. At(s, "insert")
  BY DEF Insert
<1>2. CASE Answer(s, 409)
  BY <1>1, <1>2, AnswerStep
<1>3. CASE /\ ~taken /\ fresh # {}
           /\ user' = Inserted(NewId, row) /\ fresh' = fresh \ {NewId}
           /\ req' = [req EXCEPT ![s] = [Done(s, {"account"}) EXCEPT !.id = NewId]]
           /\ UNCHANGED <<session, token, late, skew, calls>>
  <2>1. Sound(r, fresh) /\ r.op \in {"invite", "create"}
    BY <1>1, AtStep DEF Order
  <2>2. BodyValid(r.op, b)
    BY <2>1 DEF Sound
  <2>3. b.email \in Emails /\ b.ext \in ExternalId /\ role \in Roles
    <3>1. b \in Bodies /\ b.email \in Emails /\ (r.op = "invite" => b.role \in Roles)
      BY <2>1, <2>2 DEF BodyValid
    <3>2. b.ext \in ExternalId
      BY <3>1 DEF Bodies, ExternalId
    <3> QED BY <2>1, <3>1, <3>2, RequestsValid
  <2>4. row \in Account /\ row.email = b.email /\ row.ext = b.ext /\ row.disabled = FALSE
    <3> HIDE DEF role
    <3>1. FALSE \in BOOLEAN
      OBVIOUS
    <3>2. NewRow(row, b.email, b.ext)
      BY <2>3, <3>1, RowIs, Zenon
    <3> QED BY <3>2 DEF NewRow
  <2> HIDE DEF row
  <2>5. \A v \in DOMAIN user : /\ user[v].email # row.email
                               /\ user[v].ext = row.ext => row.ext = None
    <3>1. AccountOf(b.email) = {} /\ (b.ext # None => \A u \in DOMAIN user : user[u].ext # b.ext)
      BY <1>3, Zenon
    <3>2. \A v \in DOMAIN user : user[v].email # b.email
      BY <3>1 DEF AccountOf
    <3> QED BY <2>4, <3>1, <3>2, Zenon
  <2>6. "insert" \in {"insert", "stamp"}
    OBVIOUS
  <2> QED BY <1>1, <1>3, <2>4, <2>5, <2>6, AccountStep, Zenon
<1> QED BY <1>2, <1>3, Zenon DEF Insert

\* UpsertUserByIdentity, for an address without an account.
LEMMA InsertLoginStep ==
  ASSUME IInv, NEW s \in Slots, InsertLogin(s)
  PROVE  IInv'
<1> DEFINE r == req[s]
           email == r.body.email
           role == IF email \in AdminEmails THEN "admin" ELSE "viewer"
           row == Row(email, role, None, TRUE)
<1>1. At(s, "stamp")
  BY DEF InsertLogin
<1>2. CASE Answer(s, 500)
  BY <1>1, <1>2, AnswerStep
<1>3. CASE /\ AccountOf(email) = {} /\ fresh # {}
           /\ user' = Inserted(NewId, row) /\ fresh' = fresh \ {NewId}
           /\ req' = [req EXCEPT ![s] = [Done(s, {"account"}) EXCEPT !.id = NewId]]
           /\ UNCHANGED <<session, token, late, skew, calls>>
  <2>1. Sound(r, fresh) /\ r.op = "login"
    BY <1>1, AtStep DEF Order
  <2>2. email \in Emails
    BY <2>1 DEF Sound, BodyValid
  <2>3. role \in Roles /\ None \in ExternalId
    BY DEF Roles, ExternalId
  <2>4. row \in Account /\ row.email = email /\ row.ext = None /\ row.disabled = FALSE
    <3> HIDE DEF role
    <3>1. TRUE \in BOOLEAN
      OBVIOUS
    <3>2. NewRow(row, email, None)
      BY <2>2, <2>3, <3>1, RowIs, Zenon
    <3> QED BY <3>2 DEF NewRow
  <2> HIDE DEF row
  <2>5. \A v \in DOMAIN user : /\ user[v].email # row.email
                               /\ user[v].ext = row.ext => row.ext = None
    BY <1>3, <2>4 DEF AccountOf
  <2>6. "stamp" \in {"insert", "stamp"}
    OBVIOUS
  <2> QED BY <1>1, <1>3, <2>4, <2>5, <2>6, AccountStep, Zenon
<1> QED BY <1>2, <1>3, Zenon DEF InsertLogin

-----------------------------------------------------------------------------
(* Accounts are changed and deleted.                                       *)

\* One row changes, but for its address.
LEMMA RowChanged ==
  ASSUME Tables, NEW u \in DOMAIN user, user' \in [DOMAIN user -> Account],
         \A v \in DOMAIN user : v # u => user'[v] = user[v], user'[u].email = user[u].email,
         \A v \in DOMAIN user : v # u /\ user[v].ext = user'[u].ext => user'[u].ext = None,
         UNCHANGED <<fresh, token>>, session' \subseteq session, late' \subseteq session',
         skew' \in BOOLEAN, req' = [t \in Slots |-> req'[t]]
  PROVE  Tables' /\ DOMAIN user' = DOMAIN user
<1>1. /\ DOMAIN user \subseteq Ids \ fresh /\ fresh \subseteq Ids
      /\ session \cup token \subseteq Ids \ fresh /\ token \subseteq DOMAIN user
      /\ \A a, v \in DOMAIN user :
           a # v => /\ user[a].email # user[v].email
                    /\ user[a].ext = user[v].ext => user[a].ext = None
  BY Zenon DEF Tables, TypeOK
<1>2. DOMAIN user' = DOMAIN user /\ \A v \in DOMAIN user' : user'[v] \in Account
  BY Zenon
<1>3. user' \in [DOMAIN user' -> Account]
  BY <1>2, Zenon
<1>4. TypeOK'
  <2>1. /\ DOMAIN user' \subseteq Ids \ fresh' /\ fresh' \subseteq Ids
        /\ session' \cup token' \subseteq Ids \ fresh' /\ late' \subseteq session'
        /\ token' \subseteq DOMAIN user'
    BY <1>1, <1>2
  <2>2. \A v \in DOMAIN user' :
          /\ user'[v].email \in Emails /\ user'[v].role \in Roles
          /\ user'[v].disabled \in BOOLEAN /\ user'[v].grants \subseteq Customers
    BY <1>2 DEF Account
  <2>3. \A a, v \in DOMAIN user' :
          a # v => /\ user'[a].email # user'[v].email
                   /\ user'[a].ext = user'[v].ext => user'[a].ext = None
    <3> SUFFICES ASSUME NEW a \in DOMAIN user, NEW v \in DOMAIN user, a # v
                 PROVE  /\ user'[a].email # user'[v].email
                        /\ user'[a].ext = user'[v].ext => user'[a].ext = None
      BY <1>2, Zenon
    <3>1. CASE a # u /\ v # u
      BY <1>1, <3>1, SMT
    <3>2. CASE a = u /\ v # u
      BY <1>1, <3>2, SMT
    <3>3. CASE a # u /\ v = u
      BY <1>1, <3>3, SMT
    <3> QED BY <3>1, <3>2, <3>3
  <2> QED BY <2>1, <2>2, <2>3 DEF TypeOK
<1> QED BY <1>2, <1>3, <1>4, Zenon DEF Tables

\* A request after a transaction that it can follow only by role and disabled.
LEMMA DoneSound ==
  ASSUME IInv, NEW s \in Slots, NEW h \in {"grants", "admin", "remove", "attrs", "save"},
         At(s, h), NEW what,
         what \subseteq Leaves(req[s].op) \/ Front(Tail(req[s].todo)) = "done"
  PROVE  /\ Sound(Done(s, what), fresh) /\ Ahead(Done(s, what)) \in {"done", "admin"}
         /\ Done(s, what).snap = None
<1> DEFINE r == req[s]
           q == Done(s, what)
<1>1. /\ IsRequest(r) /\ Sound(r, fresh) /\ Ahead(r) = h
      /\ Front(Tail(r.todo)) \in {"done", "admin"}
  <2>1. IsRequest(r) /\ Sound(r, fresh) /\ Ahead(r) = h /\ Order(r.op, h, Front(Tail(r.todo)))
    BY AtStep
  <2> QED BY <2>1, Zenon DEF Order
<1>2. Is(q, r.op, r.id, r.body, Tail(r.todo), None, r.since, r.wrote \cup what, r.code)
  BY <1>1, DoneIs
<1> HIDE DEF q
<1>3. Ahead(q) = Front(Tail(r.todo)) /\ q.id = r.id /\ q.snap = None
  BY <1>2 DEF Is, Ahead
<1>4. r.id \in Ids \ fresh
  BY <1>1 DEF Sound, Equipped
<1>5. Equipped(q, fresh)
  BY <1>1, <1>3, <1>4, Zenon DEF Equipped
<1>6. Sound(q, fresh)
  <2>1. h # "done"
    OBVIOUS
  <2>2. what \subseteq Leaves(r.op) \/ Front(Tail(r.todo)) \in {"done", "save"}
    BY <1>1
  <2> QED BY <1>2, <1>5, <2>1, <2>2, NextSound, Zenon
<1> QED BY <1>1, <1>3, <1>6, Zenon DEF q

\* Nothing has been read for the next transaction.
LEMMA NothingRead ==
  ASSUME NEW q, q.snap = None, Ahead(q) \in {"done", "admin"}
  PROVE  /\ \A rows, tokens, sessions, lates : Current(q, rows, tokens, sessions, lates)
         /\ \A u \in Ids : ~Holder(q, u)
BY Zenon DEF Current, Holder

\* A commit tells the others.
LEMMA Told ==
  ASSUME IInv, NEW s \in Slots, NEW t \in Slots \ {s}, req[t] # None, NEW u, NEW steps,
         NEW r, Commit(s, u, steps, r)
  PROVE  /\ Same(req[t], req'[t]) /\ req'[t].snap = req[t].snap
         /\ req'[t].since = req[t].since \/ req'[t].since = req[t].since \cup {u}
         /\ Watching(t, steps) => u \in req'[t].since
<1> DEFINE p == req[t]
           q == [p EXCEPT !.since = p.since \cup {u}]
<1>1. Sound(p, fresh)
  BY DEF IInv, Requests
<1>2. IsRequest(p)
  BY <1>1 DEF Sound
<1>3. req'[t] = IF Watching(t, steps) THEN q ELSE p
  BY Zenon DEF Commit
<1>4. Is(q, p.op, p.id, p.body, p.todo, p.snap, p.since \cup {u}, p.wrote, p.code)
  BY <1>2, FieldUpdate, Zenon
<1> HIDE DEF q
<1>5. CASE Watching(t, steps)
  <2>1. req'[t] = q
    BY <1>3, <1>5
  <2>2. Same(p, q)
    BY <1>4, Zenon DEF Is, Same
  <2>3. q.snap = p.snap /\ q.since = p.since \cup {u} /\ u \in q.since
    BY <1>4 DEF Is
  <2> QED BY <2>1, <2>2, <2>3
<1>6. CASE ~Watching(t, steps)
  <2>1. req'[t] = p
    BY <1>3, <1>6
  <2>2. Same(p, p)
    BY <1>2, Zenon DEF Same
  <2> QED BY <1>6, <2>1, <2>2
<1> QED BY <1>5, <1>6

\* Who minds a change of role or disabled watches, as does who writes attributes.
LEMMA Watches ==
  ASSUME IInv, NEW t \in Slots, req[t] # None
  PROVE  /\ Minds(req[t]) => Watching(t, AccessSteps)
         /\ Ahead(req[t]) = "attrs" => Watching(t, {"attrs"})
<1> DEFINE p == req[t]
<1>1. Sound(p, fresh)
  BY DEF IInv, Requests
<1>2. Equipped(p, fresh)
  BY <1>1 DEF Sound
<1>3. ASSUME NEW h \in {"stamp", "save", "admin", "remove", "attrs"}, Ahead(p) = h PROVE At(t, h)
  BY <1>3 DEF At, Ahead, Front
<1>4. Ahead(p) \in {"stamp", "attrs"} => p.snap # None
  BY <1>2, Zenon DEF Equipped
<1>5. Minds(p) => Watching(t, AccessSteps)
  BY <1>3, <1>4 DEF Minds, Watching, AccessSteps
<1>6. Ahead(p) = "attrs" => Watching(t, {"attrs"})
  BY <1>3, <1>4 DEF Watching
<1> QED BY <1>5, <1>6

\* The rows next are rows with v in the column f of u.
Written(rows, next, u, f, v) ==
    /\ next \in [DOMAIN rows -> Account] /\ DOMAIN next = DOMAIN rows
    /\ \A w \in DOMAIN rows : w # u => next[w] = rows[w]
    /\ next[u][f] = v /\ \A g \in Columns : g # f => next[u][g] = rows[u][g]

\* One column of one row changes.
LEMMA ColumnWritten ==
  ASSUME Tables, NEW u \in DOMAIN user, NEW f \in Columns, NEW v, Fits(f, v)
  PROVE  Written(user, [user EXCEPT ![u] = Updated(user[u], f, v)], u, f, v)
<1> DEFINE a == Updated(user[u], f, v)
<1>1. user = [w \in DOMAIN user |-> user[w]] /\ \A w \in DOMAIN user : user[w] \in Account
  BY Zenon DEF Tables
<1>2. a \in Account /\ a[f] = v /\ \A g \in Columns : g # f => a[g] = user[u][g]
  BY <1>1, AccountUpdate
<1> HIDE DEF a
<1> DEFINE rows == [user EXCEPT ![u] = a]
<1>3. /\ DOMAIN rows = DOMAIN user /\ rows[u] = a
      /\ \A w \in DOMAIN user : w # u => rows[w] = user[w]
  BY <1>1, Zenon
<1>4. rows \in [DOMAIN user -> Account]
  BY <1>1, <1>2, Zenon
<1> HIDE DEF rows
<1>5. Written(user, rows, u, f, v)
  BY <1>2, <1>3, <1>4, Zenon DEF Written
<1> QED BY <1>5, Zenon DEF rows, a

\* The INSERTs of SetUserCustomerGrants, and their commit.
LEMMA InsertGrantsStep ==
  ASSUME IInv, NEW s \in Slots, InsertGrants(s)
  PROVE  IInv'
<1> DEFINE r == req[s]
           u == r.id
           new == r.body.grants
           q == Done(s, {"grants"})
<1>1. At(s, "grants")
  BY DEF InsertGrants
<1>2. ASSUME NEW c \in {400, 500}, Answer(s, c) PROVE IInv'
  BY <1>1, <1>2, AnswerStep
<1>3. CASE /\ new \subseteq Customers /\ (new = {} \/ u \in DOMAIN user)
           /\ user' = IF u \in DOMAIN user
                      THEN [user EXCEPT ![u].grants = (@ \ r.snap) \cup new]
                      ELSE user
           /\ req' = [t \in Slots |->
                        IF t = s THEN Done(s, {"grants"})
                        ELSE IF Holds(t, "grants", u)
                        THEN [req[t] EXCEPT !.snap = @ \ r.snap, !.since = @ \cup {u}]
                        ELSE req[t]]
           /\ UNCHANGED <<fresh, session, token, late, skew, calls>>
  <2>1. /\ req'[s] = q /\ req' = [t \in Slots |-> req'[t]]
        /\ UNCHANGED <<fresh, session, token, late, skew>>
    BY <1>3, Zenon
  <2>2. /\ DOMAIN user' = DOMAIN user /\ user' \in [DOMAIN user -> Account]
        /\ \A v \in DOMAIN user : v # u => user'[v] = user[v]
        /\ u \in DOMAIN user => \A g \in Columns : g # "grants" => user'[u][g] = user[u][g]
    <3>1. CASE u \in DOMAIN user
      <4> DEFINE v == (user[u].grants \ r.snap) \cup new
      <4>1. user = [w \in DOMAIN user |-> user[w]] /\ user[u] \in Account
        BY <3>1, Zenon DEF IInv, Tables
      <4>2. v \in SUBSET Customers
        BY <1>3, <4>1 DEF Account
      <4>3. Fits("grants", v) /\ "grants" \in Columns
        BY <4>2 DEF Fits, Columns
      <4>4. user' = [user EXCEPT ![u] = Updated(user[u], "grants", v)]
        BY <1>3, <3>1, <4>1, Zenon DEF Updated
      <4> HIDE DEF v
      <4>5. Written(user, user', u, "grants", v)
        BY <3>1, <4>3, <4>4, ColumnWritten, Zenon DEF IInv
      <4> QED BY <4>5, Zenon DEF Written
    <3>2. CASE u \notin DOMAIN user
      BY <1>3, <3>2, Zenon DEF IInv, Tables
    <3> QED BY <3>1, <3>2
  <2>3. u \in DOMAIN user => /\ user'[u].email = user[u].email /\ user'[u].ext = user[u].ext
                             /\ user'[u].role = user[u].role
                             /\ user'[u].disabled = user[u].disabled
    BY <2>2 DEF Columns
  <2>4. Tables'
    <3>1. CASE u \in DOMAIN user
      <4>1. \A v \in DOMAIN user : v # u /\ user[v].ext = user'[u].ext => user'[u].ext = None
        BY <2>3, <3>1, Zenon DEF IInv, Tables, TypeOK
      <4>2. skew' \in BOOLEAN /\ session' \subseteq session /\ late' \subseteq session'
        BY <2>1 DEF IInv, Tables, TypeOK
      <4> QED BY <2>1, <2>2, <2>3, <3>1, <4>1, <4>2, RowChanged DEF IInv
    <3>2. CASE u \notin DOMAIN user
      <4>1. user' = user
        BY <1>3, <3>2
      <4> QED BY <2>1, <4>1 DEF IInv, Tables, TypeOK
    <3> QED BY <3>1, <3>2
  <2>5. /\ Sound(q, fresh) /\ Ahead(q) \in {"done", "admin"} /\ q.snap = None
    <3>1. Order(r.op, "grants", Front(Tail(r.todo)))
      BY <1>1, AtStep
    <3>2. {"grants"} \subseteq Leaves(r.op) \/ Front(Tail(r.todo)) = "done"
      BY <3>1 DEF Order, Leaves
    <3>3. "grants" \in {"grants", "admin", "remove", "attrs", "save"}
      OBVIOUS
    <3> QED BY <1>1, <3>2, <3>3, DoneSound, Zenon
  <2> HIDE DEF q
  <2>6. /\ Current(q, user', token', session', late') /\ \A v \in Ids : ~Holder(q, v)
    BY <2>5, NothingRead, Zenon
  <2>7. ASSUME NEW t \in Slots \ {s}, req[t] # None
        PROVE  Same(req[t], req'[t]) /\ Current(req'[t], user', token', session', late')
    <3> DEFINE p == req[t]
               x == [p EXCEPT !.snap = p.snap \ r.snap]
               y == [x EXCEPT !.since = p.since \cup {u}]
    <3>1. Sound(p, fresh) /\ Current(p, user, token, session, late)
      BY <2>7 DEF IInv, Requests
    <3>2. IsRequest(p)
      BY <3>1 DEF Sound
    <3>3. CASE Holds(t, "grants", u)
      <4>1. Is(x, p.op, p.id, p.body, p.todo, p.snap \ r.snap, p.since, p.wrote, p.code)
        BY <3>2, FieldUpdate, Zenon
      <4>2. IsRequest(x) /\ x.since = p.since
        BY <4>1 DEF Is
      <4>3. req'[t] = y
        BY <1>3, <3>3, <4>2, Zenon
      <4> HIDE DEF x
      <4>4. Is(y, x.op, x.id, x.body, x.todo, x.snap, p.since \cup {u}, x.wrote, x.code)
        BY <4>2, FieldUpdate, Zenon
      <4> HIDE DEF y
      <4>5. Ahead(p) = "grants" /\ p.id = u
        BY <3>3 DEF Holds, At, Ahead, Front
      <4>6. Same(p, y) /\ y.id = u /\ y.todo = p.todo /\ u \in y.since
        BY <4>1, <4>4, <4>5 DEF Is, Same
      <4>7. Ahead(y) = "grants"
        BY <4>5, <4>6 DEF Ahead
      <4>8. Current(y, user', token', session', late')
        BY <4>6, <4>7, Zenon DEF Current
      <4> QED BY <4>3, <4>6, <4>8
    <3>4. CASE ~Holds(t, "grants", u)
      <4>1. req'[t] = p
        BY <1>3, <3>4, Zenon
      <4>2. Same(p, p)
        BY <3>2, Zenon DEF Same
      <4>3. ~(Ahead(p) = "grants" /\ p.snap # None /\ p.id = u)
        BY <2>7, <3>4 DEF Holds, At, Ahead, Front
      <4>4. Ahead(p) \in {"admin", "remove"} /\ p.snap # None => p.id \in DOMAIN user
        BY <3>1, Zenon DEF Current
      <4>5. Fewer(session, session, late, late)
        BY Zenon DEF Fewer
      <4>6. Harmless(p, p, u, user, user')
        BY <2>2, <2>3, <4>2, <4>3, <4>4, Zenon DEF Harmless
      <4>7. Current(p, user', token, session, late)
        BY <3>1, <4>5, <4>6, OtherCurrent, Zenon
      <4> QED BY <2>1, <4>1, <4>2, <4>7
    <3> QED BY <3>3, <3>4
  <2>8. \A t \in Slots \ {s} : req[t] = None => req'[t] = None
    BY <1>3, Zenon DEF Holds, At
  <2>9. Requests' /\ Exclusive'
    <3>1. fresh' \in SUBSET fresh /\ fresh' = fresh
      BY <2>1
    <3> QED BY <2>1, <2>5, <2>6, <2>7, <2>8, <3>1, WriteStep, Zenon
  <2>10. \A v \in DOMAIN user : user'[v].role = user[v].role /\ user'[v].disabled = user[v].disabled
    BY <2>2, <2>3, Zenon
  <2>11. EnabledAdminRemains' /\ DisabledHasNoSession'
    BY <2>1, <2>2, <2>10, Zenon
       DEF IInv, EnabledAdminRemains, EnabledAdmin, DisabledHasNoSession
  <2> QED BY <2>4, <2>9, <2>11, Zenon DEF IInv
<1> QED BY <1>2, <1>3 DEF InsertGrants

\* A commit that is harmless to the others keeps the requests sound and current.
LEMMA CommitStep ==
  ASSUME IInv, NEW s \in Slots, NEW u, NEW steps, NEW r, Commit(s, u, steps, r),
         UNCHANGED <<fresh, token>>, Fewer(session, session', late, late'),
         Sound(r, fresh), Current(r, user', token', session', late'),
         \A v \in Ids : ~Holder(r, v),
         \A t \in Slots \ {s} : req[t] # None => Harmless(req[t], req'[t], u, user, user')
  PROVE  Requests' /\ Exclusive' /\ req' = [t \in Slots |-> req'[t]]
<1>1. req'[s] = r /\ req' = [t \in Slots |-> req'[t]]
  BY Zenon DEF Commit
<1>2. \A t \in Slots \ {s} : req[t] = None => req'[t] = None
  BY Zenon DEF Commit, Watching, At
<1>3. ASSUME NEW t \in Slots \ {s}, req[t] # None
      PROVE  Same(req[t], req'[t]) /\ Current(req'[t], user', token', session', late')
  <2>1. Current(req[t], user, token, session, late)
    BY <1>3 DEF IInv, Requests
  <2>2. Harmless(req[t], req'[t], u, user, user')
    BY <1>3
  <2>3. Current(req'[t], user', token, session', late')
    BY <2>1, <2>2, OtherCurrent, Zenon
  <2>4. token' = token
    OBVIOUS
  <2> QED BY <2>2, <2>3, <2>4, Zenon DEF Harmless
<1>4. fresh' \in SUBSET fresh /\ fresh' = fresh
  OBVIOUS
<1>5. Sound(req'[s], fresh') /\ Current(req'[s], user', token', session', late')
      /\ \A v \in Ids : ~Holder(req'[s], v)
  BY <1>1, <1>4, Zenon
<1>6. Requests' /\ Exclusive'
  BY <1>2, <1>3, <1>4, <1>5, WriteStep, Zenon
<1> QED BY <1>1, <1>6

\* The commit of UpdateUserAdmin.
LEMMA CommitUpdateStep ==
  ASSUME IInv, NEW s \in Slots, CommitUpdate(s)
  PROVE  IInv'
<1> DEFINE r == req[s]
           u == r.id
           b == r.body
           q == Done(s, {"access"})
<1>1. /\ At(s, "admin") /\ r.snap # None /\ user' = Changed(u, b)
      /\ session' = session \ r.snap /\ late' = late \ r.snap
      /\ skew' = (skew \/ r.since # {}) /\ Commit(s, u, AccessSteps, q)
      /\ UNCHANGED <<fresh, token>>
  BY DEF CommitUpdate
<1>2. /\ Sound(r, fresh) /\ Ahead(r) = "admin" /\ Current(r, user, token, session, late)
      /\ Front(Tail(r.todo)) = "done"
  BY <1>1, AtStep DEF Order
<1>3. /\ u \in DOMAIN user /\ b \in Bodies
      /\ r.since = {} => AdminAfterUpdate(user, u, b)
      /\ b.disabled = TRUE => session \cap {u} \subseteq r.snap \cup late
  BY <1>1, <1>2, Zenon DEF Current, Sound, BodyValid
<1>4. /\ DOMAIN user' = DOMAIN user /\ user' \in [DOMAIN user -> Account]
      /\ \A v \in DOMAIN user : v # u => user'[v] = user[v]
      /\ user'[u].disabled = IF b.disabled = None THEN user[u].disabled ELSE b.disabled
      /\ \A f \in {"email", "ext", "linked", "grants"} : user'[u][f] = user[u][f]
  <2>1. Tables
    BY DEF IInv
  <2> QED BY <1>1, <1>3, <2>1, ChangedIs, Zenon
<1>5. user'[u].email = user[u].email /\ user'[u].ext = user[u].ext
      /\ user'[u].grants = user[u].grants
  <2>1. \A f \in {"email", "ext", "linked", "grants"} : user'[u][f] = user[u][f]
    BY <1>4, Zenon
  <2> QED BY <2>1
<1>6. Sound(q, fresh) /\ Ahead(q) \in {"done", "admin"} /\ q.snap = None
  BY <1>1, <1>2, DoneSound
<1> HIDE DEF q
<1>7. Current(q, user', token', session', late') /\ \A v \in Ids : ~Holder(q, v)
  BY <1>6, NothingRead, Zenon
<1>8. Fewer(session, session', late, late')
  BY <1>1 DEF Fewer
<1>9. ASSUME NEW t \in Slots \ {s}, req[t] # None
      PROVE  Harmless(req[t], req'[t], u, user, user')
  <2> DEFINE p == req[t]
  <2>1. /\ Same(p, req'[t]) /\ req'[t].snap = p.snap
        /\ req'[t].since = p.since \/ req'[t].since = p.since \cup {u}
        /\ Watching(t, AccessSteps) => u \in req'[t].since
    BY <1>1, <1>9, Told, Zenon
  <2>2. Minds(p) => u \in req'[t].since
    BY <1>9, <2>1, Watches
  <2>3. Current(p, user, token, session, late)
    BY <1>9 DEF IInv, Requests
  <2>4. Ahead(p) \in {"admin", "remove"} /\ p.snap # None => p.id \in DOMAIN user
    BY <2>3, Zenon DEF Current
  <2> QED BY <1>4, <1>5, <2>1, <2>2, <2>4, Zenon DEF Harmless
<1>10. Requests' /\ Exclusive' /\ req' = [t \in Slots |-> req'[t]]
  BY <1>1, <1>6, <1>7, <1>8, <1>9, CommitStep, Zenon
<1>11. Tables'
  <2>1. \A v \in DOMAIN user : v # u /\ user[v].ext = user'[u].ext => user'[u].ext = None
    BY <1>3, <1>5, Zenon DEF IInv, Tables, TypeOK
  <2>2. skew' \in BOOLEAN /\ session' \subseteq session /\ late' \subseteq session'
    BY <1>1 DEF IInv, Tables, TypeOK
  <2>3. Tables
    BY DEF IInv
  <2> QED BY <1>1, <1>3, <1>4, <1>5, <1>10, <2>1, <2>2, <2>3, RowChanged
<1>12. EnabledAdminRemains'
  <2>1. CASE r.since = {}
    <3>1. ensureEnabledAdminRemains(user')
      BY <1>1, <1>3, <2>1, ChangedAdmin, Zenon DEF IInv
    <3> QED BY <3>1, Zenon DEF ensureEnabledAdminRemains, EnabledAdminRemains, EnabledAdmin
  <2>2. CASE r.since # {}
    BY <1>1, <2>2 DEF EnabledAdminRemains
  <2> QED BY <2>1, <2>2
<1>13. DisabledHasNoSession'
  <2> SUFFICES ASSUME NEW v \in session' \ late' PROVE v \in DOMAIN user' /\ ~user'[v].disabled
    BY Zenon DEF DisabledHasNoSession
  <2>1. v \in session \ late /\ v \notin r.snap
    BY <1>1
  <2>2. v \in DOMAIN user /\ ~user[v].disabled
    BY <2>1 DEF IInv, DisabledHasNoSession
  <2>3. CASE v # u
    BY <1>4, <2>2, <2>3, Zenon
  <2>4. CASE v = u
    <3>1. b.disabled # TRUE
      BY <1>3, <2>1, <2>4
    <3>2. b.disabled = None \/ b.disabled = FALSE
      BY <1>3, <3>1 DEF Bodies
    <3> QED BY <1>4, <2>2, <2>4, <3>2, Zenon
  <2> QED BY <2>3, <2>4
<1> QED BY <1>10, <1>11, <1>12, <1>13, Zenon DEF IInv

\* The commit of store.DeleteUser.
LEMMA CommitRemoveStep ==
  ASSUME IInv, NEW s \in Slots, CommitRemove(s)
  PROVE  IInv'
<1> DEFINE r == req[s]
           u == r.id
           q == Done(s, {"access"})
<1>1. /\ At(s, "remove") /\ r.snap # None /\ user' = Restrict(user, DOMAIN user \ {u})
      /\ session' = session \ r.snap /\ late' = late \ r.snap
      /\ skew' = (skew \/ r.since # {}) /\ Commit(s, u, AccessSteps, q)
      /\ UNCHANGED <<fresh, token>>
  BY DEF CommitRemove
<1>2. /\ Sound(r, fresh) /\ Ahead(r) = "remove" /\ Current(r, user, token, session, late)
      /\ Front(Tail(r.todo)) = "done" /\ r # None
  BY <1>1, AtStep DEF Order
<1>3. /\ u \in DOMAIN user /\ u \notin token
      /\ r.since = {} => AdminWithout(user, u)
      /\ session \cap {u} \subseteq r.snap \cup late
  BY <1>1, <1>2, Zenon DEF Current
<1>4. /\ DOMAIN user' = DOMAIN user \ {u} /\ user' \in [DOMAIN user \ {u} -> Account]
      /\ \A v \in DOMAIN user \ {u} : user'[v] = user[v]
      /\ ensureEnabledAdminRemains(user') <=> AdminWithout(user, u)
  <2>1. Tables
    BY DEF IInv
  <2> QED BY <1>1, <2>1, RestIs
<1>5. Sound(q, fresh) /\ Ahead(q) \in {"done", "admin"} /\ q.snap = None
  BY <1>1, <1>2, DoneSound
<1> HIDE DEF q
<1>6. Current(q, user', token', session', late') /\ \A v \in Ids : ~Holder(q, v)
  BY <1>5, NothingRead, Zenon
<1>7. Fewer(session, session', late, late')
  BY <1>1 DEF Fewer
<1>8. ASSUME NEW t \in Slots \ {s}, req[t] # None
      PROVE  Harmless(req[t], req'[t], u, user, user')
  <2> DEFINE p == req[t]
  <2>1. /\ Same(p, req'[t]) /\ req'[t].snap = p.snap
        /\ req'[t].since = p.since \/ req'[t].since = p.since \cup {u}
        /\ Watching(t, AccessSteps) => u \in req'[t].since
    BY <1>1, <1>8, Told, Zenon
  <2>2. Minds(p) => u \in req'[t].since
    BY <1>8, <2>1, Watches
  <2>3. Current(p, user, token, session, late)
    BY <1>8 DEF IInv, Requests
  <2>4. Ahead(p) \in {"admin", "remove"} /\ p.snap # None => p.id \in DOMAIN user'
    <3> SUFFICES ASSUME Ahead(p) \in {"admin", "remove"}, p.snap # None
                 PROVE  p.id \in DOMAIN user'
      OBVIOUS
    <3>1. p.id \in DOMAIN user
      BY <2>3, Zenon DEF Current
    <3>2. u \in Ids
      BY <1>3 DEF IInv, Tables, TypeOK
    <3>3. Holder(r, u) /\ (p.id = u => Holder(p, u))
      BY <1>1, <1>2 DEF Holder
    <3>4. p.id # u
      BY <1>2, <1>8, <3>2, <3>3, Zenon DEF IInv, Exclusive
    <3> QED BY <1>4, <3>1, <3>4
  <2> QED BY <1>4, <2>1, <2>2, <2>4, Zenon DEF Harmless
<1>9. Requests' /\ Exclusive' /\ req' = [t \in Slots |-> req'[t]]
  BY <1>1, <1>5, <1>6, <1>7, <1>8, CommitStep, Zenon
<1>10. Tables'
  <2>1. \A v \in DOMAIN user' : user'[v] \in Account
    BY <1>4, Zenon
  <2>2. /\ DOMAIN user' \subseteq Ids \ fresh' /\ fresh' \subseteq Ids
        /\ session' \cup token' \subseteq Ids \ fresh' /\ late' \subseteq session'
        /\ token' \subseteq DOMAIN user'
    BY <1>1, <1>3, <1>4 DEF IInv, Tables, TypeOK
  <2>3. \A v \in DOMAIN user' :
          /\ user'[v].email \in Emails /\ user'[v].role \in Roles
          /\ user'[v].disabled \in BOOLEAN /\ user'[v].grants \subseteq Customers
    BY <2>1 DEF Account
  <2>4. \A a, v \in DOMAIN user' :
          a # v => /\ user'[a].email # user'[v].email
                   /\ user'[a].ext = user'[v].ext => user'[a].ext = None
    <3>1. \A a, v \in DOMAIN user :
            a # v => /\ user[a].email # user[v].email
                     /\ user[a].ext = user[v].ext => user[a].ext = None
      BY DEF IInv, Tables, TypeOK
    <3>2. \A v \in DOMAIN user' : v \in DOMAIN user /\ user'[v] = user[v]
      BY <1>4, Zenon
    <3> QED BY <3>1, <3>2, Zenon
  <2>5. skew' \in BOOLEAN
    BY <1>1 DEF IInv, Tables
  <2> QED BY <1>4, <1>9, <2>2, <2>3, <2>4, <2>5, Zenon DEF Tables, TypeOK
<1>11. EnabledAdminRemains'
  <2>1. CASE r.since = {}
    <3>1. ensureEnabledAdminRemains(user')
      BY <1>3, <1>4, <2>1
    <3> QED BY <3>1, Zenon DEF ensureEnabledAdminRemains, EnabledAdminRemains, EnabledAdmin
  <2>2. CASE r.since # {}
    BY <1>1, <2>2 DEF EnabledAdminRemains
  <2> QED BY <2>1, <2>2
<1>12. DisabledHasNoSession'
  <2> SUFFICES ASSUME NEW v \in session' \ late' PROVE v \in DOMAIN user' /\ ~user'[v].disabled
    BY Zenon DEF DisabledHasNoSession
  <2>1. v \in session \ late /\ v \notin r.snap
    BY <1>1
  <2>2. v \in DOMAIN user /\ ~user[v].disabled
    BY <2>1 DEF IInv, DisabledHasNoSession
  <2>3. v # u
    BY <1>3, <2>1
  <2> QED BY <1>4, <2>2, <2>3, Zenon
<1> QED BY <1>9, <1>10, <1>11, <1>12, Zenon DEF IInv

\* UpdateSCIMUser writes the external id, which no other account has.
LEMMA UpdateSCIMStep ==
  ASSUME IInv, NEW s \in Slots, UpdateSCIMUser(s)
  PROVE  IInv'
<1> DEFINE r == req[s]
           u == r.id
           ext == IF r.op = "put" THEN r.body.ext ELSE r.snap.ext
           taken == ext # None /\ \E v \in DOMAIN user \ {u} : user[v].ext = ext
           q == Done(s, {"attrs"})
<1>1. At(s, "attrs")
  BY DEF UpdateSCIMUser
<1>2. CASE Answer(s, 500)
  BY <1>1, <1>2, AnswerStep
<1>3. CASE /\ u \in DOMAIN user /\ ~taken /\ user' = [user EXCEPT ![u].ext = ext]
           /\ Commit(s, u, {"attrs"}, q)
           /\ UNCHANGED <<fresh, session, token, late, skew, calls>>
  <2>1. /\ Sound(r, fresh) /\ Ahead(r) = "attrs" /\ r.op \in {"put", "patch"}
    BY <1>1, AtStep DEF Order
  <2>2. r.body \in Bodies /\ r.snap \in [ext : ExternalIds \cup {None}]
    BY <2>1 DEF Sound, BodyValid, Equipped
  <2>3. ext \in ExternalIds \cup {None}
    BY <2>2 DEF Bodies
  <2>4. Fits("ext", ext) /\ "ext" \in Columns
    BY <2>3 DEF Fits, Columns
  <2>5. \A v \in DOMAIN user : v # u /\ user[v].ext = ext => ext = None
    BY <1>3, Zenon
  <2> HIDE DEF ext
  <2>6. user = [w \in DOMAIN user |-> user[w]]
    BY Zenon DEF IInv, Tables
  <2>7. user' = [user EXCEPT ![u] = Updated(user[u], "ext", ext)]
    BY <1>3, <2>6, Zenon DEF Updated
  <2>8. Written(user, user', u, "ext", ext)
    <3>1. Tables /\ u \in DOMAIN user
      BY <1>3 DEF IInv
    <3>2. Written(user, [user EXCEPT ![u] = Updated(user[u], "ext", ext)], u, "ext", ext)
      BY <2>4, <3>1, ColumnWritten, Zenon
    <3> QED BY <2>7, <3>2, Zenon
  <2>9. /\ DOMAIN user' = DOMAIN user /\ user' \in [DOMAIN user -> Account]
        /\ \A v \in DOMAIN user : v # u => user'[v] = user[v]
    BY <2>8, Zenon DEF Written
  <2>10. /\ user'[u].ext = ext /\ user'[u].email = user[u].email
         /\ user'[u].role = user[u].role /\ user'[u].disabled = user[u].disabled
         /\ user'[u].grants = user[u].grants
    BY <2>8 DEF Written, Columns
  <2>11. Sound(q, fresh) /\ Ahead(q) \in {"done", "admin"} /\ q.snap = None
    <3>1. {"attrs"} \subseteq Leaves(r.op)
      BY <2>1 DEF Leaves
    <3> QED BY <1>1, <3>1, DoneSound
  <2> HIDE DEF q
  <2>12. Current(q, user', token', session', late') /\ \A v \in Ids : ~Holder(q, v)
    BY <2>11, NothingRead, Zenon
  <2>13. Fewer(session, session', late, late')
    BY <1>3 DEF Fewer
  <2>14. ASSUME NEW t \in Slots \ {s}, req[t] # None
         PROVE  Harmless(req[t], req'[t], u, user, user')
    <3> DEFINE p == req[t]
    <3>1. /\ Same(p, req'[t]) /\ req'[t].snap = p.snap
          /\ req'[t].since = p.since \/ req'[t].since = p.since \cup {u}
          /\ Watching(t, {"attrs"}) => u \in req'[t].since
      BY <1>3, <2>14, Told, Zenon
    <3>2. Ahead(p) = "attrs" => u \in req'[t].since
      BY <2>14, <3>1, Watches
    <3>3. Current(p, user, token, session, late)
      BY <2>14 DEF IInv, Requests
    <3>4. Ahead(p) \in {"admin", "remove"} /\ p.snap # None => p.id \in DOMAIN user
      BY <3>3, Zenon DEF Current
    <3> QED BY <2>9, <2>10, <3>1, <3>2, <3>4, Zenon DEF Harmless
  <2>15. Requests' /\ Exclusive' /\ req' = [t \in Slots |-> req'[t]]
    BY <1>3, <2>11, <2>12, <2>13, <2>14, CommitStep, Zenon
  <2>16. Tables'
    <3>1. \A v \in DOMAIN user : v # u /\ user[v].ext = user'[u].ext => user'[u].ext = None
      BY <2>5, <2>10, Zenon
    <3>2. skew' \in BOOLEAN /\ session' \subseteq session /\ late' \subseteq session'
      BY <1>3 DEF IInv, Tables, TypeOK
    <3>3. Tables
      BY DEF IInv
    <3> QED BY <1>3, <2>9, <2>10, <2>15, <3>1, <3>2, <3>3, RowChanged
  <2>17. \A v \in DOMAIN user : user'[v].role = user[v].role /\ user'[v].disabled = user[v].disabled
    BY <2>9, <2>10, Zenon
  <2>18. EnabledAdminRemains' /\ DisabledHasNoSession'
    BY <1>3, <2>9, <2>17, Zenon
       DEF IInv, EnabledAdminRemains, EnabledAdmin, DisabledHasNoSession
  <2> QED BY <2>15, <2>16, <2>18, Zenon DEF IInv
<1> QED BY <1>2, <1>3, Zenon DEF UpdateSCIMUser

-----------------------------------------------------------------------------
(* Logins.                                                                 *)

\* The rows next are rows with the login of u stamped.
Stamped(rows, next, u, role) ==
    /\ DOMAIN next = DOMAIN rows /\ next \in [DOMAIN rows -> Account]
    /\ \A v \in DOMAIN rows : v # u => next[v] = rows[v]
    /\ next[u].role = role
    /\ \A f \in {"email", "disabled", "ext", "grants"} : next[u][f] = rows[u][f]

\* A login writes the role and the identity.
LEMMA StampedIs ==
  ASSUME Tables, NEW u \in DOMAIN user, NEW role \in Roles
  PROVE  Stamped(user, [user EXCEPT ![u].role = role, ![u].linked = TRUE], u, role)
<1> DEFINE a == user[u]
           x == Updated(a, "role", role)
           yes == TRUE
           y == Updated(x, "linked", yes)
           rows == [user EXCEPT ![u].role = role, ![u].linked = TRUE]
<1>1. user = [v \in DOMAIN user |-> user[v]] /\ \A v \in DOMAIN user : user[v] \in Account
  BY Zenon DEF Tables
<1>2. /\ x \in Account /\ x.role = role /\ \A f \in Columns : f # "role" => x[f] = a[f]
  <2>1. a \in Account /\ "role" \in Columns
    BY <1>1 DEF Columns
  <2>2. Fits("role", role)
    BY Zenon DEF Fits
  <2> QED BY <2>1, <2>2, AccountUpdate
<1>3. /\ y \in Account /\ \A f \in Columns : f # "linked" => y[f] = x[f]
  <2>1. "linked" \in Columns /\ yes \in BOOLEAN
    BY DEF Columns
  <2> HIDE DEF x, yes
  <2>2. Fits("linked", yes)
    BY <2>1, Zenon DEF Fits
  <2> QED BY <1>2, <2>1, <2>2, AccountUpdate
<1>4. rows = [user EXCEPT ![u] = y]
  BY <1>1, Zenon DEF Updated
<1> HIDE DEF x, y, rows
<1>5. DOMAIN rows = DOMAIN user /\ rows[u] = y
      /\ \A v \in DOMAIN user : v # u => rows[v] = user[v]
  BY <1>1, <1>4, Zenon
<1>6. rows \in [DOMAIN user -> Account]
  BY <1>1, <1>3, <1>4, Zenon
<1>7. y.role = role /\ \A f \in {"email", "disabled", "ext", "grants"} : y[f] = a[f]
  BY <1>2, <1>3 DEF Columns
<1>8. Stamped(user, rows, u, role)
  BY <1>5, <1>6, <1>7, Zenon DEF Stamped
<1> QED BY <1>8, Zenon DEF rows

LetIn(s) == [Done(s, {"login"}) EXCEPT !.since = {}]
Refused(s) == [LetIn(s) EXCEPT !.todo = <<>>, !.code = 403]

\* The login goes on to save its session, or is refused.
LEMMA StampedRequest ==
  ASSUME IInv, NEW s \in Slots, At(s, "stamp"), NEW rows, NEW tokens, NEW sessions, NEW lates,
         req[s].id \in Ids \ fresh, req[s].id \in DOMAIN rows, NEW q,
         (~rows[req[s].id].disabled /\ q = LetIn(s)) \/ q = Refused(s)
  PROVE  /\ Sound(q, fresh) /\ Current(q, rows, tokens, sessions, lates)
         /\ \A v \in Ids : ~Holder(q, v)
<1> DEFINE r == req[s]
           d == Done(s, {"login"})
           n == [d EXCEPT !.since = {}]
           x == [n EXCEPT !.todo = <<>>]
           y == [x EXCEPT !.code = 403]
<1>1. /\ IsRequest(r) /\ Sound(r, fresh) /\ Ahead(r) = "stamp" /\ r.op = "login"
      /\ Front(Tail(r.todo)) = "save" /\ <<>> \in Plans[r.op]
  BY AtStep DEF Order
<1>2. Is(d, r.op, r.id, r.body, Tail(r.todo), None, r.since, r.wrote \cup {"login"}, r.code)
  BY <1>1, DoneIs
<1>3. IsRequest(d)
  BY <1>2 DEF Is
<1>4. (~rows[r.id].disabled /\ q = n) \/ q = y
  BY Zenon DEF LetIn, Refused
<1> HIDE DEF d
<1>5. Is(n, r.op, r.id, r.body, Tail(r.todo), None, {}, r.wrote \cup {"login"}, r.code)
  <2>1. Is(n, d.op, d.id, d.body, d.todo, d.snap, {}, d.wrote, d.code)
    BY <1>3, FieldUpdate, Zenon
  <2> HIDE DEF n
  <2> QED BY <1>2, <2>1, Zenon DEF Is
<1>6. IsRequest(n)
  BY <1>5 DEF Is
<1> HIDE DEF n
<1>7. Is(y, r.op, r.id, r.body, <<>>, None, {}, r.wrote \cup {"login"}, 403)
  <2>1. Is(x, n.op, n.id, n.body, <<>>, n.snap, n.since, n.wrote, n.code)
    BY <1>6, FieldUpdate, Zenon
  <2>2. IsRequest(x)
    BY <2>1 DEF Is
  <2> HIDE DEF x
  <2>3. Is(y, x.op, x.id, x.body, x.todo, x.snap, x.since, x.wrote, 403)
    BY <2>2, FieldUpdate, Zenon
  <2> HIDE DEF y
  <2> QED BY <1>5, <2>1, <2>3, Zenon DEF Is
<1> HIDE DEF y
<1>8. {"login"} \subseteq Leaves(r.op) /\ r.wrote \subseteq Leaves(r.op)
  <2>1. Goes(r)
    BY <1>1 DEF Sound
  <2>2. r.wrote \subseteq Leaves(r.op)
    BY <1>1, <2>1 DEF Goes
  <2> QED BY <1>1, <2>2 DEF Leaves
<1>9. CASE q = n /\ ~rows[r.id].disabled
  <2>1. Ahead(n) = "save" /\ n.id = r.id /\ n.snap = None
    BY <1>1, <1>5 DEF Is, Ahead
  <2>2. Equipped(n, fresh)
    BY <2>1, Zenon DEF Equipped
  <2>3. Sound(n, fresh)
    <3> DEFINE what == {"login"}
               since == {}
    <3>1. "stamp" # "done" /\ what \subseteq Leaves(r.op)
      BY <1>8
    <3>2. Is(n, r.op, r.id, r.body, Tail(r.todo), None, since, r.wrote \cup what, r.code)
      BY <1>5
    <3> HIDE DEF what, since
    <3> QED BY <2>2, <3>1, <3>2, NextSound, Zenon
  <2>4. Current(n, rows, tokens, sessions, lates) /\ \A v \in Ids : ~Holder(n, v)
    BY <1>9, <2>1, Zenon DEF Current, Holder
  <2> QED BY <1>9, <2>3, <2>4, Zenon
<1>10. CASE q = y
  <2>1. Ahead(y) = "done" /\ y.snap = None
    BY <1>7 DEF Is, Ahead, Front
  <2>2. Equipped(y, fresh)
    BY <2>1, Zenon DEF Equipped
  <2>3. Goes(y)
    BY <1>7, <1>8, <2>1 DEF Is, Goes
  <2>4. Sound(y, fresh)
    BY <1>1, <1>7, <2>2, <2>3, Zenon DEF Is, Sound
  <2>5. Current(y, rows, tokens, sessions, lates) /\ \A v \in Ids : ~Holder(y, v)
    BY <2>1, Zenon DEF Current, Holder
  <2> QED BY <1>10, <2>4, <2>5, Zenon
<1> QED BY <1>4, <1>9, <1>10

\* UpsertUserByIdentity writes back the role it has read.
LEMMA StampLoginStep ==
  ASSUME IInv, NEW s \in Slots, StampLogin(s)
  PROVE  IInv'
<1> DEFINE r == req[s]
           u == r.id
           role == IF r.body.email \in AdminEmails THEN "admin" ELSE r.snap.role
           next == [Done(s, {"login"}) EXCEPT !.since = {}]
           q == IF user[u].disabled THEN [next EXCEPT !.todo = <<>>, !.code = 403] ELSE next
           steps == IF role = user[u].role THEN {} ELSE AccessSteps
<1>1. At(s, "stamp") /\ u # None
  BY DEF StampLogin
<1>2. CASE Answer(s, 500)
  BY <1>1, <1>2, AnswerStep
<1>3. CASE /\ u \in DOMAIN user
           /\ user' = [user EXCEPT ![u].role = role, ![u].linked = TRUE]
           /\ skew' = (skew \/ u \in r.since) /\ Commit(s, u, steps, q)
           /\ UNCHANGED <<fresh, session, token, late, calls>>
  <2>1. Sound(r, fresh) /\ Ahead(r) = "stamp" /\ Current(r, user, token, session, late)
    BY <1>1, AtStep
  <2>2. Equipped(r, fresh)
    BY <2>1 DEF Sound
  <2>3. r.snap.role \in Roles
    BY <1>1, <2>1, <2>2, Zenon DEF Equipped
  <2>4. role \in Roles
    BY <2>3 DEF Roles
  <2>5. u \notin r.since => r.snap.role = user[u].role
    BY <1>1, <1>3, <2>1, Zenon DEF Current
  <2>6. Tables
    BY DEF IInv
  <2>7. u \in Ids \ fresh
    BY <1>3, <2>6 DEF Tables, TypeOK
  <2>8. u \notin r.since => role = user[u].role \/ role = "admin"
    BY <2>5, Zenon
  <2> HIDE DEF role
  <2>9. /\ DOMAIN user' = DOMAIN user /\ user' \in [DOMAIN user -> Account]
        /\ \A v \in DOMAIN user : v # u => user'[v] = user[v]
        /\ user'[u].role = role
        /\ \A f \in {"email", "disabled", "ext", "grants"} : user'[u][f] = user[u][f]
    <3>1. Stamped(user, user', u, role)
      BY <1>3, <2>4, <2>6, StampedIs, Zenon
    <3> QED BY <3>1, Zenon DEF Stamped
  <2>10. /\ user'[u].email = user[u].email /\ user'[u].ext = user[u].ext
         /\ user'[u].disabled = user[u].disabled /\ user'[u].grants = user[u].grants
    <3>1. /\ user'[u].email = user[u].email /\ user'[u].ext = user[u].ext
          /\ user'[u].grants = user[u].grants
      BY <2>9, SMT
    <3>2. user'[u].disabled = user[u].disabled
      BY <2>9, Zenon
    <3> QED BY <3>1, <3>2, Zenon
  <2>11. /\ Sound(q, fresh) /\ Current(q, user', token', session', late')
         /\ \A v \in Ids : ~Holder(q, v)
    <3>1. (~user'[u].disabled /\ q = LetIn(s)) \/ q = Refused(s)
      BY <2>10, Zenon DEF LetIn, Refused
    <3>2. u \in DOMAIN user'
      BY <1>3, <2>9
    <3> HIDE DEF q
    <3> QED BY <1>1, <2>7, <3>1, <3>2, StampedRequest, Zenon
  <2> HIDE DEF q
  <2>12. Fewer(session, session', late, late')
    BY <1>3 DEF Fewer
  <2>13. ASSUME NEW t \in Slots \ {s}, req[t] # None
         PROVE  Harmless(req[t], req'[t], u, user, user')
    <3> DEFINE p == req[t]
    <3>1. /\ Same(p, req'[t]) /\ req'[t].snap = p.snap
          /\ req'[t].since = p.since \/ req'[t].since = p.since \cup {u}
          /\ Watching(t, steps) => u \in req'[t].since
      <4> HIDE DEF steps
      <4> QED BY <1>3, <2>13, Told, Zenon
    <3>2. Minds(p) => u \in req'[t].since \/ user'[u].role = user[u].role
      <4>1. CASE role = user[u].role
        BY <2>9, <4>1
      <4>2. CASE role # user[u].role
        <5>1. steps = AccessSteps
          BY <4>2
        <5>2. Minds(p) => Watching(t, AccessSteps)
          BY <2>13, Watches
        <5> QED BY <3>1, <5>1, <5>2, Zenon
      <4> QED BY <4>1, <4>2
    <3>3. Current(p, user, token, session, late)
      BY <2>13 DEF IInv, Requests
    <3>4. Ahead(p) \in {"admin", "remove"} /\ p.snap # None => p.id \in DOMAIN user
      BY <3>3, Zenon DEF Current
    <3> QED BY <2>9, <2>10, <3>1, <3>2, <3>4, Zenon DEF Harmless
  <2>14. Requests' /\ Exclusive' /\ req' = [t \in Slots |-> req'[t]]
    <3> HIDE DEF steps
    <3> QED BY <1>3, <2>11, <2>12, <2>13, CommitStep, Zenon
  <2>15. Tables'
    <3>1. \A v \in DOMAIN user : v # u /\ user[v].ext = user'[u].ext => user'[u].ext = None
      BY <1>3, <2>6, <2>10, Zenon DEF Tables, TypeOK
    <3>2. skew' \in BOOLEAN /\ session' \subseteq session /\ late' \subseteq session'
      BY <1>3, <2>6 DEF Tables, TypeOK
    <3> QED BY <1>3, <2>6, <2>9, <2>10, <2>14, <3>1, <3>2, RowChanged
  <2>16. EnabledAdminRemains'
    <3>1. CASE skew'
      BY <3>1 DEF EnabledAdminRemains
    <3>2. CASE ~skew'
      <4>1. ~skew /\ u \notin r.since
        BY <1>3, <3>2, <2>6 DEF Tables
      <4>2. PICK v \in DOMAIN user : EnabledAdmin(user, v)
        BY <4>1 DEF IInv, EnabledAdminRemains
      <4>3. user'[v].role = "admin" /\ ~user'[v].disabled
        BY <2>8, <2>9, <2>10, <4>1, <4>2, Zenon DEF EnabledAdmin
      <4> QED BY <2>9, <4>3, Zenon DEF EnabledAdminRemains, EnabledAdmin
    <3> QED BY <3>1, <3>2
  <2>17. \A v \in DOMAIN user : user'[v].disabled = user[v].disabled
    BY <2>9, <2>10, Zenon
  <2>18. DisabledHasNoSession'
    BY <1>3, <2>9, <2>17, Zenon DEF IInv, DisabledHasNoSession
  <2> QED BY <2>14, <2>15, <2>16, <2>18, Zenon DEF IInv
<1> QED BY <1>2, <1>3, Zenon DEF StampLogin

\* A holder of a row lock has it locked.
LEMMA HolderLocks ==
  ASSUME NEW t \in Slots, req[t] # None, NEW u, Holder(req[t], u)
  PROVE  Locked(u)
BY DEF Locked, Holds, At, Holder, Ahead, Front

\* The session is saved after the handler has answered.
LEMMA SaveSessionStep ==
  ASSUME IInv, NEW s \in Slots, SaveSession(s)
  PROVE  IInv'
<1> DEFINE r == req[s]
           u == r.id
           q == Done(s, {"session"})
<1>1. /\ At(s, "save") /\ session' = session \cup {u}
      /\ late' = IF u \in r.since \/ Locked(u) THEN late \cup {u} ELSE late
      /\ req' = [req EXCEPT ![s] = q] /\ UNCHANGED <<user, fresh, token, skew>>
  BY DEF SaveSession
<1>2. /\ Sound(r, fresh) /\ Ahead(r) = "save" /\ Current(r, user, token, session, late)
      /\ Front(Tail(r.todo)) = "done"
  BY <1>1, AtStep DEF Order
<1>3. u \in Ids \ fresh
  BY <1>2 DEF Sound, Equipped
<1>4. Sound(q, fresh) /\ Ahead(q) \in {"done", "admin"} /\ q.snap = None
  BY <1>1, <1>2, DoneSound
<1> HIDE DEF q
<1>5. Current(q, user', token', session', late') /\ \A v \in Ids : ~Holder(q, v)
  BY <1>4, NothingRead, Zenon
<1>6. /\ req'[s] = q /\ (\A t \in Slots \ {s} : req'[t] = req[t])
      /\ req' = [t \in Slots |-> req'[t]]
  BY <1>1, Zenon DEF IInv, Tables
<1>7. ASSUME NEW t \in Slots \ {s}, req[t] # None
      PROVE  Same(req[t], req'[t]) /\ Current(req'[t], user', token', session', late')
  <2> DEFINE p == req[t]
  <2>1. Sound(p, fresh) /\ Current(p, user, token, session, late)
    BY <1>7 DEF IInv, Requests
  <2>2. Same(p, p)
    BY <2>1, Zenon DEF Sound, Same
  <2>3. Holder(p, p.id) =>
          /\ p.id \in session' =>
                p.id \in late' \/ (p.id \in session /\ (p.id \in late => p.id \in late'))
          /\ Ahead(p) = "remove" => p.id \notin token
    <3> SUFFICES ASSUME Holder(p, p.id)
                 PROVE  /\ p.id \in session' =>
                             \/ p.id \in late'
                             \/ p.id \in session /\ (p.id \in late => p.id \in late')
                        /\ Ahead(p) = "remove" => p.id \notin token
      OBVIOUS
    <3>1. Locked(p.id)
      BY <1>7, HolderLocks
    <3>2. Ahead(p) = "remove" => p.id \notin token
      BY <2>1, Zenon DEF Holder, Current
    <3> QED BY <1>1, <3>1, <3>2
  <2>4. Current(p, user, token, session', late')
    BY <2>1, <2>3, SessionsCurrent, Zenon
  <2> QED BY <1>1, <1>6, <2>2, <2>4, Zenon
<1>8. \A t \in Slots \ {s} : req[t] = None => req'[t] = None
  BY <1>6, Zenon
<1>9. Requests' /\ Exclusive'
  <2>1. fresh' \in SUBSET fresh /\ fresh' = fresh
    BY <1>1
  <2> QED BY <1>4, <1>5, <1>6, <1>7, <1>8, <2>1, WriteStep, Zenon
<1>10. Tables'
  <2>1. late' \subseteq session' /\ session' \cup token' \subseteq Ids \ fresh'
    BY <1>1, <1>3 DEF IInv, Tables, TypeOK
  <2> QED BY <1>1, <1>6, <2>1 DEF IInv, Tables, TypeOK
<1>11. EnabledAdminRemains'
  BY <1>1 DEF IInv, EnabledAdminRemains, EnabledAdmin
<1>12. DisabledHasNoSession'
  <2>1. u \notin r.since => u \in DOMAIN user /\ ~user[u].disabled
    BY <1>2, Zenon DEF Current
  <2>2. ASSUME NEW v \in session' \ late' PROVE v \in DOMAIN user /\ ~user[v].disabled
    <3>1. CASE v = u
      BY <1>1, <2>1, <2>2, <3>1
    <3>2. CASE v # u
      BY <1>1, <2>2, <3>2 DEF IInv, DisabledHasNoSession
    <3> QED BY <3>1, <3>2
  <2> QED BY <1>1, <2>2, Zenon DEF DisabledHasNoSession
<1> QED BY <1>9, <1>10, <1>11, <1>12, Zenon DEF IInv

\* Steps that only change sessions or tokens.
LEMMA QuietStep ==
  ASSUME IInv, UNCHANGED <<user, fresh, req, skew>>,
         \A t \in Slots : req[t] # None => Current(req[t], user, token', session', late'),
         late' \subseteq session', session' \cup token' \subseteq Ids \ fresh,
         token' \subseteq DOMAIN user,
         \A v \in session' \ late' : v \in session \ late
  PROVE  IInv'
<1>1. Tables'
  BY DEF IInv, Tables, TypeOK
<1>2. Requests'
  BY DEF IInv, Requests
<1>3. Exclusive' /\ EnabledAdminRemains'
  BY DEF IInv, Exclusive, EnabledAdminRemains, EnabledAdmin
<1>4. DisabledHasNoSession'
  BY DEF IInv, DisabledHasNoSession
<1> QED BY <1>1, <1>2, <1>3, <1>4 DEF IInv

\* A logout ends one session.
LEMMA LogoutStep ==
  ASSUME IInv, NEW u \in Ids, Logout(u)
  PROVE  IInv'
<1>1. /\ session' = session \ {u} /\ late' = late \ {u}
      /\ UNCHANGED <<user, fresh, token, req, skew>>
  BY DEF Logout
<1>2. ASSUME NEW t \in Slots, req[t] # None
      PROVE  Current(req[t], user, token', session', late')
  <2> DEFINE p == req[t]
  <2>1. Current(p, user, token, session, late)
    BY <1>2 DEF IInv, Requests
  <2>2. Holder(p, p.id) => (Ahead(p) = "remove" => p.id \notin token)
    BY <2>1, Zenon DEF Holder, Current
  <2>3. p.id \in session' => p.id \in session /\ (p.id \in late => p.id \in late')
    BY <1>1
  <2>4. Current(p, user, token, session', late')
    BY <2>1, <2>2, <2>3, SessionsCurrent, Zenon
  <2> QED BY <1>1, <2>4
<1>3. /\ late' \subseteq session' /\ session' \cup token' \subseteq Ids \ fresh
      /\ token' \subseteq DOMAIN user /\ \A v \in session' \ late' : v \in session \ late
  BY <1>1 DEF IInv, Tables, TypeOK
<1> QED BY <1>1, <1>2, <1>3, QuietStep

\* A token is created for an account that nobody is deleting.
LEMMA CreateTokenStep ==
  ASSUME IInv, NEW u \in Ids, CreateAPIToken(u)
  PROVE  IInv'
<1>1. /\ u \in session \cap DOMAIN user /\ ~Locked(u) /\ token' = token \cup {u}
      /\ UNCHANGED <<user, fresh, session, req, late, skew>>
  BY DEF CreateAPIToken
<1>2. ASSUME NEW t \in Slots, req[t] # None
      PROVE  Current(req[t], user, token', session', late')
  <2> DEFINE p == req[t]
  <2>1. Current(p, user, token, session, late)
    BY <1>2 DEF IInv, Requests
  <2>2. Holder(p, p.id) => (Ahead(p) = "remove" => p.id \notin token)
    BY <2>1, Zenon DEF Holder, Current
  <2>3. Holder(p, p.id) => p.id # u
    BY <1>1, <1>2, HolderLocks, Zenon
  <2>4. Holder(p, p.id) => (Ahead(p) = "remove" => p.id \notin token')
    BY <1>1, <2>2, <2>3
  <2>5. Current(p, user, token', session, late)
    BY <2>1, <2>4, SessionsCurrent, Zenon
  <2> QED BY <1>1, <2>5
<1>3. /\ late' \subseteq session' /\ session' \cup token' \subseteq Ids \ fresh
      /\ token' \subseteq DOMAIN user /\ \A v \in session' \ late' : v \in session \ late
  BY <1>1 DEF IInv, Tables, TypeOK
<1> QED BY <1>1, <1>2, <1>3, QuietStep

\* Nothing happens.
LEMMA IdleStep ==
  ASSUME IInv, UNCHANGED vars
  PROVE  IInv'
<1>1. UNCHANGED <<user, fresh, session, token, req, late, skew>>
  BY DEF vars
<1>2. \A t \in Slots : req[t] # None => Current(req[t], user, token', session', late')
  BY <1>1 DEF IInv, Requests
<1>3. /\ late' \subseteq session' /\ session' \cup token' \subseteq Ids \ fresh
      /\ token' \subseteq DOMAIN user /\ \A v \in session' \ late' : v \in session \ late
  BY <1>1 DEF IInv, Tables, TypeOK
<1> QED BY <1>1, <1>2, <1>3, QuietStep

-----------------------------------------------------------------------------
(* The invariant.                                                          *)

\* Every step of a request keeps the invariant.
LEMMA RequestStep ==
  ASSUME IInv, NEW s \in Slots, Step(s)
  PROVE  IInv'
<1>1. CASE Insert(s)
  BY <1>1, InsertStep
<1>2. CASE ClearGrants(s)
  BY <1>2, ClearGrantsStep
<1>3. CASE InsertGrants(s)
  BY <1>3, InsertGrantsStep
<1>4. CASE UpdateUserAdmin(s)
  BY <1>4, UpdateAdminStep
<1>5. CASE CommitUpdate(s)
  BY <1>5, CommitUpdateStep
<1>6. CASE GetUser(s)
  BY <1>6, GetUserStep
<1>7. CASE RemoveUser(s)
  BY <1>7, RemoveUserStep
<1>8. CASE CommitRemove(s)
  BY <1>8, CommitRemoveStep
<1>9. CASE load(s)
  BY <1>9, LoadStep
<1>10. CASE UpdateSCIMUser(s)
  BY <1>10, UpdateSCIMStep
<1>11. CASE ReadIdentity(s)
  BY <1>11, ReadIdentityStep
<1>12. CASE InsertLogin(s)
  BY <1>12, InsertLoginStep
<1>13. CASE StampLogin(s)
  BY <1>13, StampLoginStep
<1>14. CASE SaveSession(s)
  BY <1>14, SaveSessionStep
<1>15. CASE Return(s)
  BY <1>15, ReturnStep
<1> QED BY <1>1, <1>2, <1>3, <1>4, <1>5, <1>6, <1>7, <1>8, <1>9, <1>10, <1>11, <1>12, <1>13,
           <1>14, <1>15 DEF Step

\* IInv is inductive.
LEMMA NextHolds == IInv /\ [Next]_vars => IInv'
<1> SUFFICES ASSUME IInv, [Next]_vars PROVE IInv'
  OBVIOUS
<1>1. ASSUME NEW s \in Slots, Step(s) PROVE IInv'
  BY <1>1, RequestStep
<1>2. ASSUME NEW s \in Slots, NEW e \in Emails, finish(s, e) PROVE IInv'
  BY <1>2, LoginStep
<1>3. ASSUME NEW s \in Slots, NEW b \in Invites, InviteUser(s, b) PROVE IInv'
  BY <1>3, InviteStep
<1>4. ASSUME NEW s \in Slots, NEW c, NEW u \in Known, DeleteUser(s, c, u) PROVE IInv'
  BY <1>4, DeleteStep
<1>5. ASSUME NEW s \in Slots, NEW c, NEW u \in Known, NEW b \in Updates, UpdateUser(s, c, u, b)
      PROVE  IInv'
  BY <1>5, UpdateStep
<1>6. ASSUME NEW s \in Slots, NEW b \in Creates, createUser(s, b) PROVE IInv'
  BY <1>6, CreateStep
<1>7. ASSUME NEW s \in Slots, NEW u \in Known, NEW b \in Puts, putUser(s, u, b) PROVE IInv'
  BY <1>7, PutStep
<1>8. ASSUME NEW s \in Slots, NEW u \in Known, NEW b \in Patches, patchUser(s, u, b) PROVE IInv'
  BY <1>8, PatchStep
<1>9. ASSUME NEW u \in Ids, Logout(u) PROVE IInv'
  BY <1>9, LogoutStep
<1>10. ASSUME NEW u \in Ids, CreateAPIToken(u) PROVE IInv'
  BY <1>10, CreateTokenStep
<1>11. CASE UNCHANGED vars
  BY <1>11, IdleStep
<1>12. CASE Rest
  BY <1>12, IdleStep DEF Rest
<1>13. CASE Next
  BY <1>1, <1>2, <1>3, <1>4, <1>5, <1>6, <1>7, <1>8, <1>9, <1>10, <1>12, <1>13, Zenon DEF Next
<1> QED BY <1>11, <1>13

\* The accounts and the requests stay in step in every behaviour.
THEOREM Invariant == Spec => []IInv
<1> QED BY InitHolds, NextHolds, PTL DEF Spec

\* The users table keeps its types and its unique indexes on address and external
\* id, tokens belong to accounts, and sessions to ids that were used.
THEOREM TypeCorrect == Spec => []TypeOK
<1>1. IInv => TypeOK
  BY DEF IInv, Tables
<1> QED BY <1>1, Invariant, PTL

\* ErrLastAdmin: ensureEnabledAdminRemains leaves an enabled admin, unless an
\* account changed between a count and its commit or under a login.
THEOREM AdminRemains == Spec => []EnabledAdminRemains
<1>1. IInv => EnabledAdminRemains
  BY DEF IInv
<1> QED BY <1>1, Invariant, PTL

\* deleteSessionsByUser ends the sessions of a disabled or deleted account, but
\* for those that were saved late.
THEOREM DisabledSignedOut == Spec => []DisabledHasNoSession
<1>1. IInv => DisabledHasNoSession
  BY DEF IInv
<1> QED BY <1>1, Invariant, PTL

\* A refused request has changed nobody's access.
THEOREM RefusalsKeepAccess == Spec => []RefusedKeepsAccess
<1>1. IInv => RefusedKeepsAccess
  <2> SUFFICES ASSUME IInv, NEW s \in Slots, req[s] # None, req[s].todo = <<>>,
                      req[s].code >= 400
               PROVE  req[s].wrote \subseteq Leaves(req[s].op)
    BY Zenon DEF RefusedKeepsAccess, Leaves
  <2>1. Sound(req[s], fresh)
    BY DEF IInv, Requests
  <2>2. Goes(req[s]) /\ Ahead(req[s]) = "done"
    BY <2>1 DEF Sound, Ahead, Front
  <2> QED BY <2>2 DEF Goes
<1> QED BY <1>1, Invariant, PTL

-----------------------------------------------------------------------------
(* What a step does to an account is what a request asks for.              *)

\* An open request asks for the new value of a column, or was overtaken.
Asks(u, field, step) ==
    \E s \in Slots : /\ Holds(s, step, u)
                     /\ \/ u \in req[s].since
                        \/ req[s].body[field] = user'[u][field] /\ req[s].op # "patch"

AskedFor(u) ==
    /\ user'[u].role = user[u].role \/ Asks(u, "role", "admin") \/ Asks(u, "role", "stamp")
       \/ (user[u].email \in AdminEmails /\ user'[u].role = "admin")
    /\ user'[u].grants = user[u].grants \/ Asks(u, "grants", "grants")
    /\ user'[u].ext = user[u].ext \/ Asks(u, "ext", "attrs")

\* SetUserCustomerGrants leaves the grants it was asked for, unless it was
\* overtaken.
LEMMA GrantsAsked ==
  ASSUME IInv, NEW s \in Slots, InsertGrants(s), NEW v \in DOMAIN user, v \in DOMAIN user'
  PROVE  AskedFor(v)
<1> DEFINE r == req[s]
           u == r.id
           new == r.body.grants
           all == (user[u].grants \ r.snap) \cup new
<1>1. At(s, "grants") /\ r.snap # None
  BY DEF InsertGrants
<1>2. CASE user'[v] = user[v]
  BY <1>2, Zenon DEF AskedFor
<1>3. CASE user'[v] # user[v]
  <2>1. new \subseteq Customers /\ u \in DOMAIN user
        /\ user' = [user EXCEPT ![u].grants = (@ \ r.snap) \cup new]
    BY <1>3, Zenon DEF InsertGrants, Answer
  <2>2. user = [w \in DOMAIN user |-> user[w]] /\ user[u] \in Account
    BY <2>1, Zenon DEF IInv, Tables
  <2>3. all \in SUBSET Customers
    BY <2>1, <2>2 DEF Account
  <2>4. Fits("grants", all) /\ "grants" \in Columns
    BY <2>3 DEF Fits, Columns
  <2>5. user' = [user EXCEPT ![u] = Updated(user[u], "grants", all)]
    BY <2>1, <2>2, Zenon DEF Updated
  <2>6. Written(user, user', u, "grants", all)
    <3> HIDE DEF all
    <3>1. Tables
      BY DEF IInv
    <3>2. Written(user, [user EXCEPT ![u] = Updated(user[u], "grants", all)], u, "grants", all)
      BY <2>1, <2>4, <3>1, ColumnWritten, Zenon
    <3> QED BY <2>5, <3>2, Zenon
  <2>7. v = u
    BY <1>3, <2>6, Zenon DEF Written
  <2>8. user'[v].role = user[v].role /\ user'[v].ext = user[v].ext /\ user'[v].grants = all
    <3> HIDE DEF all
    <3> QED BY <2>6, <2>7 DEF Written, Columns
  <2>9. Holds(s, "grants", v)
    BY <1>1, <2>7 DEF Holds
  <2>10. r.op # "patch" /\ (v \in r.since \/ all = new)
    <3>1. /\ Ahead(r) = "grants" /\ Current(r, user, token, session, late)
          /\ r.op \in {"invite", "update"}
      BY <1>1, AtStep DEF Order
    <3>2. u \in r.since \/ user[u].grants \subseteq r.snap
      BY <1>1, <2>1, <3>1, Zenon DEF Current
    <3>3. user[u].grants \subseteq r.snap => all = new
      OBVIOUS
    <3> QED BY <2>7, <3>1, <3>2, <3>3
  <2>11. Asks(v, "grants", "grants")
    <3>1. all = new => r.body.grants = user'[v].grants
      BY <2>8
    <3> QED BY <2>9, <2>10, <3>1, Zenon DEF Asks
  <2> QED BY <2>8, <2>11, Zenon DEF AskedFor
<1> QED BY <1>2, <1>3

\* UpdateUserAdmin writes the role it was asked for; SCIM asks for none.
LEMMA AccessAsked ==
  ASSUME IInv, NEW s \in Slots, CommitUpdate(s), NEW v \in DOMAIN user, v \in DOMAIN user'
  PROVE  AskedFor(v)
<1> DEFINE r == req[s]
           u == r.id
           b == r.body
<1>1. At(s, "admin") /\ r.snap # None /\ user' = Changed(u, b)
  BY DEF CommitUpdate
<1>2. /\ Sound(r, fresh) /\ Ahead(r) = "admin" /\ Current(r, user, token, session, late)
  BY <1>1, AtStep
<1>3. u \in DOMAIN user /\ b \in Bodies /\ (r.op = "patch" => b.role = None)
  BY <1>1, <1>2, Zenon DEF Current, Sound, BodyValid
<1>4. /\ \A w \in DOMAIN user : w # u => user'[w] = user[w]
      /\ user'[u].role = IF b.role = None THEN user[u].role ELSE b.role
      /\ \A f \in {"email", "ext", "linked", "grants"} : user'[u][f] = user[u][f]
  <2>1. Tables
    BY DEF IInv
  <2> QED BY <1>1, <1>3, <2>1, ChangedIs, Zenon
<1>5. CASE v # u
  BY <1>4, <1>5, Zenon DEF AskedFor
<1>6. CASE v = u
  <2>1. user'[v].ext = user[v].ext /\ user'[v].grants = user[v].grants
    BY <1>4, <1>6, SMT
  <2>2. Holds(s, "admin", v)
    BY <1>1, <1>6 DEF Holds
  <2>3. user'[v].role = user[v].role \/ Asks(v, "role", "admin")
    <3>1. CASE b.role = None
      BY <1>4, <1>6, <3>1
    <3>2. CASE b.role # None
      <4>1. r.op # "patch" /\ r.body.role = user'[v].role
        BY <1>3, <1>4, <1>6, <3>2
      <4> QED BY <2>2, <4>1, Zenon DEF Asks
    <3> QED BY <3>1, <3>2
  <2> QED BY <2>1, <2>3, Zenon DEF AskedFor
<1> QED BY <1>5, <1>6

\* A PUT writes the external id it carries, a PATCH the one it has loaded.
LEMMA AttrsAsked ==
  ASSUME IInv, NEW s \in Slots, UpdateSCIMUser(s), NEW v \in DOMAIN user, v \in DOMAIN user'
  PROVE  AskedFor(v)
<1> DEFINE r == req[s]
           u == r.id
           ext == IF r.op = "put" THEN r.body.ext ELSE r.snap.ext
<1>1. At(s, "attrs")
  BY DEF UpdateSCIMUser
<1>2. CASE user'[v] = user[v]
  BY <1>2, Zenon DEF AskedFor
<1>3. CASE user'[v] # user[v]
  <2>1. u \in DOMAIN user /\ user' = [user EXCEPT ![u].ext = ext]
    BY <1>3, Zenon DEF UpdateSCIMUser, Answer
  <2>2. /\ Sound(r, fresh) /\ Ahead(r) = "attrs" /\ r.op \in {"put", "patch"}
        /\ Current(r, user, token, session, late)
    BY <1>1, AtStep DEF Order
  <2>3. r.body \in Bodies /\ r.snap \in [ext : ExternalIds \cup {None}] /\ r.snap # None
    BY <2>2 DEF Sound, BodyValid, Equipped
  <2>4. ext \in ExternalIds \cup {None}
    BY <2>3 DEF Bodies
  <2>5. Fits("ext", ext) /\ "ext" \in Columns
    BY <2>4 DEF Fits, Columns
  <2>6. user = [w \in DOMAIN user |-> user[w]] /\ Tables
    BY Zenon DEF IInv, Tables
  <2>7. user' = [user EXCEPT ![u] = Updated(user[u], "ext", ext)]
    BY <2>1, <2>6, Zenon DEF Updated
  <2>8. Written(user, user', u, "ext", ext)
    <3> HIDE DEF ext
    <3>1. Written(user, [user EXCEPT ![u] = Updated(user[u], "ext", ext)], u, "ext", ext)
      BY <2>1, <2>5, <2>6, ColumnWritten, Zenon
    <3> QED BY <2>7, <3>1, Zenon
  <2>9. v = u
    BY <1>3, <2>8, Zenon DEF Written
  <2>10. user'[v].role = user[v].role /\ user'[v].grants = user[v].grants /\ user'[v].ext = ext
    <3> HIDE DEF ext
    <3> QED BY <2>8, <2>9 DEF Written, Columns
  <2>11. Holds(s, "attrs", v)
    BY <1>1, <2>3, <2>9 DEF Holds
  <2>12. user'[v].ext = user[v].ext \/ Asks(v, "ext", "attrs")
    <3>1. CASE r.op = "put"
      <4>1. r.body.ext = user'[v].ext /\ r.op # "patch"
        BY <2>10, <3>1
      <4> QED BY <2>11, <4>1, Zenon DEF Asks
    <3>2. CASE r.op = "patch" /\ v \in r.since
      BY <2>11, <3>2, Zenon DEF Asks
    <3>3. CASE r.op = "patch" /\ v \notin r.since
      <4>1. r.snap.ext = user[v].ext
        BY <2>1, <2>2, <2>9, <3>3, Zenon DEF Current
      <4> QED BY <2>10, <3>3, <4>1
    <3> QED BY <2>2, <3>1, <3>2, <3>3
  <2> QED BY <2>10, <2>12, Zenon DEF AskedFor
<1> QED BY <1>2, <1>3

\* A login writes admin for an address that is configured so, and the role that
\* it has read for another.
LEMMA LoginAsked ==
  ASSUME IInv, NEW s \in Slots, StampLogin(s), NEW v \in DOMAIN user, v \in DOMAIN user'
  PROVE  AskedFor(v)
<1> DEFINE r == req[s]
           u == r.id
           role == IF r.body.email \in AdminEmails THEN "admin" ELSE r.snap.role
<1>1. At(s, "stamp") /\ u # None
  BY DEF StampLogin
<1>2. CASE user'[v] = user[v]
  BY <1>2, Zenon DEF AskedFor
<1>3. CASE user'[v] # user[v]
  <2>1. u \in DOMAIN user /\ user' = [user EXCEPT ![u].role = role, ![u].linked = TRUE]
    BY <1>3, Zenon DEF StampLogin, Answer
  <2>2. Sound(r, fresh) /\ Ahead(r) = "stamp" /\ Current(r, user, token, session, late)
    BY <1>1, AtStep
  <2>3. Equipped(r, fresh)
    BY <2>2 DEF Sound
  <2>4. r.snap.role \in Roles /\ r.snap # None
    BY <1>1, <2>2, <2>3, Zenon DEF Equipped
  <2>5. role \in Roles /\ Tables
    BY <2>4 DEF Roles, IInv
  <2>6. /\ user[u].email = r.body.email
        /\ u \notin r.since => r.snap.role = user[u].role
    BY <1>1, <2>1, <2>2, Zenon DEF Current
  <2>7. Stamped(user, user', u, role)
    <3> HIDE DEF role
    <3> QED BY <2>1, <2>5, StampedIs, Zenon
  <2>8. v = u /\ user'[u].role = role
    <3> HIDE DEF role
    <3> QED BY <1>3, <2>7, Zenon DEF Stamped
  <2>9. user'[v].ext = user[v].ext /\ user'[v].grants = user[v].grants
    <3> HIDE DEF role
    <3> QED BY <2>7, <2>8, SMT DEF Stamped
  <2>10. Holds(s, "stamp", v)
    BY <1>1, <2>4, <2>8 DEF Holds
  <2>11. \/ user'[v].role = user[v].role \/ Asks(v, "role", "stamp")
         \/ user[v].email \in AdminEmails /\ user'[v].role = "admin"
    <3>1. CASE r.body.email \in AdminEmails
      BY <2>6, <2>8, <3>1
    <3>2. CASE r.body.email \notin AdminEmails /\ v \in r.since
      BY <2>10, <3>2, Zenon DEF Asks
    <3>3. CASE r.body.email \notin AdminEmails /\ v \notin r.since
      BY <2>6, <2>8, <3>3
    <3> QED BY <3>1, <3>2, <3>3
  <2> QED BY <2>9, <2>11, Zenon DEF AskedFor
<1> QED BY <1>2, <1>3


\* A new account changes no other.
LEMMA InsertAsked ==
  ASSUME IInv, NEW s \in Slots, Insert(s) \/ InsertLogin(s),
         NEW v \in DOMAIN user, v \in DOMAIN user'
  PROVE  AskedFor(v)
<1>1. user'[v] = user[v]
  <2>1. CASE UNCHANGED user
    BY <2>1
  <2>2. CASE fresh # {} /\ \E row : user' = Inserted(NewId, row)
    <3>1. NewId \in fresh
      BY <2>2, Zenon DEF NewId
    <3>2. v # NewId
      BY <3>1 DEF IInv, Tables, TypeOK
    <3>3. PICK row : user' = Inserted(NewId, row)
      BY <2>2
    <3> QED BY <3>2, <3>3, Zenon DEF Inserted
  <2>3. UNCHANGED user \/ (fresh # {} /\ \E row : user' = Inserted(NewId, row))
    BY Zenon DEF Insert, InsertLogin, Answer
  <2> QED BY <2>1, <2>2, <2>3
<1> QED BY <1>1, Zenon DEF AskedFor

\* The end of an account changes no other.
LEMMA RemoveAsked ==
  ASSUME IInv, NEW s \in Slots, CommitRemove(s), NEW v \in DOMAIN user, v \in DOMAIN user'
  PROVE  AskedFor(v)
<1>1. user' = Restrict(user, DOMAIN user \ {req[s].id})
  BY DEF CommitRemove
<1>2. user'[v] = user[v]
  BY <1>1 DEF Restrict
<1> QED BY <1>2, Zenon DEF AskedFor

\* Every step of a request changes the accounts as a request asks.
LEMMA StepAsked ==
  ASSUME IInv, NEW s \in Slots, Step(s), NEW v \in DOMAIN user, v \in DOMAIN user'
  PROVE  AskedFor(v)
<1>1. CASE Insert(s) \/ InsertLogin(s)
  BY <1>1, InsertAsked
<1>2. CASE InsertGrants(s)
  BY <1>2, GrantsAsked
<1>3. CASE CommitUpdate(s)
  BY <1>3, AccessAsked
<1>4. CASE CommitRemove(s)
  BY <1>4, RemoveAsked
<1>5. CASE UpdateSCIMUser(s)
  BY <1>5, AttrsAsked
<1>6. CASE StampLogin(s)
  BY <1>6, LoginAsked
<1>7. CASE UNCHANGED user
  BY <1>7, Zenon DEF AskedFor
<1>8. \/ Insert(s) \/ InsertLogin(s) \/ InsertGrants(s) \/ CommitUpdate(s) \/ CommitRemove(s)
      \/ UpdateSCIMUser(s) \/ StampLogin(s) \/ UNCHANGED user
  <2>1. ClearGrants(s) \/ UpdateUserAdmin(s) => UNCHANGED user
    BY DEF ClearGrants, UpdateUserAdmin, Answer
  <2>2. GetUser(s) \/ RemoveUser(s) \/ load(s) => UNCHANGED user
    BY DEF GetUser, RemoveUser, load, Answer
  <2>3. ReadIdentity(s) \/ SaveSession(s) \/ Return(s) => UNCHANGED user
    BY DEF ReadIdentity, SaveSession, Return, Answer
  <2> QED BY <2>1, <2>2, <2>3, Zenon DEF Step
<1> QED BY <1>1, <1>2, <1>3, <1>4, <1>5, <1>6, <1>7, <1>8

\* The arrival of a request changes no account.
LEMMA ArrivalQuiet ==
  ASSUME Next, \A s \in Slots : ~Step(s)
  PROVE  UNCHANGED user
<1>1. ASSUME NEW s \in Slots, NEW e \in Emails, finish(s, e) PROVE UNCHANGED user
  BY <1>1 DEF finish, Begin
<1>2. ASSUME NEW s \in Slots, NEW b \in Invites, InviteUser(s, b) PROVE UNCHANGED user
  BY <1>2 DEF InviteUser, Begin
<1>3. ASSUME NEW s \in Slots, NEW c, NEW u, DeleteUser(s, c, u) PROVE UNCHANGED user
  BY <1>3 DEF DeleteUser, Begin
<1>4. ASSUME NEW s \in Slots, NEW c, NEW u, NEW b \in Updates, UpdateUser(s, c, u, b)
      PROVE  UNCHANGED user
  BY <1>4 DEF UpdateUser, Begin
<1>5. ASSUME NEW s \in Slots, NEW b \in Creates, createUser(s, b) PROVE UNCHANGED user
  BY <1>5 DEF createUser, Begin
<1>6. ASSUME NEW s \in Slots, NEW u, NEW b \in Puts, putUser(s, u, b) PROVE UNCHANGED user
  BY <1>6 DEF putUser, Begin
<1>7. ASSUME NEW s \in Slots, NEW u, NEW b \in Patches, patchUser(s, u, b) PROVE UNCHANGED user
  BY <1>7 DEF patchUser, Begin
<1>8. ASSUME NEW u \in Ids, Logout(u) \/ CreateAPIToken(u) PROVE UNCHANGED user
  BY <1>8 DEF Logout, CreateAPIToken
<1>9. Rest => UNCHANGED user
  BY DEF Rest, vars
<1> QED BY <1>1, <1>2, <1>3, <1>4, <1>5, <1>6, <1>7, <1>8, <1>9, Zenon DEF Next

\* The role, the grants and the external id of an account become what an open
\* request asks for: the write-backs of UpsertUserByIdentity and patchUser and
\* the DELETE and INSERTs of SetUserCustomerGrants lose no one else's write,
\* unless that write came between the read and the write-back.
THEOREM AsAsked == Spec => ChangesAsAsked
<1>1. IInv /\ [Next]_vars => \A u \in DOMAIN user : u \in DOMAIN user' => AskedFor(u)
  <2> SUFFICES ASSUME IInv, [Next]_vars, NEW u \in DOMAIN user, u \in DOMAIN user'
               PROVE  AskedFor(u)
    OBVIOUS
  <2>1. CASE \E s \in Slots : Step(s)
    BY <2>1, StepAsked
  <2>2. CASE Next /\ \A s \in Slots : ~Step(s)
    BY <2>2, ArrivalQuiet, Zenon DEF AskedFor
  <2>3. CASE UNCHANGED vars
    BY <2>3, Zenon DEF AskedFor, vars
  <2> QED BY <2>1, <2>2, <2>3
<1>2. (\A u \in DOMAIN user : u \in DOMAIN user' => AskedFor(u)) =>
        \A u \in DOMAIN user : u \in DOMAIN user' =>
          LET asks(field, step) == \E s \in Slots :
                 /\ Holds(s, step, u)
                 /\ \/ u \in req[s].since
                    \/ req[s].body[field] = user'[u][field] /\ req[s].op # "patch"
          IN /\ user'[u].role = user[u].role \/ asks("role", "admin") \/ asks("role", "stamp")
                \/ (user[u].email \in AdminEmails /\ user'[u].role = "admin")
             /\ user'[u].grants = user[u].grants \/ asks("grants", "grants")
             /\ user'[u].ext = user[u].ext \/ asks("ext", "attrs")
  BY Zenon DEF AskedFor, Asks
<1> QED BY <1>1, <1>2, Invariant, PTL DEF Spec, ChangesAsAsked

=============================================================================
