--------------------------- MODULE TenantService ---------------------------
(* What mona-gateway's tenant registry promises to the connections it serves.

   A tenant is served by one incarnation at a time.  A connection is attached
   to the incarnation its tenant has at that moment, and to no other for as
   long as it stays attached.  An incarnation is retired only when nobody is
   attached to it and no client has a cursor open on it: a cursor is never
   taken away by the registry.

   An incarnation is named after the connection that brought it up.          *)
EXTENDS Naturals

CONSTANTS
  Conns,        \* the TCP connections the gateway accepts
  DbIds,        \* tenants
  NoConn,       \* no incarnation
  MaxCursors    \* bound on the cursors open on one incarnation

VARIABLES
  stage,        \* [Conns -> {"waiting", "attached", "gone"}]
  db,           \* [Conns -> DbIds]: the tenant a connection asks for
  serving,      \* [DbIds -> Conns \cup {NoConn}]: a tenant's incarnation
  attached,     \* [Conns -> Conns \cup {NoConn}]: what a connection works on
  cursors       \* [Conns -> Nat]: cursors open on an incarnation

vars == <<stage, db, serving, attached, cursors>>

Init ==
  /\ stage = [w \in Conns |-> "waiting"]
  /\ db \in [Conns -> DbIds]
  /\ serving = [d \in DbIds |-> NoConn]
  /\ attached = [w \in Conns |-> NoConn]
  /\ cursors = [w \in Conns |-> 0]

BringUp(w) ==
  /\ stage[w] = "waiting"
  /\ serving[db[w]] = NoConn
  /\ serving' = [serving EXCEPT ![db[w]] = w]
  /\ attached' = [attached EXCEPT ![w] = w]
  /\ stage' = [stage EXCEPT ![w] = "attached"]
  /\ UNCHANGED <<db, cursors>>

Attach(w) ==
  /\ stage[w] = "waiting"
  /\ serving[db[w]] # NoConn
  /\ attached' = [attached EXCEPT ![w] = serving[db[w]]]
  /\ stage' = [stage EXCEPT ![w] = "attached"]
  /\ UNCHANGED <<db, serving, cursors>>

Refuse(w) ==
  /\ stage[w] = "waiting"
  /\ stage' = [stage EXCEPT ![w] = "gone"]
  /\ UNCHANGED <<db, serving, attached, cursors>>

Detach(w) ==
  /\ stage[w] = "attached"
  /\ attached' = [attached EXCEPT ![w] = NoConn]
  /\ stage' = [stage EXCEPT ![w] = "gone"]
  /\ UNCHANGED <<db, serving, cursors>>

OpenCursor(w) ==
  /\ stage[w] = "attached"
  /\ cursors[attached[w]] < MaxCursors
  /\ cursors' = [cursors EXCEPT ![attached[w]] = @ + 1]
  /\ UNCHANGED <<stage, db, serving, attached>>

EndCursor(w) ==
  /\ stage[w] = "attached"
  /\ cursors[attached[w]] > 0
  /\ cursors' = [cursors EXCEPT ![attached[w]] = @ - 1]
  /\ UNCHANGED <<stage, db, serving, attached>>

Retire(d) ==
  /\ serving[d] # NoConn
  /\ \A w \in Conns : attached[w] # serving[d]
  /\ cursors[serving[d]] = 0
  /\ serving' = [serving EXCEPT ![d] = NoConn]
  /\ UNCHANGED <<stage, db, attached, cursors>>

Next ==
  \/ \E w \in Conns :
       BringUp(w) \/ Attach(w) \/ Refuse(w) \/ Detach(w) \/ OpenCursor(w) \/ EndCursor(w)
  \/ \E d \in DbIds : Retire(d)

Spec == Init /\ [][Next]_vars
=============================================================================
