-------------------------- MODULE ScopeLocksProofs --------------------------
(***************************************************************************)
(* Proofs about ScopeLocks, for any tasks, groups, memories, handles and   *)
(* prune threshold.                                                        *)
(***************************************************************************)
EXTENDS ScopeLocks, TLAPS

\* Task t owns a clone of the handle for link i.
Live(t, i) == i \in guards[t] \/ (pc[t] \in {"enqueue", "await"} /\ i = pos[t])

\* How far a task is in its chain, as a relation between its variables.
ShapeOf(t) ==
  /\ pc[t] = "idle" => guards[t] = {}
  /\ pc[t] # "idle" => chain[t] \in Chains /\ pos[t] \in 1..Len(chain[t].links)
  /\ pc[t] \in {"lookup", "enqueue", "await"} => \A i \in Depth : i \in guards[t] <=> i < pos[t]
  /\ pc[t] = "work" => \A i \in 1..Len(chain[t].links) : i \in guards[t]
  /\ \A i \in guards[t] : i \in 1..Len(chain[t].links)
  /\ \A i \in Depth : arc[t][i] # NoHandle <=> Live(t, i)

Shape == \A t \in Tasks : ShapeOf(t)

\* No handle serves two scopes.
Injective ==
  \A s, r \in Scopes : entries[s] = entries[r] /\ entries[s] # NoHandle => s = r

\* Of two requests in the line of one handle, one came first.
LineOrder ==
  \A t, u \in Tasks, i, j \in Depth :
    /\ InLine(t, i) /\ InLine(u, j)
    /\ arc[t][i] = arc[u][j]
    /\ <<t, i>> # <<u, j>>
    => <<t, i>> \in ahead[u][j] \/ <<u, j>> \in ahead[t][i]

\* Only requests that still are in line are ahead of anything.
AheadInLine ==
  \A t \in Tasks, i \in Depth : \A r \in ahead[t][i] : InLine(r[1], r[2])

GuardsGranted == \A t \in Tasks : \A i \in guards[t] : Granted(t, i)

IInv ==
  /\ TypeOK
  /\ Shape
  /\ OneHandlePerScope
  /\ Injective
  /\ LineOrder
  /\ AheadInLine
  /\ GuardsGranted

-----------------------------------------------------------------------------
\* What the definitions of the chains give: at most three links, on distinct
\* scopes.
LEMMA ChainFacts ==
  ASSUME NEW c \in Chains
  PROVE  /\ Len(c.links) \in Depth
         /\ DOMAIN c.links = 1..Len(c.links)
         /\ \A i \in 1..Len(c.links) : c.links[i] \in Links
         /\ \A i, j \in 1..Len(c.links) : c.links[i].scope = c.links[j].scope => i = j
<1> USE DEF Links, Scopes, Modes, ProcessScope, GroupScope, MemoryScope, Shared, Exclusive, Depth
<1>1. ASSUME NEW g \in Groups, NEW m \in Memories,
             c.links = <<Shared(ProcessScope), Shared(GroupScope(g)), Exclusive(MemoryScope(m))>>
      PROVE  /\ Len(c.links) = 3
             /\ DOMAIN c.links = 1..3
             /\ \A i \in 1..3 : c.links[i] \in Links
             /\ \A i, j \in 1..3 : c.links[i].scope = c.links[j].scope => i = j
  BY <1>1
<1>2. ASSUME NEW g \in Groups, c = ExclusiveGroupChain(g)
      PROVE  /\ Len(c.links) = 2
             /\ DOMAIN c.links = 1..2
             /\ \A i \in 1..2 : c.links[i] \in Links
             /\ \A i, j \in 1..2 : c.links[i].scope = c.links[j].scope => i = j
  BY <1>2 DEF ExclusiveGroupChain
<1>3. ASSUME c = CoarsenProcessChain
      PROVE  /\ Len(c.links) = 1
             /\ DOMAIN c.links = 1..1
             /\ \A i \in 1..1 : c.links[i] \in Links
             /\ \A i, j \in 1..1 : c.links[i].scope = c.links[j].scope => i = j
  BY <1>3 DEF CoarsenProcessChain
<1>4. CASE \E g \in Groups, m \in Memories :
             c = MemoryChain(g, m, "exclusive") \/ c = ResolveThenLeafChain(g, m)
  <2>1. PICK g \in Groups, m \in Memories :
               c = MemoryChain(g, m, "exclusive") \/ c = ResolveThenLeafChain(g, m)
    BY <1>4
  <2>2. c.links = <<Shared(ProcessScope), Shared(GroupScope(g)), Exclusive(MemoryScope(m))>>
    BY <2>1 DEF MemoryChain, ResolveThenLeafChain
  <2>3. QED
    BY <1>1, <2>2
<1>5. CASE \E g \in Groups : c = ExclusiveGroupChain(g)
  BY <1>2, <1>5
<1>6. CASE c = CoarsenProcessChain
  BY <1>3, <1>6
<1>7. QED
  BY <1>4, <1>5, <1>6 DEF Chains

\* A link of the chain of a busy task is a link on a scope.
LEMMA LinkFacts ==
  ASSUME IInv, NEW t \in Tasks, pc[t] # "idle", NEW i \in 1..Len(chain[t].links)
  PROVE  i \in Depth /\ Link(t, i) \in Links /\ Link(t, i).scope \in Scopes
<1>1. chain[t] \in Chains
  BY DEF IInv, Shape, ShapeOf
<1>2. Len(chain[t].links) \in Depth /\ chain[t].links[i] \in Links
  BY <1>1, ChainFacts
<1>3. QED
  BY <1>2 DEF Link, Links, Depth

-----------------------------------------------------------------------------
(* The inductive invariant, one lemma for each action.                     *)

\* An empty registry and idle tasks satisfy the invariant.
LEMMA InitInv == Init => IInv
<1> SUFFICES ASSUME Init PROVE IInv
  OBVIOUS
<1> USE DEF Init
<1>1. TypeOK
  BY DEF TypeOK, Depth
<1>2. Shape
  BY DEF Shape, ShapeOf, Live, Depth
<1>3. OneHandlePerScope /\ Injective /\ LineOrder /\ AheadInLine /\ GuardsGranted
  BY DEF OneHandlePerScope, Injective, LineOrder, AheadInLine, GuardsGranted, InLine, Depth
<1>4. QED
  BY <1>1, <1>2, <1>3 DEF IInv

\* A task that asks for a chain owns no handle and stands in no line yet.
LEMMA BeginInv ==
  ASSUME IInv, NEW t \in Tasks, NEW c \in Asks[t], Begin(t, c)
  PROVE  IInv'
<1>1. c \in Chains /\ 1 \in 1..Len(c.links)
  <2>1. c \in Chains
    BY AsksAssumption
  <2>2. QED
    BY <2>1, ChainFacts DEF Depth
<1>2. TypeOK'
  BY <1>1 DEF TypeOK, Depth, IInv, Begin
<1>3. /\ guards[t] = {} /\ \A i \in Depth : arc[t][i] = NoHandle
      /\ pc'[t] = "lookup" /\ chain'[t] = c /\ pos'[t] = 1
      /\ UNCHANGED <<entries, arc, guards, ahead>>
  BY DEF TypeOK, Shape, ShapeOf, Live, IInv, Begin
<1>4. Shape'
  <2>1. \A i \in Depth : ~(i < 1) /\ ~Live(t, i)'
    BY <1>3 DEF Live, Depth
  <2>2. ShapeOf(t)'
    BY <1>1, <1>3, <2>1 DEF ShapeOf
  <2>3. \A u \in Tasks \ {t} : ShapeOf(u)'
    BY DEF Shape, ShapeOf, Live, TypeOK, IInv, Begin
  <2>4. QED
    BY <2>2, <2>3 DEF Shape
<1>5. \A u \in Tasks : \A i : InLine(u, i)' <=> InLine(u, i)
  BY DEF InLine, TypeOK, IInv, Begin
<1>6. \A u \in Tasks : \A i : u # t => Link(u, i)' = Link(u, i)
  BY DEF Link, TypeOK, IInv, Begin
<1>7. OneHandlePerScope'
  BY <1>3, <1>6 DEF OneHandlePerScope, IInv
<1>8. Injective' /\ LineOrder' /\ AheadInLine'
  BY <1>3, <1>5 DEF Injective, LineOrder, AheadInLine, Requests, TypeOK, IInv
<1>9. GuardsGranted'
  <2> SUFFICES ASSUME NEW u \in Tasks, NEW i \in guards[u], NEW r \in ahead[u][i]
               PROVE  Link(u, i)'.mode = "shared" /\ Link(r[1], r[2])'.mode = "shared"
    BY <1>3 DEF GuardsGranted, Granted
  <2>1. u # t /\ i \in Depth
    BY <1>3 DEF TypeOK, IInv
  <2>2. r[1] \in Tasks
    BY <2>1 DEF TypeOK, Requests, IInv
  <2>3. r[1] # t
    BY <1>3, <2>1, <2>2 DEF AheadInLine, InLine, IInv, Begin
  <2>4. QED
    BY <1>6, <2>1, <2>2, <2>3 DEF GuardsGranted, Granted, IInv
<1>10. QED
  BY <1>2, <1>4, <1>7, <1>8, <1>9 DEF IInv

\* A step that moves no request leaves the lines in order.
LEMMA SameLines ==
  ASSUME IInv, UNCHANGED <<chain, guards, ahead>>,
         \A u \in Tasks : \A i : InLine(u, i)' <=> InLine(u, i)
  PROVE  AheadInLine' /\ GuardsGranted'
<1>1. AheadInLine'
  BY DEF AheadInLine, IInv, TypeOK, Requests
<1>2. GuardsGranted'
  BY DEF GuardsGranted, Granted, Link, IInv
<1>3. QED
  BY <1>1, <1>2

\* get_or_install: the sweep spares every handle in use, and a fresh handle is
\* one nobody uses.
LEMMA LookupOrInstallInv ==
  ASSUME IInv, NEW t \in Tasks, LookupOrInstall(t)
  PROVE  IInv'
<1> DEFINE p == pos[t]
           s == Link(t, p).scope
<1>1. pc[t] = "lookup" /\ p \in Depth /\ p \notin guards[t] /\ s \in Scopes
  <2>1. pc[t] = "lookup" /\ p \in Depth /\ p \in 1..Len(chain[t].links)
    BY DEF LookupOrInstall, IInv, TypeOK, Shape, ShapeOf
  <2>2. p \notin guards[t]
    BY <2>1 DEF IInv, Shape, ShapeOf, Depth
  <2>3. QED
    BY <2>1, <2>2, LinkFacts
<1>2. PICK h \in Handles :
        /\ IF Swept[s] # NoHandle
             THEN h = Swept[s]
             ELSE ~Referenced(h) /\ \A r \in Scopes : Swept[r] # h
        /\ entries' = [Swept EXCEPT ![s] = h]
        /\ arc' = [arc EXCEPT ![t][p] = h]
  BY DEF LookupOrInstall
<1>3. pc' = [pc EXCEPT ![t] = "enqueue"] /\ UNCHANGED <<chain, pos, guards, ahead>>
  BY DEF LookupOrInstall
<1>4. Swept \in [Scopes -> Handles \union {NoHandle}]
  BY DEF Swept, IInv, TypeOK
<1>5. \A r \in Scopes : Swept[r] = entries[r] \/ (Swept[r] = NoHandle /\ ~Referenced(entries[r]))
  BY DEF Swept
<1>6. TypeOK'
  BY <1>1, <1>2, <1>3, <1>4 DEF TypeOK, IInv
<1>7. /\ arc'[t][p] = h /\ h # NoHandle
      /\ \A u \in Tasks, i \in Depth : <<u, i>> # <<t, p>> => arc'[u][i] = arc[u][i]
  BY <1>1, <1>2, HandleAssumption DEF IInv, TypeOK
<1>8. pc'[t] = "enqueue" /\ \A u \in Tasks \ {t} : pc'[u] = pc[u]
  BY <1>3 DEF IInv, TypeOK
<1>9. Shape'
  <2>1. ShapeOf(t)'
    BY <1>1, <1>3, <1>7, <1>8 DEF IInv, Shape, ShapeOf, Live
  <2>2. \A u \in Tasks \ {t} : ShapeOf(u)'
    BY <1>3, <1>7, <1>8 DEF IInv, Shape, ShapeOf, Live
  <2>3. QED
    BY <2>1, <2>2 DEF Shape
<1>10. \A u \in Tasks, i \in Depth : arc[u][i] # NoHandle => Link(u, i).scope \in Scopes
  <2> SUFFICES ASSUME NEW u \in Tasks, NEW i \in Depth, arc[u][i] # NoHandle
               PROVE  Link(u, i).scope \in Scopes
    OBVIOUS
  <2>1. pc[u] # "idle"
    BY DEF IInv, Shape, ShapeOf, Live
  <2>2. i \in 1..Len(chain[u].links)
    BY <2>1 DEF IInv, Shape, ShapeOf, Live
  <2>3. QED
    BY <2>1, <2>2, LinkFacts
<1>11. OneHandlePerScope'
  <2> SUFFICES ASSUME NEW u \in Tasks, NEW i \in Depth, arc'[u][i] # NoHandle
               PROVE  entries'[Link(u, i).scope] = arc'[u][i]
    BY <1>3 DEF OneHandlePerScope, Link
  <2>1. CASE <<u, i>> = <<t, p>>
    BY <1>1, <1>2, <1>4, <1>7, <2>1
  <2>2. CASE <<u, i>> # <<t, p>>
    <3> DEFINE r == Link(u, i).scope
    <3>1. arc'[u][i] = arc[u][i] /\ entries[r] = arc[u][i] /\ r \in Scopes
      BY <1>7, <1>10, <2>2 DEF IInv, OneHandlePerScope
    <3>2. Swept[r] = arc[u][i]
      BY <1>5, <3>1 DEF Referenced
    <3>3. QED
      BY <1>2, <1>4, <3>1, <3>2
  <2>3. QED
    BY <2>1, <2>2
<1>12. Injective'
  <2>1. \A r, q \in Scopes : Swept[r] = Swept[q] /\ Swept[r] # NoHandle => r = q
    BY <1>5 DEF IInv, Injective
  <2>2. \A r \in Scopes : r # s => Swept[r] # h
    BY <1>1, <1>2, <1>7, <2>1
  <2>3. QED
    BY <1>1, <1>2, <1>4, <2>1, <2>2 DEF Injective
<1>13. \A u \in Tasks : \A i : InLine(u, i)' <=> InLine(u, i)
  BY <1>1, <1>3, <1>8 DEF InLine
<1>14. LineOrder'
  <2>1. ~InLine(t, p)
    BY <1>1 DEF InLine
  <2>2. QED
    BY <1>3, <1>7, <1>13, <2>1 DEF IInv, LineOrder
<1>15. QED
  BY <1>3, <1>6, <1>9, <1>11, <1>12, <1>13, <1>14, SameLines DEF IInv

\* A new request is behind everything in the line of its handle.
LEMMA EnqueueInv ==
  ASSUME IInv, NEW t \in Tasks, Enqueue(t)
  PROVE  IInv'
<1> DEFINE p == pos[t]
           line == {r \in Requests : InLine(r[1], r[2]) /\ arc[r[1]][r[2]] = arc[t][p]}
<1>1. /\ pc[t] = "enqueue" /\ p \in Depth /\ p \notin guards[t]
      /\ UNCHANGED <<entries, chain, pos, arc, guards>>
      /\ pc' = [pc EXCEPT ![t] = "await"]
      /\ ahead' = [ahead EXCEPT ![t][p] = line]
  <2>1. pc[t] = "enqueue" /\ p \in Depth
    BY DEF Enqueue, IInv, TypeOK
  <2>2. p \notin guards[t]
    BY <2>1 DEF IInv, Shape, ShapeOf, Depth
  <2>3. QED
    BY <2>1, <2>2 DEF Enqueue
<1>2. /\ pc'[t] = "await" /\ \A u \in Tasks \ {t} : pc'[u] = pc[u]
      /\ ahead'[t][p] = line
      /\ \A u \in Tasks, i \in Depth : <<u, i>> # <<t, p>> => ahead'[u][i] = ahead[u][i]
  BY <1>1 DEF IInv, TypeOK
<1>3. TypeOK'
  BY <1>1 DEF IInv, TypeOK
<1>4. Shape'
  BY <1>1, <1>2 DEF IInv, Shape, ShapeOf, Live
<1>5. OneHandlePerScope' /\ Injective'
  BY <1>1 DEF IInv, OneHandlePerScope, Injective, Link
<1>6. ~InLine(t, p)
  BY <1>1 DEF InLine
<1>7. \A u \in Tasks, i \in Depth : InLine(u, i)' <=> InLine(u, i) \/ <<u, i>> = <<t, p>>
  BY <1>1, <1>2 DEF InLine
<1>8. LineOrder'
  <2> SUFFICES ASSUME NEW u \in Tasks, NEW v \in Tasks, NEW i \in Depth, NEW j \in Depth,
                      InLine(u, i)', InLine(v, j)', arc[u][i] = arc[v][j],
                      <<u, i>> # <<v, j>>
               PROVE  <<u, i>> \in ahead'[v][j] \/ <<v, j>> \in ahead'[u][i]
    BY <1>1 DEF LineOrder
  <2>1. CASE <<u, i>> = <<t, p>>
    BY <1>2, <1>7, <2>1 DEF Requests
  <2>2. CASE <<v, j>> = <<t, p>>
    BY <1>2, <1>7, <2>2 DEF Requests
  <2>3. CASE <<u, i>> # <<t, p>> /\ <<v, j>> # <<t, p>>
    BY <1>2, <1>7, <2>3 DEF IInv, LineOrder
  <2>4. QED
    BY <2>1, <2>2, <2>3
<1>9. AheadInLine'
  <2> SUFFICES ASSUME NEW u \in Tasks, NEW i \in Depth, NEW r \in ahead'[u][i]
               PROVE  InLine(r[1], r[2])'
    BY DEF AheadInLine
  <2>1. r \in Requests
    BY <1>3 DEF TypeOK
  <2>2. InLine(r[1], r[2])
    BY <1>2 DEF IInv, AheadInLine
  <2>3. QED
    BY <1>7, <2>1, <2>2 DEF Requests
<1>10. GuardsGranted'
  BY <1>1, <1>2 DEF IInv, TypeOK, GuardsGranted, Granted, Link
<1>11. QED
  BY <1>3, <1>4, <1>5, <1>8, <1>9, <1>10 DEF IInv

\* Going one link down a chain of length n.
LEMMA NextDepth ==
  ASSUME NEW p \in Depth, NEW n \in Depth
  PROVE  /\ p < n => p + 1 \in Depth /\ p + 1 \in 1..n
         /\ p = n => \A i \in 1..n : i \in Depth /\ i < p + 1
BY DEF Depth

\* The granted link is the next one of the chain, and nothing before it in the
\* line conflicts with it.
LEMMA GrantInv ==
  ASSUME IInv, NEW t \in Tasks, Grant(t)
  PROVE  IInv'
<1> DEFINE p == pos[t]
           n == Len(chain[t].links)
<1>1. /\ pc[t] = "await" /\ p \in Depth /\ p \in 1..n /\ n \in Depth
      /\ UNCHANGED <<entries, chain, arc, ahead>>
      /\ Granted(t, p)
  BY ChainFacts DEF Grant, IInv, TypeOK, Shape, ShapeOf
<1>2. /\ guards' = [guards EXCEPT ![t] = @ \union {p}]
      /\ guards'[t] = guards[t] \union {p}
      /\ \A u \in Tasks \ {t} : guards'[u] = guards[u]
  BY DEF Grant, IInv, TypeOK
<1>3. \A u \in Tasks \ {t} : pc'[u] = pc[u] /\ pos'[u] = pos[u]
  BY DEF Grant, IInv, TypeOK
<1>4. \/ p = n /\ pc'[t] = "work" /\ pos' = pos
      \/ p < n /\ pc'[t] = "lookup" /\ pos'[t] = p + 1
  BY <1>1 DEF Grant, IInv, TypeOK, Depth
<1>5. TypeOK'
  <2>1. pc' \in [Tasks -> {"idle", "lookup", "enqueue", "await", "work", "drop"}]
    BY DEF Grant, IInv, TypeOK
  <2>2. pos' \in [Tasks -> Depth]
    <3>1. p < n => p + 1 \in Depth
      BY <1>1, NextDepth
    <3>2. QED
      BY <1>1, <1>4, <3>1 DEF Grant, IInv, TypeOK
  <2>3. guards' \in [Tasks -> SUBSET Depth]
    BY <1>1, <1>2 DEF IInv, TypeOK
  <2>4. QED
    BY <1>1, <2>1, <2>2, <2>3 DEF IInv, TypeOK
<1>6. Shape'
  <2>1. ShapeOf(t)'
    <3>1. \A i \in Depth : i \in guards[t] <=> i < p
      BY <1>1 DEF IInv, Shape, ShapeOf
    <3>2. \A i \in Depth : i \in guards'[t] <=> i < p + 1
      BY <1>1, <1>2, <3>1 DEF Depth
    <3>3. guards'[t] \subseteq Depth
      BY <1>5 DEF TypeOK
    <3>4. \A i \in guards'[t] : i \in 1..n
      BY <1>1, <3>2, <3>3 DEF Depth
    <3>5. \A i \in Depth : Live(t, i)' <=> Live(t, i)
      BY <1>1, <1>2, <1>4 DEF Live
    <3>6. \A i \in Depth : arc'[t][i] # NoHandle <=> Live(t, i)'
      BY <1>1, <3>5 DEF IInv, Shape, ShapeOf
    <3>7. chain'[t] \in Chains /\ chain'[t] = chain[t]
      BY <1>1 DEF IInv, Shape, ShapeOf
    <3>8. CASE p = n /\ pc'[t] = "work" /\ pos' = pos
      <4>1. \A i \in 1..n : i \in Depth /\ i < p + 1
        BY <1>1, <3>8, NextDepth
      <4>2. QED
        BY <1>1, <3>2, <3>4, <3>6, <3>7, <3>8, <4>1 DEF ShapeOf
    <3>9. CASE p < n /\ pc'[t] = "lookup" /\ pos'[t] = p + 1
      <4>1. p + 1 \in 1..n
        BY <1>1, <3>9, NextDepth
      <4>2. QED
        BY <3>2, <3>4, <3>6, <3>7, <3>9, <4>1 DEF ShapeOf
    <3>10. QED
      BY <1>4, <3>8, <3>9
  <2>2. \A u \in Tasks \ {t} : ShapeOf(u)'
    BY <1>1, <1>2, <1>3 DEF IInv, Shape, ShapeOf, Live
  <2>3. QED
    BY <2>1, <2>2 DEF Shape
<1>7. OneHandlePerScope' /\ Injective'
  BY <1>1 DEF IInv, OneHandlePerScope, Injective, Link
<1>8. \A u \in Tasks : \A i : InLine(u, i)' <=> InLine(u, i)
  BY <1>1, <1>2, <1>3, <1>4 DEF InLine
<1>9. LineOrder' /\ AheadInLine'
  BY <1>1, <1>8 DEF IInv, LineOrder, AheadInLine, TypeOK, Requests
<1>10. GuardsGranted'
  BY <1>1, <1>2 DEF IInv, GuardsGranted, Granted, Link
<1>11. QED
  BY <1>5, <1>6, <1>7, <1>9, <1>10 DEF IInv

\* The early return keeps the guards it has; they die later.
LEMMA ResolveFailsInv ==
  ASSUME IInv, NEW t \in Tasks, ResolveFails(t) \/ Finish(t)
  PROVE  IInv'
<1>1. /\ pc[t] \in {"lookup", "work"}
      /\ pc' = [pc EXCEPT ![t] = "drop"]
      /\ UNCHANGED <<entries, chain, pos, arc, guards, ahead>>
  BY DEF ResolveFails, Finish
<1>2. TypeOK'
  BY <1>1 DEF IInv, TypeOK
<1>3. pc'[t] = "drop" /\ \A u \in Tasks \ {t} : pc'[u] = pc[u]
  BY <1>1 DEF IInv, TypeOK
<1>4. Shape'
  BY <1>1, <1>3 DEF IInv, Shape, ShapeOf, Live
<1>5. OneHandlePerScope' /\ Injective'
  BY <1>1 DEF IInv, OneHandlePerScope, Injective, Link
<1>6. \A u \in Tasks : \A i : InLine(u, i)' <=> InLine(u, i)
  BY <1>1, <1>3 DEF InLine
<1>7. LineOrder'
  BY <1>1, <1>6 DEF IInv, LineOrder
<1>8. QED
  BY <1>1, <1>2, <1>4, <1>5, <1>6, <1>7, SameLines DEF IInv

\* A guard that dies leaves the line and gives its handle back.
LEMMA DropGuardInv ==
  ASSUME IInv, NEW t \in Tasks, NEW i \in Depth, DropGuard(t, i)
  PROVE  IInv'
<1>1. pc[t] = "drop" /\ i \in guards[t] /\ entries' = entries
  BY DEF DropGuard, NextToDrop
<1>2. /\ guards' = [guards EXCEPT ![t] = @ \ {i}]
      /\ guards'[t] = guards[t] \ {i}
      /\ \A u \in Tasks \ {t} : guards'[u] = guards[u]
  BY DEF DropGuard, IInv, TypeOK
<1>3. /\ arc' = [arc EXCEPT ![t][i] = NoHandle]
      /\ arc'[t][i] = NoHandle
      /\ \A u \in Tasks, j \in Depth : <<u, j>> # <<t, i>> => arc'[u][j] = arc[u][j]
  BY DEF DropGuard, IInv, TypeOK
<1>4. /\ ahead' \in [Tasks -> [Depth -> SUBSET Requests]]
      /\ ahead'[t][i] = {}
      /\ \A u \in Tasks, j \in Depth :
           <<u, j>> # <<t, i>> => ahead'[u][j] = ahead[u][j] \ {<<t, i>>}
  BY DEF DropGuard, IInv, TypeOK
<1>5. \A u \in Tasks \ {t} : pc'[u] = pc[u] /\ pos'[u] = pos[u] /\ chain'[u] = chain[u]
  BY DEF DropGuard, IInv, TypeOK
<1>6. \/ guards[t] = {i} /\ pc'[t] = "idle" /\ chain'[t] = NoChain /\ pos'[t] = 1
      \/ guards[t] # {i} /\ UNCHANGED <<pc, chain, pos>>
  BY DEF DropGuard, IInv, TypeOK
<1>7. \A j \in Depth : Live(t, j) <=> j \in guards[t]
  BY <1>1 DEF Live
<1>8. TypeOK'
  <2>1. pc' \in [Tasks -> {"idle", "lookup", "enqueue", "await", "work", "drop"}]
    BY DEF DropGuard, IInv, TypeOK
  <2>2. pos' \in [Tasks -> Depth]
    <3>1. 1 \in Depth
      BY DEF Depth
    <3>2. QED
      BY <3>1 DEF DropGuard, IInv, TypeOK
  <2>3. chain' \in [Tasks -> Chains \union {NoChain}]
    BY DEF DropGuard, IInv, TypeOK
  <2>4. guards' \in [Tasks -> SUBSET Depth]
    BY <1>2 DEF IInv, TypeOK
  <2>5. arc' \in [Tasks -> [Depth -> Handles \union {NoHandle}]]
    BY <1>3 DEF IInv, TypeOK
  <2>6. QED
    BY <1>1, <1>4, <2>1, <2>2, <2>3, <2>4, <2>5 DEF IInv, TypeOK
<1>9. Shape'
  <2>1. \A j \in Depth : Live(t, j)' <=> j \in guards'[t]
    BY <1>1, <1>2, <1>6 DEF Live
  <2>2. \A j \in Depth : arc'[t][j] # NoHandle <=> Live(t, j)'
    BY <1>2, <1>3, <1>7, <2>1 DEF IInv, Shape, ShapeOf
  <2>3. ShapeOf(t)'
    <3>1. CASE guards[t] = {i}
      BY <1>2, <1>6, <2>2, <3>1 DEF ShapeOf
    <3>2. CASE guards[t] # {i}
      BY <1>1, <1>2, <1>6, <2>2, <3>2 DEF IInv, Shape, ShapeOf
    <3>3. QED
      BY <3>1, <3>2
  <2>4. \A u \in Tasks \ {t} : ShapeOf(u)'
    BY <1>2, <1>3, <1>5 DEF IInv, Shape, ShapeOf, Live
  <2>5. QED
    BY <2>3, <2>4 DEF Shape
<1>10. \A u \in Tasks, j \in Depth :
         InLine(u, j)' <=> InLine(u, j) /\ <<u, j>> # <<t, i>>
  BY <1>1, <1>2, <1>5, <1>6 DEF InLine
<1>11. \A u \in Tasks, j \in Depth :
         (u = t => j \in guards[t] \ {i}) => Link(u, j)' = Link(u, j)
  BY <1>5, <1>6 DEF Link
<1>12. OneHandlePerScope'
  <2> SUFFICES ASSUME NEW u \in Tasks, NEW j \in Depth, arc'[u][j] # NoHandle
               PROVE  entries'[Link(u, j)'.scope] = arc'[u][j]
    BY DEF OneHandlePerScope
  <2>1. <<u, j>> # <<t, i>> /\ arc'[u][j] = arc[u][j]
    BY <1>3
  <2>2. u = t => j \in guards[t] \ {i}
    BY <1>7, <2>1 DEF IInv, Shape, ShapeOf
  <2>3. QED
    BY <1>1, <1>11, <2>1, <2>2 DEF IInv, OneHandlePerScope
<1>13. Injective'
  BY <1>1 DEF IInv, Injective
<1>14. LineOrder'
  BY <1>3, <1>4, <1>10 DEF IInv, LineOrder
<1>15. \A u \in Tasks, j \in Depth : \A r \in ahead'[u][j] :
         r \in Requests /\ r \in ahead[u][j] /\ r # <<t, i>> /\ InLine(r[1], r[2])
  BY <1>4 DEF IInv, TypeOK, AheadInLine
<1>16. AheadInLine'
  BY <1>10, <1>15 DEF AheadInLine, Requests
<1>17. GuardsGranted'
  <2> SUFFICES ASSUME NEW u \in Tasks, NEW j \in guards'[u], NEW r \in ahead'[u][j]
               PROVE  Link(u, j)'.mode = "shared" /\ Link(r[1], r[2])'.mode = "shared"
    BY DEF GuardsGranted, Granted
  <2>1. j \in Depth /\ j \in guards[u] /\ (u = t => j \in guards[t] \ {i})
    BY <1>2, <1>8 DEF TypeOK
  <2>2. /\ r \in ahead[u][j] /\ r[1] \in Tasks /\ r[2] \in Depth
        /\ r = <<r[1], r[2]>> /\ r # <<t, i>> /\ InLine(r[1], r[2])
    BY <1>15, <2>1 DEF Requests
  <2>3. r[1] = t => r[2] \in guards[t] \ {i}
    BY <1>1, <2>2 DEF InLine
  <2>4. Link(u, j)' = Link(u, j) /\ Link(r[1], r[2])' = Link(r[1], r[2])
    BY <1>11, <2>1, <2>2, <2>3
  <2>5. QED
    BY <2>1, <2>2, <2>4 DEF IInv, GuardsGranted, Granted
<1>18. QED
  BY <1>8, <1>9, <1>12, <1>13, <1>14, <1>16, <1>17 DEF IInv

\* The invariant is a predicate of the variables.
LEMMA StutterInv == IInv /\ UNCHANGED vars => IInv'
<1> SUFFICES ASSUME IInv, UNCHANGED vars PROVE IInv'
  OBVIOUS
<1>1. TypeOK'
  BY DEF IInv, TypeOK, vars
<1>2. Shape' /\ OneHandlePerScope' /\ Injective'
  BY DEF IInv, Shape, ShapeOf, Live, OneHandlePerScope, Injective, Link, vars
<1>3. LineOrder'
  BY DEF IInv, LineOrder, InLine, vars
<1>4. AheadInLine' /\ GuardsGranted'
  BY SameLines DEF InLine, vars
<1>5. QED
  BY <1>1, <1>2, <1>3, <1>4 DEF IInv

\* Every step keeps the invariant.
LEMMA NextInv == IInv /\ [Next]_vars => IInv'
<1> SUFFICES ASSUME IInv, [Next]_vars PROVE IInv'
  OBVIOUS
<1>1. ASSUME NEW t \in Tasks, NEW c \in Asks[t], Begin(t, c) PROVE IInv'
  BY <1>1, BeginInv
<1>2. ASSUME NEW t \in Tasks, ResolveFails(t) PROVE IInv'
  BY <1>2, ResolveFailsInv
<1>3. ASSUME NEW t \in Tasks, Step(t) PROVE IInv'
  BY <1>3, LookupOrInstallInv, EnqueueInv, GrantInv, ResolveFailsInv, DropGuardInv DEF Step
<1>4. QED
  BY <1>1, <1>2, <1>3, StutterInv DEF Next

\* The registry and its callers never leave the inductive invariant, whatever
\* interleaving of get_or_install, grants and drops the threads produce.
THEOREM Invariance == Spec => []IInv
BY InitInv, NextInv, PTL DEF Spec

-----------------------------------------------------------------------------
(* What the invariant says about the callers.                              *)

\* A granted request and a guard of another task do not conflict: both scopes
\* being the same, the two use one handle, and the later of them has waited for
\* the other one.
LEMMA GrantedExcludes ==
  ASSUME IInv, NEW t \in Tasks, NEW i \in Depth, InLine(t, i), Granted(t, i),
         NEW u \in Tasks, u # t, NEW j \in guards[u]
  PROVE  ~Conflict(Link(t, i), Link(u, j))
<1> SUFFICES ASSUME Link(t, i).scope = Link(u, j).scope
             PROVE  Link(t, i).mode = "shared" /\ Link(u, j).mode = "shared"
  BY DEF Conflict
<1>1. j \in Depth
  BY DEF IInv, TypeOK
<1>2. arc[t][i] # NoHandle /\ arc[u][j] # NoHandle
  BY <1>1 DEF IInv, Shape, ShapeOf, Live, InLine
<1>3. arc[t][i] = arc[u][j]
  BY <1>1, <1>2 DEF IInv, OneHandlePerScope
<1>4. <<t, i>> \in ahead[u][j] \/ <<u, j>> \in ahead[t][i]
  BY <1>1, <1>3 DEF IInv, LineOrder, InLine
<1>5. QED
  BY <1>4 DEF IInv, GuardsGranted, Granted

\* A running task has a guard on every link of its chain, and guards exclude.
LEMMA InvImpliesRunningExclusion == IInv => RunningExclusion
<1> SUFFICES ASSUME IInv, NEW t \in Tasks, NEW u \in Tasks, t # u,
                    pc[t] = "work", pc[u] = "work",
                    NEW l \in LinkSet(chain[t]), NEW k \in LinkSet(chain[u])
             PROVE  ~Conflict(l, k)
  BY DEF RunningExclusion
<1>1. \A v \in Tasks : pc[v] = "work" =>
         \A m \in LinkSet(chain[v]) : \E i \in guards[v] : i \in Depth /\ m = Link(v, i)
  <2> SUFFICES ASSUME NEW v \in Tasks, pc[v] = "work", NEW m \in LinkSet(chain[v])
               PROVE  \E i \in guards[v] : i \in Depth /\ m = Link(v, i)
    OBVIOUS
  <2>1. chain[v] \in Chains
    BY DEF IInv, Shape, ShapeOf
  <2>2. PICK i \in 1..Len(chain[v].links) : m = Link(v, i)
    BY <2>1, ChainFacts DEF LinkSet, Link
  <2>3. i \in guards[v] /\ i \in Depth
    BY <2>2 DEF IInv, Shape, ShapeOf, TypeOK
  <2>4. QED
    BY <2>2, <2>3
<1>2. PICK i \in guards[t] : i \in Depth /\ l = Link(t, i)
  BY <1>1
<1>3. PICK j \in guards[u] : k = Link(u, j)
  BY <1>1
<1>4. InLine(t, i) /\ Granted(t, i)
  BY <1>2 DEF IInv, GuardsGranted, InLine
<1>5. QED
  BY <1>2, <1>3, <1>4, GrantedExcludes

\* The variables of the registry, of the tasks and of the waiting lines keep
\* their types, whatever the interleaving (TypeOK).
THEOREM TypeCorrect == Spec => []TypeOK
<1>1. IInv => TypeOK
  BY DEF IInv
<1>2. QED
  BY <1>1, Invariance, PTL

\* Pruning is race-free (the comment of get_or_install in registry.rs): a task
\* that holds or awaits the lock of a scope has the handle the registry holds.
THEOREM PruningIsRaceFree == Spec => []OneHandlePerScope
<1>1. IInv => OneHandlePerScope
  BY DEF IInv
<1>2. QED
  BY <1>1, Invariance, PTL

\* Operations whose chains conflict on some scope never run together (the
\* contract of lock.rs).
THEOREM ConflictingOperationsExclude == Spec => []RunningExclusion
BY InvImpliesRunningExclusion, Invariance, PTL

-----------------------------------------------------------------------------
(* The refinement: getting a link is LockTable's Acquire, dropping a guard  *)
(* its Release, and every other step leaves the table alone.               *)

HeldBy(t) == {Link(t, i) : i \in guards[t]}
HeldBar == [t \in Tasks |-> HeldBy(t)]

\* If no task gains or loses a guard, the table is what it was.
LEMMA SameTable ==
  ASSUME \A u \in Tasks : HeldBy(u)' = HeldBy(u)
  PROVE  UNCHANGED HeldBar
BY DEF HeldBar

\* The links of the table are the links of the chains.
LEMMA SameLinks == Table!Links = Links
<1>1. Table!Scopes = Scopes
  BY DEF Table!Scopes, Scopes, Table!ProcessScope, ProcessScope,
         Table!GroupScope, GroupScope, Table!MemoryScope, MemoryScope
<1>2. Table!Modes = Modes
  BY DEF Table!Modes, Modes
<1>3. QED
  BY <1>1, <1>2 DEF Table!Links, Links

\* A grant is an acquire of the table.
LEMMA GrantRefines ==
  ASSUME IInv, NEW t \in Tasks, Grant(t)
  PROVE  Table!Acquire(t, {Link(t, pos[t])}) /\ Link(t, pos[t]) \in Links
<1> DEFINE l == Link(t, pos[t])
<1>1. /\ pc[t] = "await" /\ pos[t] \in Depth /\ pos[t] \in 1..Len(chain[t].links)
      /\ Granted(t, pos[t]) /\ UNCHANGED chain
      /\ guards' = [guards EXCEPT ![t] = @ \union {pos[t]}]
  BY DEF Grant, IInv, TypeOK, Shape, ShapeOf
<1>2. l \in Links
  BY <1>1, LinkFacts
<1>3. \A u \in Tasks \ {t} : \A k \in HeldBy(u) : ~Conflict(l, k)
  BY <1>1, GrantedExcludes DEF HeldBy, InLine
<1>4. HeldBy(t)' = HeldBy(t) \union {l} /\ \A u \in Tasks \ {t} : HeldBy(u)' = HeldBy(u)
  BY <1>1 DEF HeldBy, Link, IInv, TypeOK
<1>5. Table!Grantable(t, {l})
  BY <1>3 DEF Table!Grantable, Table!Conflict, Conflict, HeldBy
<1>6. HeldBar' = [HeldBar EXCEPT ![t] = @ \union {l}]
  BY <1>4 DEF HeldBar
<1>7. QED
  BY <1>2, <1>5, <1>6 DEF Table!Acquire, HeldBar, HeldBy

\* The death of a guard is a release of the table.
LEMMA DropGuardRefines ==
  ASSUME IInv, NEW t \in Tasks, NEW i \in Depth, DropGuard(t, i)
  PROVE  Table!Release(t, {Link(t, i)}) /\ Link(t, i) \in Links
<1>1. /\ pc[t] = "drop" /\ i \in guards[t] /\ i \in 1..Len(chain[t].links)
      /\ chain[t] \in Chains
      /\ guards' = [guards EXCEPT ![t] = @ \ {i}]
  BY DEF DropGuard, NextToDrop, IInv, Shape, ShapeOf
<1>2. Link(t, i) \in Links
  BY <1>1, LinkFacts
<1>3. \A u \in Tasks \ {t} : HeldBy(u)' = HeldBy(u)
  BY DEF HeldBy, Link, DropGuard, IInv, TypeOK
<1>4. HeldBy(t)' = HeldBy(t) \ {Link(t, i)}
  <2>1. CASE guards[t] = {i}
    <3>1. guards'[t] = {}
      BY <1>1, <2>1 DEF IInv, TypeOK
    <3>2. HeldBy(t) = {Link(t, i)} /\ HeldBy(t)' = {}
      BY <2>1, <3>1 DEF HeldBy
    <3>3. QED
      BY <3>2
  <2>2. CASE guards[t] # {i}
    <3>1. chain' = chain /\ guards'[t] = guards[t] \ {i}
      BY <1>1, <2>2 DEF DropGuard, IInv, TypeOK
    <3>2. HeldBy(t)' = {Link(t, j) : j \in guards[t] \ {i}}
      BY <3>1 DEF HeldBy, Link
    <3>3. \A j \in guards[t] : Link(t, j) = Link(t, i) => j = i
      BY <1>1, ChainFacts DEF Link, IInv, Shape, ShapeOf
    <3>4. QED
      BY <1>1, <3>2, <3>3 DEF HeldBy
  <2>3. QED
    BY <2>1, <2>2
<1>5. HeldBar' = [HeldBar EXCEPT ![t] = @ \ {Link(t, i)}]
  BY <1>3, <1>4 DEF HeldBar
<1>6. QED
  BY <1>2, <1>5 DEF Table!Release, HeldBar, HeldBy

\* Every step of the registry is a step of the table or leaves it alone.
LEMMA StepRefines == IInv /\ [Next]_vars => [Table!Next]_HeldBar
<1> SUFFICES ASSUME IInv, [Next]_vars PROVE [Table!Next]_HeldBar
  OBVIOUS
<1>1. ASSUME NEW t \in Tasks, NEW c \in Asks[t], Begin(t, c)
      PROVE  UNCHANGED HeldBar
  <2>1. guards[t] = {} /\ guards' = guards /\ \A u \in Tasks \ {t} : chain'[u] = chain[u]
    BY <1>1 DEF Begin, IInv, TypeOK, Shape, ShapeOf
  <2>2. \A u \in Tasks : HeldBy(u)' = HeldBy(u)
    BY <2>1 DEF HeldBy, Link
  <2>3. QED
    BY <2>2, SameTable
<1>2. ASSUME UNCHANGED <<chain, guards>> PROVE UNCHANGED HeldBar
  BY <1>2, SameTable DEF HeldBy, Link
<1>3. ASSUME NEW t \in Tasks, Grant(t) PROVE Table!Next
  <2> DEFINE l == Link(t, pos[t])
  <2>1. Table!Acquire(t, {l}) /\ l \in Table!Links
    BY <1>3, GrantRefines, SameLinks
  <2>2. QED
    BY <2>1 DEF Table!Next, Table!Acquire, Table!Release
<1>4. ASSUME NEW t \in Tasks, NEW i \in Depth, DropGuard(t, i) PROVE Table!Next
  <2> DEFINE l == Link(t, i)
  <2>1. Table!Release(t, {l}) /\ l \in Table!Links
    BY <1>4, DropGuardRefines, SameLinks
  <2>2. QED
    BY <2>1 DEF Table!Next, Table!Acquire, Table!Release
<1>5. QED
  BY <1>1, <1>2, <1>3, <1>4
     DEF Next, Step, LookupOrInstall, Enqueue, ResolveFails, Finish, vars

\* The registry of handles, pruning and waiting lines implements the table of
\* held links that the operations of the store are modelled over.
THEOREM RegistryImplementsTable == Spec => ImplementsLockTable
<1>1. Init => Table!Init
  BY DEF Init, Table!Init
<1>2. IInv /\ [Next]_vars => [Table!Next]_HeldBar
  BY StepRefines
<1>3. QED
  BY <1>1, <1>2, Invariance, PTL DEF Spec, ImplementsLockTable, Table!Spec, HeldBar, HeldBy
=============================================================================
