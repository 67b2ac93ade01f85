----------------------------- MODULE LockChains -----------------------------
(***************************************************************************)
(* The scopes of the store's lock registry and the chains of links the     *)
(* operations acquire (crates/mmcp-store/src/lock.rs).                     *)
(*                                                                         *)
(* A scope is the process root, one group or one memory.  A link asks for  *)
(* a scope in one mode.  A chain lists links from the outermost ancestor   *)
(* to the leaf; `drop` is the order in which the guards of the chain die,  *)
(* as positions of `links`.                                                *)
(***************************************************************************)
EXTENDS Integers, Sequences

CONSTANTS
  Groups,    \* group ids
  Memories   \* memory ids; a memory lock is keyed by the memory id alone

ProcessScope == <<"process", "root">>
GroupScope(g) == <<"group", g>>
MemoryScope(m) == <<"memory", m>>

Scopes == {ProcessScope}
            \union {GroupScope(g) : g \in Groups}
            \union {MemoryScope(m) : m \in Memories}

Modes == {"shared", "exclusive"}
Links == [scope : Scopes, mode : Modes]

Shared(s) == [scope |-> s, mode |-> "shared"]
Exclusive(s) == [scope |-> s, mode |-> "exclusive"]

\* Two links that two tasks cannot hold at the same time.
Conflict(l, k) == l.scope = k.scope /\ (l.mode = "exclusive" \/ k.mode = "exclusive")

-----------------------------------------------------------------------------
(* The guards of `acquire_chain` live in one Vec, which Rust drops from    *)
(* its first element to its last.                                          *)

MemoryChain(g, m, mode) ==
  [links |-> <<Shared(ProcessScope), Shared(GroupScope(g)), [scope |-> MemoryScope(m), mode |-> mode]>>,
   drop  |-> <<1, 2, 3>>]

\* Body shared by create_chain and coarsen_group_chain.
ExclusiveGroupChain(g) ==
  [links |-> <<Shared(ProcessScope), Exclusive(GroupScope(g))>>,
   drop  |-> <<1, 2>>]

CoarsenProcessChain ==
  [links |-> <<Exclusive(ProcessScope)>>,
   drop  |-> <<1>>]

\* update_* and delete_* of the trackers: the two ancestors in one Vec, the
\* slug resolved under them, then the leaf in a local declared after it, which
\* therefore dies first.
ResolveThenLeafChain(g, m) ==
  [links |-> MemoryChain(g, m, "exclusive").links,
   drop  |-> <<3, 1, 2>>]

\* Every chain a caller asks for.  No caller takes the leaf shared: read_memory
\* and the other read tools take no lock at all.
Chains ==
  {MemoryChain(g, m, "exclusive") : g \in Groups, m \in Memories}
    \union {ResolveThenLeafChain(g, m) : g \in Groups, m \in Memories}
    \union {ExclusiveGroupChain(g) : g \in Groups}
    \union {CoarsenProcessChain}

LinkSet(chain) == {chain.links[i] : i \in DOMAIN chain.links}
=============================================================================
