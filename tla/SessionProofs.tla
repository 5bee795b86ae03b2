--------------------------- MODULE SessionProofs ---------------------------
(***************************************************************************)
(* Theorems about connections, for every set of connections, every set of  *)
(* types the program has taken, and whatever suvad and the suvlets do.     *)
(***************************************************************************)
EXTENDS Session, FiniteSetTheorems, TLAPS

-----------------------------------------------------------------------------
(* The loops around mem_add_type.                                          *)

\* A set of natural numbers that is not empty has a least element.
LEMMA LeastNumber ==
  ASSUME NEW S \in SUBSET Nat, S # {}
  PROVE  \E m \in S : \A k \in S : m <= k
  <1>1. \E m \in S : \A k \in S : <<k, m>> \notin OpToRel(<, Nat)
    BY NatLessThanWellFounded, WFMin
  <1>2. ASSUME NEW m \in S, NEW k \in S, <<k, m>> \notin OpToRel(<, Nat)
        PROVE  m <= k
    BY <1>2 DEF OpToRel
  <1> QED
    BY <1>1, <1>2

\* Among as many numbers as there are types, and two more, one is no type.
LEMMA SomeNumberFree ==
  ASSUME NEW after \in Nat, NEW used, IsFiniteSet(used)
  PROVE  \E m \in after + 1 .. after + 2 + Cardinality(used) : m \notin used
  <1> DEFINE I == after + 1 .. after + 2 + Cardinality(used)
  <1>1. Cardinality(used) \in Nat
    BY FS_CardinalityType
  <1>2. Cardinality(I) = Cardinality(used) + 2
    BY <1>1, FS_Interval
  <1>3. ASSUME I \subseteq used PROVE FALSE
    BY <1>1, <1>2, <1>3, FS_Subset
  <1> QED
    BY <1>3

\* The number the loop stops at is new, and greater than the one it began with.
LEMMA FreeTypeIsFree ==
  ASSUME NEW after \in Nat, NEW used, IsFiniteSet(used)
  PROVE  FreeType(after, used) \in Nat /\ FreeType(after, used) > after
         /\ FreeType(after, used) \notin used
  <1> DEFINE I == after + 1 .. after + 2 + Cardinality(used)
             Free == {m \in I : m \notin used}
  <1>1. Cardinality(used) \in Nat
    BY FS_CardinalityType
  <1>2. Free \in SUBSET Nat /\ Free # {}
    BY <1>1, SomeNumberFree
  <1>3. PICK least \in Free : \A k \in Free : least <= k
    BY <1>2, LeastNumber
  <1>4. \A k \in after + 1 .. least - 1 : k \in used
    BY <1>1, <1>3
  <1>5. \E m \in I : m \notin used /\ \A k \in after + 1 .. m - 1 : k \in used
    BY <1>3, <1>4
  <1>6. FreeType(after, used) \in I /\ FreeType(after, used) \notin used
    BY <1>5 DEF FreeType
  <1> QED
    BY <1>1, <1>6

-----------------------------------------------------------------------------
(* The inductive invariant.                                                *)

ConnStruct == [st : {"none", "opening", "held", "null", "closed"}, sock : BOOLEAN,
               in_id : Nat, out_id : Nat]

Types ==
    /\ conn \in [Conns -> ConnStruct]
    /\ cur \in Conns
    /\ types \subseteq Nat \ {0} /\ IsFiniteSet(types)
    /\ Taken \subseteq types
    /\ in_mem_id \in Nat

\* A connection has no type, or two that exist and are not the program's; it
\* has them while it is opened or held.
IdsTaken ==
    \A c \in Conns :
        /\ conn[c].st = "none" => conn[c].in_id = 0 /\ conn[c].out_id = 0
        /\ conn[c].st \in {"opening", "held"} => conn[c].in_id # 0 /\ conn[c].out_id # 0
        /\ conn[c].in_id # 0 => conn[c].in_id \in types \ Taken
        /\ conn[c].out_id # 0 => conn[c].out_id \in types \ Taken

\* The inbound type of a connection is no other type of any connection.
IdsApart ==
    \A c, d \in Conns :
        conn[c].in_id # 0 =>
            /\ conn[c].in_id # conn[d].out_id
            /\ conn[c].in_id = conn[d].in_id => c = d

\* Every live block is the struct, a packet or the element of its connection.
Blocks ==
    \A b \in live :
        /\ b.of \in Conns
        /\ \/ b = Struct(b.of)
           \/ b = Inbound(b.of, conn[b.of].in_id) /\ conn[b.of].in_id # 0
           \/ b = Element(b.of, conn[b.of].out_id) /\ conn[b.of].out_id # 0

\* The operation that waits is about a connection in the state it needs.
Waits ==
    /\ pc \in Waiting \cup {"idle"}
    /\ pc \in {"connecting", "connected"} => conn[cur].st = "opening"
    /\ pc \in Waiting \ {"connecting", "connected"} => conn[cur].st = "held"

\* HeldLive, from the moment open_suva_conn has the connection.
Kept(c) ==
    /\ conn[c].sock
    /\ Struct(c) \in live
    /\ Element(c, conn[c].out_id) \in live

AllKept ==
    \A c \in Conns : conn[c].st \in {"opening", "held"} /\ ~(pc = "close" /\ cur = c) => Kept(c)

IInv == Types /\ IdsTaken /\ IdsApart /\ Blocks /\ Waits /\ AllKept

-----------------------------------------------------------------------------
\* At first there is neither a connection nor a block.
LEMMA InitInv == Init => IInv
  <1> SUFFICES ASSUME Init PROVE IInv
    OBVIOUS
  <1>1. \A c \in Conns : conn[c] = [st |-> "none", sock |-> FALSE, in_id |-> 0, out_id |-> 0]
    BY DEF Init
  <1>2. Types
    BY SessionAssumption DEF Init, Types, ConnStruct, SessionAssumption
  <1>3. IdsTaken /\ IdsApart
    BY <1>1 DEF IdsTaken, IdsApart
  <1>4. Blocks /\ Waits /\ AllKept
    BY <1>1 DEF Init, Blocks, Waits, AllKept, Waiting
  <1> QED
    BY <1>2, <1>3, <1>4 DEF IInv

\* What scl_free_packet_mem frees are packets of its own connection.
LEMMA FreesOwnPackets ==
  ASSUME IInv, NEW c \in Conns, NEW b \in live, b.type = conn[c].in_id
  PROVE  b.of = c /\ b = Inbound(c, conn[c].in_id)
  <1>1. conn[c] \in ConnStruct /\ b.of \in Conns /\ conn[b.of] \in ConnStruct
    BY DEF IInv, Types, Blocks
  <1>2. CASE b = Struct(b.of)
    <2>1. conn[c].in_id \in Taken /\ conn[c].in_id # 0
      BY <1>2, SessionAssumption DEF Struct, SessionAssumption
    <2> QED
      BY <2>1 DEF IInv, IdsTaken
  <1>3. CASE b = Inbound(b.of, conn[b.of].in_id) /\ conn[b.of].in_id # 0
    <2>1. conn[b.of].in_id = conn[c].in_id
      BY <1>3 DEF Inbound
    <2> QED
      BY <1>1, <1>3, <2>1 DEF IInv, IdsApart
  <1>4. CASE b = Element(b.of, conn[b.of].out_id) /\ conn[b.of].out_id # 0
    <2>1. conn[b.of].out_id = conn[c].in_id
      BY <1>4 DEF Element
    <2> QED
      BY <1>1, <1>4, <2>1 DEF IInv, IdsApart
  <1> QED
    BY <1>2, <1>3, <1>4 DEF IInv, Blocks

-----------------------------------------------------------------------------
(* Steps.                                                                  *)

\* What a step about connection c, which has its types already, may do.
StepOf(c) ==
    /\ UNCHANGED <<types, in_mem_id>>
    /\ cur' \in Conns
    /\ conn' \in [Conns -> ConnStruct]
    /\ \A d \in Conns : conn'[d].in_id = conn[d].in_id /\ conn'[d].out_id = conn[d].out_id
    /\ \A d \in Conns \ {c} : conn'[d] = conn[d]
    /\ conn'[c].st # "none"
    /\ conn'[c].st \in {"opening", "held"} => conn[c].st \in {"opening", "held"}
    /\ \A b \in live' : b \in live \/ (b = Inbound(c, conn[c].in_id) /\ conn[c].in_id # 0)
    /\ \A b \in live \ live' : b.of = c
    /\ pc = "close" => cur = c
    /\ pc' = "close" => cur' = c
    /\ Waits'
    /\ conn'[c].st \in {"opening", "held"} /\ pc' # "close" => Kept(c)'

LEMMA StepOfKeepsInv ==
  ASSUME IInv, NEW c \in Conns, StepOf(c)
  PROVE  IInv'
  <1>1. Types'
    BY DEF IInv, Types, StepOf
  <1>2. \A d \in Conns : conn[d] \in ConnStruct /\ conn'[d] \in ConnStruct
    BY DEF IInv, Types, StepOf
  <1>3. IdsTaken'
    BY DEF IInv, IdsTaken, StepOf
  <1>4. IdsApart'
    BY DEF IInv, IdsApart, StepOf
  <1>5. Blocks'
    <2> SUFFICES ASSUME NEW b \in live'
                 PROVE  /\ b.of \in Conns
                        /\ \/ b = Struct(b.of)
                           \/ b = Inbound(b.of, conn'[b.of].in_id) /\ conn'[b.of].in_id # 0
                           \/ b = Element(b.of, conn'[b.of].out_id) /\ conn'[b.of].out_id # 0
      BY DEF Blocks, Struct, Inbound, Element
    <2>1. CASE b \in live
      BY <2>1 DEF IInv, Blocks, StepOf
    <2>2. CASE b = Inbound(c, conn[c].in_id) /\ conn[c].in_id # 0
      BY <2>2 DEF Inbound, StepOf
    <2> QED
      BY <2>1, <2>2 DEF StepOf
  <1>6. AllKept'
    <2> SUFFICES ASSUME NEW d \in Conns, conn'[d].st \in {"opening", "held"},
                        ~(pc' = "close" /\ cur' = d)
                 PROVE  Kept(d)'
      BY DEF AllKept
    <2>1. CASE d = c
      BY <2>1 DEF StepOf
    <2>2. CASE d # c
      <3>1. conn'[d] = conn[d] /\ Kept(d)
        BY <2>2 DEF StepOf, IInv, AllKept
      <3>2. Struct(d).of # c /\ Element(d, conn[d].out_id).of # c
        BY <2>2 DEF Struct, Element
      <3> QED
        BY <3>1, <3>2 DEF Kept, StepOf, Struct, Element
    <2> QED
      BY <2>1, <2>2
  <1> QED
    BY <1>1, <1>3, <1>4, <1>5, <1>6 DEF IInv, StepOf

\* FreeOnlyOwn, as a step.
OwnFreed == \A b \in live \ live' : b.of = cur'

\* scl_free_packet_mem leaves the struct and the element where they are.
LEMMA FreeKeepsRest ==
  ASSUME IInv, NEW c \in Conns
  PROVE  LET rest == scl_free_packet_mem(c, live) IN
         /\ rest \subseteq live
         /\ \A b \in live \ rest : b.of = c
         /\ Struct(c) \in live => Struct(c) \in rest
         /\ Element(c, conn[c].out_id) \in live => Element(c, conn[c].out_id) \in rest
  <1>1. Struct(c) # Inbound(c, conn[c].in_id)
        /\ Element(c, conn[c].out_id) # Inbound(c, conn[c].in_id)
    BY DEF Struct, Inbound, Element
  <1> QED
    BY <1>1, FreesOwnPackets DEF scl_free_packet_mem

\* The types of cur's connection while an operation waits.
LEMMA WaitingIds ==
  ASSUME IInv, pc \in Waiting
  PROVE  /\ cur \in Conns /\ conn[cur] \in ConnStruct
         /\ conn[cur].st \in {"opening", "held"}
         /\ conn[cur].in_id # 0
         /\ pc # "close" => Kept(cur)
  BY DEF IInv, Types, Waits, IdsTaken, AllKept

\* No connection: nothing was allocated.
LEMMA OpenEarlyStep ==
  ASSUME IInv, NEW c \in Conns, OpenEarly(c)
  PROVE  IInv' /\ OwnFreed
  <1>1. conn[c] \in ConnStruct /\ cur \in Conns /\ pc = "idle"
    BY DEF IInv, Types, OpenEarly
  <1>2. conn'[c] = [conn[c] EXCEPT !.st = "null"] /\ \A d \in Conns \ {c} : conn'[d] = conn[d]
    BY DEF IInv, Types, OpenEarly
  <1>3. conn' \in [Conns -> ConnStruct]
    BY <1>1 DEF IInv, Types, OpenEarly, ConnStruct
  <1>4. Waits'
    BY <1>1 DEF Waits, OpenEarly, Waiting
  <1>5. StepOf(c)
    BY <1>1, <1>2, <1>3, <1>4 DEF StepOf, OpenEarly, ConnStruct
  <1> QED
    BY <1>5, StepOfKeepsInv DEF OwnFreed, OpenEarly

\* An operation that writes its packet needs a connection that is held.
LEMMA WriteOutStep ==
  ASSUME IInv, NEW c \in Conns, NEW op, NEW wait \in Waiting \ {"connecting", "connected"},
         NEW blocks \in SUBSET live, \A b \in live \ blocks : b.of = c,
         wait # "close" => blocks = live,
         scl_write_out(c, op, wait, blocks)
  PROVE  IInv' /\ OwnFreed
  <1>1. /\ conn[c].st = "held" /\ pc = "idle" /\ pc' = wait /\ cur' = c /\ live' = blocks
        /\ UNCHANGED <<conn, types, in_mem_id>>
    BY DEF scl_write_out
  <1>2. Waits'
    BY <1>1 DEF Waits, Waiting
  <1>3. wait # "close" => Kept(c)'
    BY <1>1 DEF IInv, AllKept, Kept, Element
  <1>4. conn' \in [Conns -> ConnStruct]
    BY <1>1 DEF IInv, Types
  <1>5. StepOf(c)
    BY <1>1, <1>2, <1>3, <1>4 DEF StepOf
  <1> QED
    BY <1>1, <1>5, StepOfKeepsInv DEF OwnFreed

\* close_suva_conn frees the element and the packets first.
LEMMA CloseStep ==
  ASSUME IInv, NEW c \in Conns, Close(c)
  PROVE  IInv' /\ OwnFreed
  <1> DEFINE blocks == scl_free_packet_mem(c, live \ {Element(c, conn[c].out_id)})
  <1>1. blocks \in SUBSET live
    BY DEF scl_free_packet_mem
  <1>2. \A b \in live \ blocks : b.of = c
    BY FreesOwnPackets DEF scl_free_packet_mem, Element
  <1> QED
    BY <1>1, <1>2, WriteOutStep DEF Close, Waiting

\* An operation returns, and keeps or ends the connection.
LEMMA ReturnStep ==
  ASSUME IInv, pc \in Waiting, Returns,
         NEW st \in {"held", "null", "closed"},
         conn' \in [Conns -> ConnStruct],
         \A d \in Conns \ {cur} : conn'[d] = conn[d],
         conn'[cur].st = st,
         conn'[cur].in_id = conn[cur].in_id, conn'[cur].out_id = conn[cur].out_id,
         st = "held" => conn'[cur].sock = conn[cur].sock /\ pc # "close",
         \/ live' = live
         \/ live' = scl_free_packet_mem(cur, live)
         \/ live' = scl_free_packet_mem(cur, live) \ {Struct(cur)} /\ st # "held"
  PROVE  IInv' /\ OwnFreed
  <1>1. /\ pc' = "idle" /\ cur' = cur /\ cur \in Conns
        /\ UNCHANGED <<types, in_mem_id>>
    BY WaitingIds DEF Returns
  <1> DEFINE rest == scl_free_packet_mem(cur, live)
  <1>2. live' \subseteq live /\ \A b \in live \ live' : b.of = cur
    <2>1. rest \subseteq live /\ \A b \in live \ rest : b.of = cur
      BY <1>1, FreeKeepsRest
    <2>2. Struct(cur).of = cur
      BY DEF Struct
    <2>3. live' = live \/ live' = rest \/ live' = rest \ {Struct(cur)}
      OBVIOUS
    <2> HIDE DEF rest
    <2> QED
      BY <2>1, <2>2, <2>3
  <1>3. st = "held" => Kept(cur)'
    BY <1>1, WaitingIds, FreeKeepsRest DEF Kept, Struct, Element
  <1>4. Waits'
    BY <1>1 DEF Waits, Waiting
  <1>5. StepOf(cur)
    BY <1>1, <1>2, <1>3, <1>4, WaitingIds DEF StepOf
  <1> QED
    BY <1>1, <1>2, <1>5, StepOfKeepsInv DEF OwnFreed

\* open_suva_conn gives a new connection two types nobody has.
LEMMA OpenStep ==
  ASSUME IInv, NEW c \in Conns, Open(c)
  PROVE  IInv' /\ OwnFreed
  <1> DEFINE in == FreeType(in_mem_id, types)
             out == FreeType(in, types \cup {in})
  <1>1. in \in Nat /\ in > in_mem_id /\ in \notin types
    BY FreeTypeIsFree DEF IInv, Types
  <1>2. IsFiniteSet(types \cup {in})
    BY FS_AddElement DEF IInv, Types
  <1>3. out \in Nat /\ out > in /\ out \notin types \cup {in}
    BY <1>1, <1>2, FreeTypeIsFree
  <1>4. in # 0 /\ out # 0 /\ in # out
    BY <1>1, <1>3 DEF IInv, Types
  <1>5. /\ conn' = [conn EXCEPT ![c] = [st |-> "opening", sock |-> TRUE,
                                        in_id |-> in, out_id |-> out]]
        /\ types' = types \cup {in, out} /\ in_mem_id' = in
        /\ live' = live \cup {Struct(c), Element(c, out)}
        /\ pc' = "connecting" /\ cur' = c
        /\ pc = "idle" /\ conn[c].st = "none"
    BY DEF Open
  <1> HIDE DEF in, out
  <1>6. /\ conn'[c] = [st |-> "opening", sock |-> TRUE, in_id |-> in, out_id |-> out]
        /\ \A d \in Conns \ {c} : conn'[d] = conn[d]
        /\ conn' \in [Conns -> ConnStruct]
    BY <1>1, <1>3, <1>5 DEF IInv, Types, ConnStruct
  <1>7. \A d \in Conns : conn[d] \in ConnStruct
    BY DEF IInv, Types
  <1>8. Types'
    <2>1. IsFiniteSet((types \cup {in}) \cup {out})
      BY <1>2, FS_AddElement
    <2>2. types' = (types \cup {in}) \cup {out}
      BY <1>5
    <2>3. types' \subseteq Nat \ {0} /\ Taken \subseteq types'
      BY <1>1, <1>3, <1>4, <1>5 DEF IInv, Types
    <2> QED
      BY <1>1, <1>5, <1>6, <2>1, <2>2, <2>3 DEF Types
  <1>9. IdsTaken'
    <2>1. in \in types' \ Taken /\ out \in types' \ Taken
      BY <1>1, <1>3, <1>5 DEF IInv, Types
    <2> QED
      BY <1>4, <1>5, <1>6, <2>1 DEF IInv, IdsTaken
  <1>10. IdsApart'
    <2>1. \A d \in Conns : conn[d].in_id \notin {in, out} /\ conn[d].out_id \notin {in, out}
      BY <1>1, <1>3, <1>4 DEF IInv, IdsTaken
    <2> QED
      BY <1>4, <1>6, <2>1 DEF IInv, IdsApart
  <1>11. Blocks'
    <2> SUFFICES ASSUME NEW b \in live'
                 PROVE  /\ b.of \in Conns
                        /\ \/ b = Struct(b.of)
                           \/ b = Inbound(b.of, conn'[b.of].in_id) /\ conn'[b.of].in_id # 0
                           \/ b = Element(b.of, conn'[b.of].out_id) /\ conn'[b.of].out_id # 0
      BY DEF Blocks, Struct, Inbound, Element
    <2>1. CASE b = Struct(c)
      BY <2>1 DEF Struct
    <2>2. CASE b = Element(c, out)
      <3>1. b.of = c
        BY <2>2 DEF Element
      <3> QED
        BY <1>4, <1>6, <2>2, <3>1
    <2>3. CASE b \in live
      <3>1. b.of = c => b = Struct(b.of)
        BY <1>5, <2>3 DEF IInv, Blocks, IdsTaken
      <3> QED
        BY <1>6, <2>3, <3>1 DEF IInv, Blocks
    <2> QED
      BY <1>5, <2>1, <2>2, <2>3
  <1>12. Waits'
    BY <1>5, <1>6 DEF Waits, Waiting
  <1>13. AllKept'
    BY <1>5, <1>6 DEF IInv, AllKept, Kept, Struct, Element
  <1> QED
    BY <1>5, <1>8, <1>9, <1>10, <1>11, <1>12, <1>13 DEF IInv, OwnFreed

\* The two messages suvad sends when it is asked for a connection.
LEMMA ConnectStep ==
  ASSUME IInv, Connecting \/ Connected
  PROVE  IInv' /\ OwnFreed
  <1>1. pc \in Waiting /\ cur \in Conns /\ conn[cur] \in ConnStruct
    BY WaitingIds DEF Connecting, Connected, Goes, Waiting, IInv, Types
  <1>2. pc # "close" /\ conn[cur].st = "opening"
    BY DEF Connecting, Connected, Goes, IInv, Waits
  <1>3. ASSUME NEW st \in {"held", "null"}, conn' = [conn EXCEPT ![cur].st = st],
               Returns, live' = live \/ live' = scl_free_packet_mem(cur, live)
        PROVE  IInv' /\ OwnFreed
    <2>1. /\ conn' \in [Conns -> ConnStruct]
          /\ \A d \in Conns \ {cur} : conn'[d] = conn[d]
          /\ conn'[cur].st = st /\ conn'[cur].sock = conn[cur].sock
          /\ conn'[cur].in_id = conn[cur].in_id /\ conn'[cur].out_id = conn[cur].out_id
      BY <1>1, <1>3 DEF IInv, Types, ConnStruct
    <2> QED
      BY <1>1, <1>2, <1>3, <2>1, ReturnStep
  <1>4. ASSUME Refused(cur)
        PROVE  IInv' /\ OwnFreed
    <2>1. /\ conn' \in [Conns -> ConnStruct]
          /\ \A d \in Conns \ {cur} : conn'[d] = conn[d]
          /\ conn'[cur].st = "null"
          /\ conn'[cur].in_id = conn[cur].in_id /\ conn'[cur].out_id = conn[cur].out_id
      BY <1>1, <1>4 DEF IInv, Types, ConnStruct, Refused
    <2>2. Returns /\ live' = scl_free_packet_mem(cur, live) \ {Struct(cur)}
      BY <1>4 DEF Refused
    <2> QED
      BY <1>1, <2>1, <2>2, ReturnStep
  <1>5. ASSUME pc' = "connected", UNCHANGED <<cur, conn, types, in_mem_id, live>>
        PROVE  IInv' /\ OwnFreed
    <2>1. Waits'
      BY <1>2, <1>5 DEF Waits, Waiting
    <2>2. StepOf(cur)
      BY <1>1, <1>2, <1>5, <2>1, WaitingIds DEF StepOf, IInv, Types, Kept, Struct, Element
    <2> QED
      BY <1>1, <1>5, <2>2, StepOfKeepsInv DEF OwnFreed
  <1> QED
    BY <1>3, <1>4, <1>5 DEF Connecting, Connected

\* create_suvlet, destroy_suvlet and a function call return.
LEMMA ReturnsStep ==
  ASSUME IInv, CreateReturns \/ CallReturns
  PROVE  IInv' /\ OwnFreed
  <1>1. /\ pc \in {"create", "call", "destroy"}
        /\ Returns /\ UNCHANGED conn /\ live' = scl_free_packet_mem(cur, live)
    BY DEF CreateReturns, CallReturns, Goes
  <1>2. pc \in Waiting /\ conn[cur].st = "held" /\ conn \in [Conns -> ConnStruct]
    BY <1>1 DEF IInv, Types, Waits, Waiting
  <1> QED
    BY <1>1, <1>2, ReturnStep

\* close_suva_conn returns.
LEMMA CloseReturnsStep ==
  ASSUME IInv, CloseReturns
  PROVE  IInv' /\ OwnFreed
  <1>1. pc \in Waiting /\ cur \in Conns /\ conn[cur] \in ConnStruct
    BY WaitingIds DEF CloseReturns, Goes, Waiting, IInv, Types
  <1>2. /\ conn' \in [Conns -> ConnStruct]
        /\ \A d \in Conns \ {cur} : conn'[d] = conn[d]
        /\ conn'[cur].st = "closed"
        /\ conn'[cur].in_id = conn[cur].in_id /\ conn'[cur].out_id = conn[cur].out_id
    BY <1>1 DEF IInv, Types, ConnStruct, CloseReturns
  <1>3. Returns /\ live' = scl_free_packet_mem(cur, live) \ {Struct(cur)}
    BY DEF CloseReturns
  <1> QED
    BY <1>1, <1>2, <1>3, ReturnStep

\* scl_read_packet, whatever it returns.
LEMMA ReadStep ==
  ASSUME IInv, ReadPacket \/ ReadFails \/ ReadCut
  PROVE  IInv' /\ OwnFreed
  <1> DEFINE rest == scl_free_packet_mem(cur, live)
  <1>1. /\ pc \in Waiting /\ UNCHANGED <<pc, cur, conn, types, in_mem_id>>
        /\ live' = live \/ live' = rest \cup {Inbound(cur, conn[cur].in_id)}
    BY DEF ReadPacket, ReadFails, ReadCut, Reads
  <1>2. /\ cur \in Conns /\ conn[cur].st \in {"opening", "held"} /\ conn[cur].in_id # 0
        /\ pc # "close" => Kept(cur)
        /\ conn \in [Conns -> ConnStruct] /\ conn[cur].st # "none"
    BY <1>1, WaitingIds DEF IInv, Types
  <1>3. /\ rest \subseteq live /\ \A b \in live \ rest : b.of = cur
        /\ Struct(cur) \in live => Struct(cur) \in rest
        /\ Element(cur, conn[cur].out_id) \in live => Element(cur, conn[cur].out_id) \in rest
    BY <1>2, FreeKeepsRest
  <1> HIDE DEF rest
  <1>4. \A b \in live \ live' : b.of = cur
    BY <1>1, <1>3
  <1>5. Waits'
    BY <1>1 DEF IInv, Waits
  <1>6. pc # "close" => Kept(cur)'
    BY <1>1, <1>2, <1>3 DEF Kept, Struct, Element
  <1>7. \A b \in live' : b \in live \/ b = Inbound(cur, conn[cur].in_id)
    BY <1>1, <1>3
  <1>8. StepOf(cur)
    BY <1>1, <1>2, <1>4, <1>5, <1>6, <1>7 DEF StepOf
  <1> QED
    BY <1>1, <1>2, <1>4, <1>8, StepOfKeepsInv DEF OwnFreed

\* Nothing suvad or a suvlet does reaches the memory of the library.
LEMMA RemoteKeepsInv ==
  ASSUME IInv, UNCHANGED local
  PROVE  IInv' /\ OwnFreed
  BY DEF IInv, Types, IdsTaken, IdsApart, Blocks, Waits, AllKept, Kept, Struct, Inbound,
       Element, OwnFreed, local

LEMMA StepInv == IInv /\ [Next]_vars => IInv' /\ OwnFreed
  <1> SUFFICES ASSUME IInv, [Next]_vars PROVE IInv' /\ OwnFreed
    OBVIOUS
  <1>1. ASSUME NEW c \in Conns, OpenEarly(c) \/ Open(c) \/ Close(c)
        PROVE  IInv' /\ OwnFreed
    BY <1>1, OpenEarlyStep, OpenStep, CloseStep
  <1>2. ASSUME NEW c \in Busy, Create(c) \/ Call(c) \/ Destroy(c)
        PROVE  IInv' /\ OwnFreed
    <2>1. c \in Conns
      BY <1>2, SessionAssumption DEF SessionAssumption
    <2>2. PICK op \in {"CSUVLET", "FCALL", "FCALL unknown", "DSUVLET"},
               wait \in {"create", "call", "destroy"} : scl_write_out(c, op, wait, live)
      BY <1>2 DEF Create, Call, Destroy
    <2> QED
      BY <2>1, <2>2, WriteOutStep DEF Waiting
  <1>3. CASE LocalStep
    BY <1>3, ConnectStep, ReturnsStep, CloseReturnsStep DEF LocalStep
  <1>4. CASE ReadPacket \/ ReadFails \/ ReadCut
    BY <1>4, ReadStep
  <1>5. CASE Done \/ RemoteStep \/ (\E c \in Conns : SuvadDies(c) \/ SuvletDies(c))
             \/ UNCHANGED vars
    <2>1. UNCHANGED local
      BY <1>5 DEF Done, RemoteStep, Suvad, SuvadDies, SuvletDies, suva_get_request, HungUp,
           vars, local
    <2> QED
      BY <2>1, RemoteKeepsInv
  <1> QED
    BY <1>1, <1>2, <1>3, <1>4, <1>5 DEF Next

-----------------------------------------------------------------------------
\* open_suva_conn to close_suva_conn: a connection the program holds has its
\* struct, its socket and the element of its queue that scl_queue_value fills.
THEOREM HeldIsLive == Spec => []HeldLive
  <1>1. IInv => HeldLive
    BY DEF IInv, AllKept, Kept, HeldLive
  <1>2. IInv /\ [Next]_vars => IInv'
    BY StepInv
  <1> QED
    BY <1>1, <1>2, InitInv, PTL DEF Spec

\* scl_free_packet_mem and close_suva_conn free what belongs to the connection
\* they are called for and nothing else.
THEOREM FreesOnlyOwn == Spec => FreeOnlyOwn
  <1>1. IInv /\ [Next]_vars => IInv'
    BY StepInv
  <1>2. IInv /\ [Next]_vars => [\A b \in live \ live' : b.of = cur']_vars
    BY StepInv DEF OwnFreed
  <1> QED
    BY <1>1, <1>2, InitInv, PTL DEF Spec, FreeOnlyOwn

-----------------------------------------------------------------------------
(* Packets are freed when an operation returns.                            *)

\* The operation that waits has a packet, open_suva_conn not before its first
\* read has begun; the others are of connections that were abandoned.
PacketHeld ==
    \A b \in live : b.what = "packet" =>
        \/ Abandoned(b.of)
        \/ b.of = cur /\ pc \in Waiting

\* An abandoned connection is one for ever.
LEMMA AbandonedStays ==
  ASSUME IInv, [Next]_vars, NEW c \in Conns, Abandoned(c)
  PROVE  Abandoned(c)'
  <1>1. /\ conn \in [Conns -> ConnStruct] /\ cur \in Conns
        /\ conn[c].st = "null" /\ conn[c].sock
    BY DEF IInv, Types, Abandoned
  <1>2. ASSUME NEW d \in Conns, OpenEarly(d) \/ Open(d)
        PROVE  conn'[c] = conn[c]
    BY <1>1, <1>2 DEF OpenEarly, Open
  <1>3. ASSUME NEW d \in Conns, Close(d) \/ Create(d) \/ Call(d) \/ Destroy(d)
        PROVE  conn'[c] = conn[c]
    BY <1>3 DEF Close, Create, Call, Destroy, scl_write_out
  <1>4. ASSUME LocalStep
        PROVE  conn'[c] = conn[c]
    <2>1. c # cur
      BY <1>1, <1>4, WaitingIds DEF LocalStep, Connecting, Connected, CreateReturns, CallReturns,
         CloseReturns, Goes, Waiting
    <2> QED
      BY <1>1, <1>4, <2>1 DEF LocalStep, Connecting, Connected, Refused, CreateReturns, CallReturns,
         CloseReturns
  <1>5. ASSUME ReadPacket \/ ReadFails \/ ReadCut \/ Done \/ RemoteStep \/ UNCHANGED vars
               \/ (\E d \in Conns : SuvadDies(d) \/ SuvletDies(d))
        PROVE  conn'[c] = conn[c]
    BY <1>5 DEF ReadPacket, ReadFails, ReadCut, Done, RemoteStep, Suvad, suva_get_request, HungUp,
       SuvadDies, SuvletDies, vars, local
  <1>6. conn'[c] = conn[c]
    BY <1>2, <1>3, <1>4, <1>5, SessionAssumption DEF Next, SessionAssumption
  <1> QED
    BY <1>1, <1>6 DEF Abandoned

\* scl_free_packet_mem leaves no packet but those of abandoned connections.
LEMMA FreesEveryPacket ==
  ASSUME IInv, PacketHeld, NEW b \in scl_free_packet_mem(cur, live), b.what = "packet"
  PROVE  Abandoned(b.of) /\ b.of \in Conns
  <1>1. b \in live /\ b.type # conn[cur].in_id
    BY DEF scl_free_packet_mem
  <1>2. b = Inbound(b.of, conn[b.of].in_id) /\ b.of \in Conns
    BY <1>1 DEF IInv, Blocks, Struct, Element
  <1>3. b.of # cur
    BY <1>1, <1>2 DEF Inbound
  <1> QED
    BY <1>1, <1>2, <1>3 DEF PacketHeld

LEMMA PacketStep == IInv /\ PacketHeld /\ [Next]_vars => PacketHeld'
  <1> SUFFICES ASSUME IInv, PacketHeld, [Next]_vars PROVE PacketHeld'
    OBVIOUS
  <1> DEFINE rest == scl_free_packet_mem(cur, live)
             Gone(c) == conn'[c].st = "null" /\ conn'[c].sock
             Left(b) == b.what = "packet" => Gone(b.of)
  <1>c. ASSUME NEW c \in Conns, Abandoned(c) PROVE Gone(c)
    BY <1>c, AbandonedStays DEF Abandoned
  <1>1. \A b \in rest : Left(b)
    BY <1>c, FreesEveryPacket
  <1>2. ASSUME pc = "idle" PROVE \A b \in live : Left(b)
    <2> SUFFICES ASSUME NEW b \in live, b.what = "packet" PROVE Gone(b.of)
      OBVIOUS
    <2>1. b.of \in Conns /\ Abandoned(b.of)
      BY <1>2 DEF PacketHeld, Waiting, IInv, Blocks
    <2> QED
      BY <1>c, <2>1
  <1>a. \A b \in live : Left(b) \/ (b.of = cur /\ pc \in Waiting)
    BY <1>c DEF PacketHeld, IInv, Blocks
  <1>b. ASSUME \A b \in live' : Left(b) \/ (b.of = cur' /\ pc' \in Waiting)
        PROVE  PacketHeld'
    BY <1>b DEF PacketHeld, Abandoned
  <1>3. ASSUME NEW c \in Conns, OpenEarly(c) \/ Open(c) \/ Close(c)
        PROVE  PacketHeld'
    <2>1. \A b \in live : Left(b)
      BY <1>2, <1>3 DEF OpenEarly, Open, Close, scl_write_out
    <2>2. \A b \in live' : b \in live \/ b.what # "packet"
      BY <1>3 DEF OpenEarly, Open, Close, scl_write_out, scl_free_packet_mem, Struct, Element
    <2> QED
      BY <1>b, <2>1, <2>2
  <1>4. ASSUME NEW c \in Busy, Create(c) \/ Call(c) \/ Destroy(c)
        PROVE  PacketHeld'
    <2>1. pc = "idle" /\ live' = live
      BY <1>4 DEF Create, Call, Destroy, scl_write_out
    <2> QED
      BY <1>2, <1>b, <2>1
  <1>5. CASE Connecting
    <2>1. CASE got = "failed" /\ live' = live /\ conn' = [conn EXCEPT ![cur].st = "null"]
      <3>1. pc \in Waiting /\ pc # "close"
        BY <1>5 DEF Connecting, Goes, Waiting
      <3>2. cur \in Conns /\ conn \in [Conns -> ConnStruct] /\ conn[cur].sock
        BY <3>1, WaitingIds DEF IInv, Types, Kept
      <3>3. conn'[cur].st = "null" /\ conn'[cur].sock = conn[cur].sock
        BY <2>1, <3>2 DEF ConnStruct
      <3>4. \A b \in live : b.of = cur => Left(b)
        BY <3>2, <3>3
      <3> QED
        BY <1>a, <1>b, <2>1, <3>4
    <2>2. CASE Refused(cur)
      BY <1>1, <1>b, <2>2 DEF Refused
    <2>3. CASE pc' = "connected" /\ UNCHANGED <<cur, live>>
      BY <1>a, <1>b, <2>3 DEF Waiting
    <2> QED
      BY <1>5, <2>1, <2>2, <2>3 DEF Connecting
  <1>6. CASE Connected \/ CreateReturns \/ CallReturns \/ CloseReturns
    <2>1. live' \subseteq rest
      BY <1>6 DEF Connected, Refused, CreateReturns, CallReturns, CloseReturns
    <2> QED
      BY <1>1, <1>b, <2>1
  <1>7. CASE ReadPacket \/ ReadCut
    <2>1. /\ live' = rest \cup {Inbound(cur, conn[cur].in_id)}
          /\ pc \in Waiting /\ UNCHANGED <<pc, cur>>
      BY <1>7 DEF ReadPacket, ReadCut, Reads
    <2>2. Inbound(cur, conn[cur].in_id).of = cur
      BY DEF Inbound
    <2> QED
      BY <1>1, <1>b, <2>1, <2>2
  <1>8. CASE ReadFails
    <2>1. UNCHANGED <<live, pc, cur>>
      BY <1>8 DEF ReadFails
    <2> QED
      BY <1>a, <1>b, <2>1
  <1>9. CASE Done \/ RemoteStep \/ (\E c \in Conns : SuvadDies(c) \/ SuvletDies(c))
             \/ UNCHANGED vars
    <2>1. UNCHANGED <<live, pc, cur>>
      BY <1>9 DEF Done, RemoteStep, Suvad, SuvadDies, SuvletDies, suva_get_request, HungUp,
           vars, local
    <2> QED
      BY <1>a, <1>b, <2>1
  <1> QED
    BY <1>3, <1>4, <1>5, <1>6, <1>7, <1>8, <1>9 DEF Next, LocalStep

\* Whichever way an operation returns, what it has read of packets is freed,
\* except when open_suva_conn abandons the connection.
THEOREM PacketsAreFreed == Spec => []PacketsFreed
  <1>1. Init => PacketHeld
    BY DEF Init, PacketHeld
  <1>2. IInv /\ PacketHeld /\ [Next]_vars => IInv' /\ PacketHeld'
    BY StepInv, PacketStep
  <1>3. PacketHeld => PacketsFreed
    BY DEF PacketHeld, PacketsFreed, Waiting
  <1> QED
    BY <1>1, <1>2, <1>3, InitInv, PTL DEF Spec

-----------------------------------------------------------------------------
(* A connection that was refused is released.                              *)

\* NullReleased, and what it needs: a connection that was never opened has
\* nothing, and a failed read is remembered.
Unopened == \A c \in Conns : conn[c].st = "none" => ~conn[c].sock /\ \A b \in live : b.of # c
Remembered == got = "failed" => "read_failed" \in history
NullInv == Unopened /\ NullReleased /\ Remembered

\* A step about a connection that is neither unopened nor null afterwards, if
\* it touches memory at all, and that changes no connection which is.
LEMMA OtherStep ==
  ASSUME NullInv, OwnFreed,
         \A c \in Conns : conn'[c].st \in {"none", "null"} => conn'[c] = conn[c],
         \A b \in live' \ live : b.of = cur',
         live' = live \/ conn'[cur'].st \notin {"none", "null"},
         history \subseteq history',
         got' = "failed" => "read_failed" \in history'
  PROVE  NullInv'
  <1>1. ASSUME NEW c \in Conns, conn'[c].st \in {"none", "null"}, NEW b, b.of = c
        PROVE  b \in live' <=> b \in live
    BY <1>1 DEF OwnFreed
  <1>2. Unopened'
    BY <1>1 DEF NullInv, Unopened
  <1>3. NullReleased'
    <2> SUFFICES ASSUME NEW c \in Conns, conn'[c].st = "null"
                 PROVE  IF conn'[c].sock
                        THEN "read_failed" \in history'
                             /\ {Struct(c), Element(c, conn'[c].out_id)} \subseteq live'
                        ELSE \A b \in live' : b.of = c => b.what = "element"
      BY DEF NullReleased, Abandoned, Struct, Element
    <2>1. conn'[c] = conn[c] /\ conn[c].st = "null"
      OBVIOUS
    <2>2. IF conn[c].sock
          THEN "read_failed" \in history /\ {Struct(c), Element(c, conn[c].out_id)} \subseteq live
          ELSE \A b \in live : b.of = c => b.what = "element"
      BY <2>1 DEF NullInv, NullReleased, Abandoned
    <2>3. Struct(c).of = c /\ Element(c, conn[c].out_id).of = c
      BY DEF Struct, Element
    <2> QED
      BY <1>1, <2>1, <2>2, <2>3
  <1> QED
    BY <1>2, <1>3 DEF NullInv, Remembered

\* A step after which one connection is null, and as NullReleased says.
LEMMA NullStepOf ==
  ASSUME NullInv, OwnFreed, NEW c \in Conns, cur' = c \/ live' = live,
         \A d \in Conns \ {c} : conn'[d] = conn[d],
         live' \subseteq live, history \subseteq history', got' = "failed" => "read_failed" \in history',
         conn'[c].st = "null",
         IF conn'[c].sock
         THEN "read_failed" \in history' /\ {Struct(c), Element(c, conn'[c].out_id)} \subseteq live'
         ELSE \A b \in live' : b.of = c => b.what = "element"
  PROVE  NullInv'
  <1>1. Unopened'
    BY DEF NullInv, Unopened
  <1>2. NullReleased'
    <2> SUFFICES ASSUME NEW d \in Conns, conn'[d].st = "null"
                 PROVE  IF conn'[d].sock
                        THEN "read_failed" \in history'
                             /\ {Struct(d), Element(d, conn'[d].out_id)} \subseteq live'
                        ELSE \A b \in live' : b.of = d => b.what = "element"
      BY DEF NullReleased, Abandoned, Struct, Element
    <2>1. CASE d = c
      BY <2>1
    <2>2. CASE d # c
      <3>1. conn'[d] = conn[d] /\ conn[d].st = "null"
        BY <2>2
      <3>2. IF conn[d].sock
            THEN "read_failed" \in history /\ {Struct(d), Element(d, conn[d].out_id)} \subseteq live
            ELSE \A b \in live : b.of = d => b.what = "element"
        BY <3>1 DEF NullInv, NullReleased, Abandoned
      <3>3. Struct(d).of = d /\ Element(d, conn[d].out_id).of = d
        BY DEF Struct, Element
      <3>4. \A b \in live \ live' : b.of # d
        BY <2>2 DEF OwnFreed
      <3> QED
        BY <3>1, <3>2, <3>3, <3>4
    <2> QED
      BY <2>1, <2>2
  <1> QED
    BY <1>1, <1>2 DEF NullInv, Remembered

LEMMA NullStep == IInv /\ NullInv /\ [Next]_vars => NullInv'
  <1> SUFFICES ASSUME IInv, NullInv, [Next]_vars PROVE NullInv'
    OBVIOUS
  <1>1. conn \in [Conns -> ConnStruct] /\ cur \in Conns /\ OwnFreed
    BY StepInv DEF IInv, Types
  <1>2. ASSUME NEW c \in Conns, OpenEarly(c)
        PROVE  NullInv'
    <2>1. /\ conn'[c] = [conn[c] EXCEPT !.st = "null"] /\ conn[c].st = "none"
          /\ \A d \in Conns \ {c} : conn'[d] = conn[d]
          /\ UNCHANGED <<live, history, got>>
      BY <1>1, <1>2 DEF OpenEarly
    <2>2. ~conn'[c].sock /\ conn'[c].st = "null" /\ \A b \in live' : b.of # c
      BY <1>1, <2>1 DEF ConnStruct, NullInv, Unopened
    <2> QED
      BY <1>1, <2>1, <2>2, NullStepOf DEF NullInv, Remembered
  <1>3. ASSUME NEW c \in Conns, Open(c)
        PROVE  NullInv'
    <2>1. PICK in, out :
             /\ conn' = [conn EXCEPT ![c] = [st |-> "opening", sock |-> TRUE,
                                             in_id |-> in, out_id |-> out]]
             /\ live' = live \cup {Struct(c), Element(c, out)}
             /\ got' = "no" /\ cur' = c /\ UNCHANGED history
      BY <1>3 DEF Open
    <2>2. conn'[c].st = "opening" /\ \A d \in Conns \ {c} : conn'[d] = conn[d]
      BY <1>1, <2>1
    <2>3. \A b \in live' \ live : b.of = c
      BY <2>1 DEF Struct, Element
    <2> QED
      BY <1>1, <2>1, <2>2, <2>3, OtherStep
  <1>4. ASSUME NEW c \in Conns, NEW op, NEW wait, NEW blocks \in SUBSET live,
               scl_write_out(c, op, wait, blocks)
        PROVE  NullInv'
    BY <1>1, <1>4, OtherStep DEF scl_write_out
  <1>5. ASSUME NEW c \in Conns, Close(c)
        PROVE  NullInv'
    BY <1>4, <1>5 DEF Close, scl_free_packet_mem
  <1>6. ASSUME NEW c \in Busy, Create(c) \/ Call(c) \/ Destroy(c)
        PROVE  NullInv'
    <2>1. c \in Conns
      BY <1>6, SessionAssumption DEF SessionAssumption
    <2> QED
      BY <1>4, <1>6, <2>1 DEF Create, Call, Destroy
  <1>7. ASSUME Refused(cur)
        PROVE  NullInv'
    <2>1. /\ conn'[cur].st = "null" /\ conn'[cur].sock = FALSE
          /\ \A d \in Conns \ {cur} : conn'[d] = conn[d]
      BY <1>1, <1>7 DEF Refused, ConnStruct
    <2>2. /\ live' = {b \in live : b.type # conn[cur].in_id} \ {Struct(cur)}
          /\ got' = "no" /\ UNCHANGED <<cur, history>>
      BY <1>7 DEF Refused, Returns, scl_free_packet_mem
    <2>3. \A b \in live' : b.of = cur => b.what = "element"
      BY <2>2 DEF IInv, Blocks, Inbound, Element
    <2> QED
      BY <1>1, <2>1, <2>2, <2>3, NullStepOf
  <1>8. CASE Connecting
    <2>1. CASE got = "failed" /\ conn' = [conn EXCEPT ![cur].st = "null"] /\ Returns
               /\ UNCHANGED live
      <3>1. "read_failed" \in history' /\ got' = "no" /\ UNCHANGED <<cur, history>>
        BY <2>1 DEF NullInv, Remembered, Returns
      <3>2. \A d \in Conns \ {cur} : conn'[d] = conn[d]
        BY <1>1, <2>1
      <3>3. /\ conn'[cur].st = "null" /\ conn'[cur].sock = conn[cur].sock
            /\ conn'[cur].out_id = conn[cur].out_id
        BY <1>1, <2>1 DEF ConnStruct
      <3>4. Kept(cur)
        BY <1>8, WaitingIds DEF Connecting, Goes, Waiting
      <3>5. {Struct(cur), Element(cur, conn'[cur].out_id)} \subseteq live'
        BY <2>1, <3>3, <3>4 DEF Kept
      <3>6. conn'[cur].sock
        BY <3>3, <3>4 DEF Kept
      <3>7. /\ live' \subseteq live /\ live' = live /\ history \subseteq history'
            /\ got' = "failed" => "read_failed" \in history'
        BY <2>1, <3>1
      <3> QED
        BY <1>1, <3>1, <3>2, <3>3, <3>5, <3>6, <3>7, NullStepOf
    <2>2. CASE got' = "no" /\ UNCHANGED <<cur, conn, live, history>>
      BY <1>1, <2>2, OtherStep
    <2> QED
      BY <1>7, <1>8, <2>1, <2>2 DEF Connecting
  <1>9. CASE Connected
    <2>1. CASE conn' = [conn EXCEPT ![cur].st = "held"] /\ Returns
               /\ live' = scl_free_packet_mem(cur, live)
      <3>1. conn'[cur].st = "held" /\ \A d \in Conns \ {cur} : conn'[d] = conn[d]
        BY <1>1, <2>1 DEF ConnStruct
      <3> QED
        BY <1>1, <2>1, <3>1, OtherStep DEF Returns, scl_free_packet_mem
    <2> QED
      BY <1>7, <1>9, <2>1 DEF Connected
  <1>10. CASE CreateReturns \/ CallReturns
    <2>1. conn[cur].st = "held" /\ live' \subseteq live /\ UNCHANGED <<conn, cur, history>> /\ got' = "no"
      BY <1>10 DEF CreateReturns, CallReturns, Goes, Returns, scl_free_packet_mem, IInv, Waits, Waiting
    <2> QED
      BY <1>1, <2>1, OtherStep
  <1>11. CASE CloseReturns
    <2>1. conn'[cur].st = "closed" /\ \A d \in Conns \ {cur} : conn'[d] = conn[d]
      BY <1>1, <1>11 DEF CloseReturns, ConnStruct
    <2> QED
      BY <1>1, <1>11, <2>1, OtherStep DEF CloseReturns, Returns, scl_free_packet_mem
  <1>12. CASE ReadPacket \/ ReadCut
    <2>1. /\ conn[cur].st \in {"opening", "held"} /\ UNCHANGED <<conn, cur>>
          /\ history \subseteq history' /\ (got' = "failed" => "read_failed" \in history')
      BY <1>12, WaitingIds DEF ReadPacket, ReadCut, Reads
    <2>2. \A b \in live' \ live : b.of = cur
      BY <1>12 DEF ReadPacket, ReadCut, scl_free_packet_mem, Inbound
    <2> QED
      BY <1>1, <2>1, <2>2, OtherStep
  <1>13. CASE ReadFails
    BY <1>1, <1>13, OtherStep DEF ReadFails
  <1>14. CASE Done \/ RemoteStep \/ (\E c \in Conns : SuvadDies(c) \/ SuvletDies(c))
              \/ UNCHANGED vars
    <2>1. UNCHANGED local /\ history \subseteq history'
      BY <1>14 DEF Done, RemoteStep, Suvad, SuvadDies, SuvletDies, suva_get_request, HungUp,
           vars, local
    <2> QED
      BY <1>1, <2>1, OtherStep DEF local, NullInv, Remembered
  <1> QED
    BY <1>2, <1>3, <1>5, <1>6, <1>8, <1>9, <1>10, <1>11, <1>12, <1>13, <1>14
       DEF Next, LocalStep

\* When open_suva_conn returns NULL, socket, struct and packets are released,
\* or it could not read its first message and abandons the connection.
THEOREM NullIsReleased == Spec => []NullReleased
  <1>1. Init => NullInv
    BY DEF Init, NullInv, Unopened, NullReleased, Remembered
  <1>2. IInv /\ NullInv /\ [Next]_vars => IInv' /\ NullInv'
    BY StepInv, NullStep
  <1> QED
    BY <1>1, <1>2, InitInv, PTL DEF Spec, NullInv

\* The memory of connections, in one: what the program holds is there, and
\* packets and refused connections are released, except that open_suva_conn
\* loses everything when it could not read its first message.
THEOREM MemoryIsAccounted == Spec => []MemoryAccounted
  BY HeldIsLive, PacketsAreFreed, NullIsReleased, PTL DEF MemoryAccounted

-----------------------------------------------------------------------------
(* Types of what is under way.                                             *)

Stdins == {"DSUVLET", "FCALL", "FCALL unknown"}

AnswerRec == [op : {"RETURN", "FRETURN", "FERROR"}, code : Codes \cup {"none"}, n : Nat]
PacketRec == [op : {"OCONN", "CSUVLET", "CCONN"} \cup Stdins, n : Nat]
StdinRec == [op : Stdins, n : Nat]

Suvlet == [link : BOOLEAN, suvlet : {"none", "runs", "ended", "spins"}, stdin : Seq(StdinRec),
           hung : BOOLEAN, called : BOOLEAN]

WireTypes ==
    /\ got \in {"no", "ok", "failed"}
    /\ inp \in [Conns -> AnswerRec]
    /\ to \in [Conns -> Seq(PacketRec)]
    /\ from \in [Conns -> Seq(AnswerRec)]
    /\ far \in [Conns -> Suvlet]
    /\ ops \in 0 .. MaxOps /\ late \in 0 .. MaxLate
    /\ history \subseteq Events

\* The first element of a sequence and the others, and one more at the end.
LEMMA HeadAndTail ==
  ASSUME NEW S, NEW s \in Seq(S), s # <<>>
  PROVE  /\ Len(s) \in Nat /\ Len(s) > 0
         /\ Head(s) \in S /\ Head(s) = s[1] /\ 1 \in DOMAIN s
         /\ Tail(s) \in Seq(S) /\ Len(Tail(s)) = Len(s) - 1
         /\ \A i \in DOMAIN Tail(s) : i + 1 \in DOMAIN s /\ Tail(s)[i] = s[i + 1]
  OBVIOUS

LEMMA OneMore ==
  ASSUME NEW S, NEW s \in Seq(S), NEW e \in S
  PROVE  /\ Append(s, e) \in Seq(S) /\ Append(s, e) # <<>>
         /\ Len(s) \in Nat /\ Len(Append(s, e)) = Len(s) + 1
         /\ Append(s, e)[Len(s) + 1] = e
         /\ \A i \in DOMAIN Append(s, e) : i = Len(s) + 1 \/ (i \in DOMAIN s /\ Append(s, e)[i] = s[i])
  OBVIOUS

\* Answers and packets of every kind.
LEMMA AnswerTypes ==
  ASSUME NEW n \in Nat
  PROVE  /\ \A op \in {"RETURN", "FRETURN", "FERROR"}, code \in Codes :
              Answer(op, code, n) \in AnswerRec /\ Answer(op, code, n).op = op
                /\ Answer(op, code, n).n = n /\ Answer(op, code, n).code = code
         /\ \A op \in {"OCONN", "CSUVLET", "CCONN"} \cup Stdins :
              Packet(op, n) \in PacketRec /\ Packet(op, n).op = op /\ Packet(op, n).n = n
         /\ \A op \in Stdins : Packet(op, n) \in StdinRec
  BY DEF Answer, Packet, AnswerRec, PacketRec, StdinRec

LEMMA NoAnswerType == NoAnswer \in AnswerRec
  BY DEF NoAnswer, Answer, AnswerRec

\* What is known of the connection of a packet, and of the suvlet's input.
LEMMA WireFacts ==
  ASSUME WireTypes, NEW c \in Conns
  PROVE  /\ inp[c] \in AnswerRec /\ to[c] \in Seq(PacketRec) /\ from[c] \in Seq(AnswerRec)
         /\ far[c] \in Suvlet /\ far[c].stdin \in Seq(StdinRec)
         /\ far[c].link \in BOOLEAN /\ far[c].hung \in BOOLEAN /\ far[c].called \in BOOLEAN
         /\ far[c].suvlet \in {"none", "runs", "ended", "spins"}
         /\ ops \in Nat /\ late \in Nat /\ MaxOps \in Nat /\ MaxLate \in Nat
  BY SessionAssumption DEF WireTypes, Suvlet, SessionAssumption

\* A packet is written.
LEMMA WriteOutTypes ==
  ASSUME WireTypes, NEW c \in Conns, NEW op \in {"OCONN", "CSUVLET", "CCONN"} \cup Stdins,
         ops < MaxOps, ops' = ops + 1,
         to' = to \/ to' = [to EXCEPT ![c] = Append(@, Packet(op, ops + 1))],
         got' \in {"no", "ok", "failed"}, inp' \in [Conns -> AnswerRec],
         UNCHANGED <<from, far, late>>, history' \subseteq Events
  PROVE  WireTypes'
  <1>1. ops + 1 \in Nat /\ ops' \in 0 .. MaxOps
    BY WireFacts DEF WireTypes
  <1>2. Append(to[c], Packet(op, ops + 1)) \in Seq(PacketRec)
    BY <1>1, WireFacts, AnswerTypes, OneMore
  <1>3. to' \in [Conns -> Seq(PacketRec)]
    BY <1>2 DEF WireTypes
  <1> QED
    BY <1>1, <1>3 DEF WireTypes

LEMMA ReadTypes ==
  ASSUME WireTypes, cur \in Conns, ReadPacket \/ ReadFails \/ ReadCut
  PROVE  WireTypes'
  <1>1. CASE ReadPacket
    <2>1. Head(from[cur]) \in AnswerRec /\ Tail(from[cur]) \in Seq(AnswerRec)
      BY <1>1, WireFacts, HeadAndTail DEF ReadPacket
    <2>2. inp' \in [Conns -> AnswerRec] /\ from' \in [Conns -> Seq(AnswerRec)]
      BY <1>1, <2>1 DEF ReadPacket, WireTypes
    <2> QED
      BY <1>1, <2>2 DEF ReadPacket, WireTypes
  <1>2. CASE ReadFails
    <2>1. late' \in 0 .. MaxLate
      BY <1>2, WireFacts DEF ReadFails
    <2>2. history' \subseteq Events
      BY <1>2 DEF ReadFails, WireTypes, Events
    <2> QED
      BY <1>2, <2>1, <2>2 DEF ReadFails, WireTypes
  <1>3. CASE ReadCut
    <2>1. from[cur] # <<>>
      BY <1>3 DEF ReadCut
    <2>2. Head(from[cur]) \in AnswerRec /\ Tail(from[cur]) \in Seq(AnswerRec)
      BY <2>1, WireFacts, HeadAndTail
    <2>3. [Head(from[cur]) EXCEPT !.code = "none"] \in AnswerRec
      BY <2>2 DEF AnswerRec
    <2>4. inp' \in [Conns -> AnswerRec] /\ from' \in [Conns -> Seq(AnswerRec)]
      BY <1>3, <2>2, <2>3 DEF ReadCut, WireTypes
    <2>5. history' \subseteq Events
      BY <1>3 DEF ReadCut, WireTypes, Events
    <2> QED
      BY <1>3, <2>4, <2>5 DEF ReadCut, WireTypes
  <1> QED
    BY <1>1, <1>2, <1>3

\* The program, apart from reading.
LEMMA LocalTypes ==
  ASSUME WireTypes, cur \in Conns,
         \/ \E c \in Conns : OpenEarly(c) \/ Open(c) \/ Close(c) \/ Create(c) \/ Call(c) \/ Destroy(c)
         \/ LocalStep
  PROVE  WireTypes'
  <1>2. \A c \in Conns : [inp EXCEPT ![c] = NoAnswer] \in [Conns -> AnswerRec]
    BY NoAnswerType DEF WireTypes
  <1>3. ASSUME NEW c \in Conns, OpenEarly(c) PROVE WireTypes'
    BY <1>3 DEF OpenEarly, WireTypes
  <1>4. ASSUME NEW c \in Conns, Open(c) PROVE WireTypes'
    <2>1. /\ ops < MaxOps /\ ops' = ops + 1 /\ got' = "no" /\ UNCHANGED <<inp, from, far, late, history>>
          /\ to' = [to EXCEPT ![c] = Append(@, Packet("OCONN", ops + 1))]
      BY <1>4 DEF Open
    <2> QED
      BY <2>1, WriteOutTypes DEF WireTypes
  <1>5. ASSUME NEW c \in Conns, NEW op \in {"CSUVLET", "CCONN"} \cup Stdins, NEW wait, NEW blocks,
               scl_write_out(c, op, wait, blocks)
        PROVE  WireTypes'
    <2>1. /\ ops < MaxOps /\ ops' = ops + 1 /\ got' = "no" /\ UNCHANGED <<inp, from, far, late>>
          /\ to' = to \/ to' = [to EXCEPT ![c] = Append(@, Packet(op, ops + 1))]
      BY <1>5 DEF scl_write_out
    <2>2. history' \subseteq Events
      BY <1>5 DEF scl_write_out, WireTypes, Events
    <2> QED
      BY <2>1, <2>2, WriteOutTypes DEF WireTypes
  <1>6. ASSUME NEW c \in Conns, Close(c) \/ Create(c) \/ Call(c) \/ Destroy(c) PROVE WireTypes'
    BY <1>5, <1>6 DEF Close, Create, Call, Destroy, Stdins
  <1>7. CASE LocalStep
    <2>1. /\ UNCHANGED <<to, from, far, ops, late, history>>
          /\ got' = "no" /\ (inp' = inp \/ inp' = [inp EXCEPT ![cur] = NoAnswer])
      BY <1>7 DEF LocalStep, Connecting, Connected, Refused, CreateReturns, CallReturns, CloseReturns,
         Returns
    <2> QED
      BY <1>2, <2>1 DEF WireTypes
  <1> QED
    BY <1>3, <1>4, <1>6, <1>7

\* What suvad answers, and what it does to the suvlet.
SuvadDoes(c, p, s, f) ==
    \/ /\ p.op = "OCONN" /\ f = far[c]
       /\ \/ \E code \in {"CONNECTED", "CONN_FAIL"} :
               s = <<Answer("RETURN", "CONNECT", p.n), Answer("RETURN", code, p.n)>>
          \/ s = <<Answer("RETURN", "INVORG", p.n)>>
    \/ /\ p.op \notin {"OCONN", "CCONN"} /\ f = far[c]
       /\ \E code \in {"SEXISTS", "SPAWN"} : s = <<Answer("RETURN", code, p.n)>>
    \/ /\ p.op = "CSUVLET" /\ s = <<Answer("RETURN", "OKAY", p.n)>>
       /\ f = [far[c] EXCEPT !.suvlet = "runs", !.stdin = <<>>, !.called = FALSE]
    \/ /\ p.op \in Stdins /\ far[c].suvlet = "runs"
       /\ s = IF p.op = "DSUVLET" THEN <<Answer("RETURN", "STERM", p.n)>> ELSE <<>>
       /\ f = [far[c] EXCEPT !.stdin = Append(far[c].stdin, Packet(p.op, p.n))]
    \/ /\ p.op = "CCONN" /\ s = <<Answer("RETURN", "OKAY", p.n)>>
       /\ f = [far[c] EXCEPT !.hung = TRUE]

LEMMA SuvadIs ==
  ASSUME WireTypes, NEW c \in Conns, Suvad(c)
  PROVE  /\ UNCHANGED <<local, late, history>>
         /\ far[c].link /\ to[c] # <<>>
         /\ to' = [to EXCEPT ![c] = Tail(to[c])]
         /\ \E s \in Seq(AnswerRec), f \in Suvlet :
              /\ SuvadDoes(c, Head(to[c]), s, f)
              /\ from' = [from EXCEPT ![c] = from[c] \o s]
              /\ far' = [far EXCEPT ![c] = f]
  <1>1. /\ UNCHANGED <<local, late, history>>
        /\ far[c].link /\ to[c] # <<>>
        /\ to' = [to EXCEPT ![c] = Tail(to[c])]
    BY DEF Suvad
  <1>2. PICK p \in PacketRec : p = Head(to[c])
    BY <1>1, WireFacts, HeadAndTail
  <1>3. p.n \in Nat /\ p.op \in {"OCONN", "CSUVLET", "CCONN"} \cup Stdins
    BY <1>2 DEF PacketRec
  <1>4. ASSUME NEW s \in Seq(AnswerRec), NEW f \in Suvlet, SuvadDoes(c, p, s, f),
               Sends(c, s), far' = [far EXCEPT ![c] = f]
        PROVE  \E s2 \in Seq(AnswerRec), f2 \in Suvlet :
                 /\ SuvadDoes(c, Head(to[c]), s2, f2)
                 /\ from' = [from EXCEPT ![c] = from[c] \o s2]
                 /\ far' = [far EXCEPT ![c] = f2]
    <2>1. from' = [from EXCEPT ![c] = from[c] \o s]
      BY <1>4 DEF Sends
    <2> QED
      BY <1>2, <1>4, <2>1
  <1>5. \A code \in Codes : Answer("RETURN", code, p.n) \in AnswerRec
    BY <1>3, AnswerTypes
  <1>6. /\ \A code \in Codes : <<Answer("RETURN", code, p.n)>> \in Seq(AnswerRec)
        /\ \A a, b \in Codes : <<Answer("RETURN", a, p.n), Answer("RETURN", b, p.n)>> \in Seq(AnswerRec)
        /\ <<>> \in Seq(AnswerRec)
    BY <1>5
  <1>7. {"CONNECT", "CONNECTED", "CONN_FAIL", "INVORG", "OKAY", "SPAWN", "SEXISTS", "STERM"} \subseteq Codes
    BY DEF Codes
  <1>8. far[c] \in Suvlet /\ far = [far EXCEPT ![c] = far[c]]
    BY WireFacts DEF WireTypes
  <1>9. CASE p.op = "OCONN" /\ UNCHANGED far
    <2>1. \E s \in Seq(AnswerRec) : SuvadDoes(c, p, s, far[c]) /\ Sends(c, s)
      <3>1. CASE \E code \in {"CONNECTED", "CONN_FAIL"} :
                   Sends(c, <<Answer("RETURN", "CONNECT", p.n), Answer("RETURN", code, p.n)>>)
        BY <1>6, <1>7, <1>9, <3>1 DEF SuvadDoes
      <3>2. CASE Sends(c, <<Answer("RETURN", "INVORG", p.n)>>)
        BY <1>6, <1>7, <1>9, <3>2 DEF SuvadDoes
      <3> QED
        BY <1>2, <1>9, <3>1, <3>2 DEF Suvad, Stdins
    <2>2. far' = [far EXCEPT ![c] = far[c]]
      BY <1>8, <1>9
    <2>3. PICK s \in Seq(AnswerRec) : SuvadDoes(c, p, s, far[c]) /\ Sends(c, s)
      BY <2>1
    <2> QED
      BY <1>1, <1>4, <1>8, <2>2, <2>3, Zenon
  <1>10. CASE /\ p.op \notin {"OCONN", "CCONN"} /\ UNCHANGED far
              /\ \E code \in {"SEXISTS", "SPAWN"} : Sends(c, <<Answer("RETURN", code, p.n)>>)
    <2>1. \E s \in Seq(AnswerRec) : SuvadDoes(c, p, s, far[c]) /\ Sends(c, s)
      BY <1>6, <1>7, <1>10 DEF SuvadDoes
    <2>2. far' = [far EXCEPT ![c] = far[c]]
      BY <1>8, <1>10
    <2>3. PICK s \in Seq(AnswerRec) : SuvadDoes(c, p, s, far[c]) /\ Sends(c, s)
      BY <2>1
    <2> QED
      BY <1>1, <1>4, <1>8, <2>2, <2>3, Zenon
  <1>11. CASE /\ p.op = "CSUVLET" /\ Sends(c, <<Answer("RETURN", "OKAY", p.n)>>)
              /\ far' = [far EXCEPT ![c].suvlet = "runs", ![c].stdin = <<>>, ![c].called = FALSE]
    <2> DEFINE f == [far[c] EXCEPT !.suvlet = "runs", !.stdin = <<>>, !.called = FALSE]
               s == <<Answer("RETURN", "OKAY", p.n)>>
    <2>1. f \in Suvlet /\ far' = [far EXCEPT ![c] = f]
      <3>1. f \in Suvlet
        <4>1. <<>> \in Seq(StdinRec)
          OBVIOUS
        <4>2. [far[c] EXCEPT !.suvlet = "runs"] \in Suvlet
          BY <1>8 DEF Suvlet
        <4>3. \A g \in Suvlet : [g EXCEPT !.stdin = <<>>] \in Suvlet
          BY <4>1 DEF Suvlet
        <4>4. \A g \in Suvlet : [g EXCEPT !.called = FALSE] \in Suvlet
          BY DEF Suvlet
        <4> QED
          BY <4>2, <4>3, <4>4
      <3>2. far \in [Conns -> Suvlet] /\ far' \in [Conns -> Suvlet]
        <4>1. far \in [Conns -> Suvlet]
          BY DEF WireTypes
        <4>2. <<>> \in Seq(StdinRec)
          OBVIOUS
        <4> QED
          BY <1>11, <4>1, <4>2 DEF Suvlet
      <3>3. far'[c] = f
        BY <1>8, <1>11, <3>2 DEF Suvlet
      <3>4. \A d \in Conns : d # c => far'[d] = far[d]
        BY <1>11, <3>2
      <3>5. far' = [d \in Conns |-> IF d = c THEN f ELSE far[d]]
        BY <3>2, <3>3, <3>4
      <3> HIDE DEF f
      <3> QED
        BY <3>1, <3>2, <3>5
    <2>2. s \in Seq(AnswerRec) /\ SuvadDoes(c, p, s, f) /\ Sends(c, s)
      BY <1>6, <1>7, <1>11 DEF SuvadDoes
    <2> HIDE DEF f, s
    <2> QED
      BY <1>1, <1>4, <2>1, <2>2, Zenon
  <1>12. CASE /\ p.op \in Stdins /\ far[c].suvlet = "runs"
              /\ far' = [far EXCEPT ![c].stdin = Append(@, Packet(p.op, p.n))]
              /\ IF p.op = "DSUVLET" THEN Sends(c, <<Answer("RETURN", "STERM", p.n)>>)
                                     ELSE UNCHANGED from
    <2> DEFINE f == [far[c] EXCEPT !.stdin = Append(far[c].stdin, Packet(p.op, p.n))]
               s == IF p.op = "DSUVLET" THEN <<Answer("RETURN", "STERM", p.n)>> ELSE <<>>
    <2>1. Append(far[c].stdin, Packet(p.op, p.n)) \in Seq(StdinRec)
      BY <1>3, <1>12, WireFacts, AnswerTypes, OneMore
    <2>2. f \in Suvlet /\ far' = [far EXCEPT ![c] = f]
      BY <1>8, <1>12, <2>1 DEF Suvlet, WireTypes
    <2>3. s \in Seq(AnswerRec) /\ SuvadDoes(c, p, s, f)
      BY <1>6, <1>7, <1>12 DEF SuvadDoes
    <2>4. Sends(c, s)
      <3>1. CASE p.op = "DSUVLET"
        BY <1>12, <3>1
      <3>2. CASE p.op # "DSUVLET"
        <4>1. from[c] \o <<>> = from[c] /\ from = [from EXCEPT ![c] = from[c]]
          BY WireFacts DEF WireTypes
        <4> QED
          BY <1>12, <3>2, <4>1 DEF Sends
      <3> QED
        BY <3>1, <3>2
    <2> HIDE DEF f, s
    <2> QED
      BY <1>1, <1>4, <2>2, <2>3, <2>4, Zenon
  <1>13. CASE /\ p.op = "CCONN" /\ Sends(c, <<Answer("RETURN", "OKAY", p.n)>>)
              /\ far' = [far EXCEPT ![c].hung = TRUE]
    <2> DEFINE f == [far[c] EXCEPT !.hung = TRUE]
               s == <<Answer("RETURN", "OKAY", p.n)>>
    <2>1. f \in Suvlet /\ far' = [far EXCEPT ![c] = f]
      BY <1>8, <1>13 DEF Suvlet, WireTypes
    <2>2. s \in Seq(AnswerRec) /\ SuvadDoes(c, p, s, f) /\ Sends(c, s)
      BY <1>6, <1>7, <1>13 DEF SuvadDoes
    <2> HIDE DEF f, s
    <2> QED
      BY <1>1, <1>4, <2>1, <2>2, Zenon
  <1>14. \E s \in Seq(AnswerRec), f \in Suvlet :
              /\ SuvadDoes(c, Head(to[c]), s, f)
              /\ from' = [from EXCEPT ![c] = from[c] \o s]
              /\ far' = [far EXCEPT ![c] = f]
    <2>1. p.op \in {"DSUVLET", "FCALL", "FCALL unknown"} => p.op \in Stdins
      BY DEF Stdins
    <2> QED
      BY <1>2, <1>9, <1>10, <1>11, <1>12, <1>13, <2>1 DEF Suvad
  <1> QED
    BY <1>1, <1>14

\* What the suvlet does with the packet p: what it becomes, and what it answers.
SuvletDoes(c, p, s, f) ==
    /\ f = [far[c] EXCEPT !.stdin = Tail(far[c].stdin), !.called = TRUE,
                          !.suvlet = IF p.op = "DSUVLET" THEN "ended" ELSE far[c].suvlet]
    /\ s = IF p.op = "FCALL" /\ far[c].link THEN <<Answer("FRETURN", "value", p.n)>> ELSE <<>>

LEMMA SuvletIs ==
  ASSUME WireTypes, NEW c \in Conns, suva_get_request(c)
  PROVE  /\ UNCHANGED <<local, to, late, history>>
         /\ far[c].suvlet = "runs" /\ far[c].stdin # <<>>
         /\ \E s \in Seq(AnswerRec), f \in Suvlet :
              /\ SuvletDoes(c, Head(far[c].stdin), s, f)
              /\ from' = [from EXCEPT ![c] = from[c] \o s]
              /\ far' = [far EXCEPT ![c] = f]
  <1>1. /\ UNCHANGED <<local, to, late, history>>
        /\ far[c].suvlet = "runs" /\ far[c].stdin # <<>>
    BY DEF suva_get_request
  <1>2. PICK p \in StdinRec : p = Head(far[c].stdin)
    BY <1>1, WireFacts, HeadAndTail
  <1>3. p.n \in Nat /\ p.op \in Stdins
    BY <1>2 DEF StdinRec
  <1> DEFINE s == IF p.op = "FCALL" /\ far[c].link THEN <<Answer("FRETURN", "value", p.n)>> ELSE <<>>
             f == [far[c] EXCEPT !.stdin = Tail(far[c].stdin), !.called = TRUE,
                                 !.suvlet = IF p.op = "DSUVLET" THEN "ended" ELSE far[c].suvlet]
  <1>4. s \in Seq(AnswerRec)
    <2>1. Answer("FRETURN", "value", p.n) \in AnswerRec
      BY <1>3, AnswerTypes DEF Codes
    <2> QED
      BY <2>1
  <1>5. f \in Suvlet
    <2>1. Tail(far[c].stdin) \in Seq(StdinRec)
      BY <1>1, WireFacts, HeadAndTail
    <2> QED
      BY <1>1, <2>1, WireFacts DEF Suvlet
  <1>6. from' = [from EXCEPT ![c] = from[c] \o s]
    <2>1. from[c] \o <<>> = from[c] /\ from = [from EXCEPT ![c] = from[c]]
      BY WireFacts DEF WireTypes
    <2>2. CASE p.op = "FCALL" /\ far[c].link
      BY <1>2, <2>2 DEF suva_get_request, Replies, Sends
    <2>3. CASE ~(p.op = "FCALL" /\ far[c].link)
      BY <1>2, <2>1, <2>3 DEF suva_get_request, Replies, Sends
    <2> QED
      BY <2>2, <2>3
  <1>7. far' = [far EXCEPT ![c] = f]
    <2>1. far' = [far EXCEPT ![c].stdin = Tail(@), ![c].called = TRUE,
                             ![c].suvlet = IF p.op = "DSUVLET" THEN "ended" ELSE @]
      BY <1>2 DEF suva_get_request
    <2>2. far \in [Conns -> Suvlet] /\ far[c] \in Suvlet
      BY WireFacts DEF WireTypes
    <2>3. Tail(far[c].stdin) \in Seq(StdinRec)
      BY <1>1, WireFacts, HeadAndTail
    <2>4. far'[c] = f
      BY <2>1, <2>2, <2>3 DEF Suvlet
    <2>5. far' = [d \in Conns |-> IF d = c THEN f ELSE far[d]]
      <3> HIDE DEF f
      <3>1. DOMAIN far' = Conns /\ \A d \in Conns : d # c => far'[d] = far[d]
        BY <2>1, <2>2
      <3>2. far' = [d \in Conns |-> far'[d]]
        BY <2>1, <2>2
      <3> QED
        BY <2>4, <3>1, <3>2
    <2> HIDE DEF f
    <2> QED
      BY <2>2, <2>5
  <1>8. SuvletDoes(c, p, s, f)
    BY DEF SuvletDoes
  <1> HIDE DEF f, s
  <1> QED
    BY <1>1, <1>2, <1>4, <1>5, <1>6, <1>7, <1>8, Zenon

\* The suvlet that reads the end of its input.
LEMMA HungUpIs ==
  ASSUME WireTypes, NEW c \in Conns, HungUp(c)
  PROVE  /\ UNCHANGED <<local, to, late, history>>
         /\ far[c].suvlet = "runs" /\ far[c].stdin = <<>> /\ far[c].hung
         /\ \E s \in Seq(AnswerRec), x \in {"spins", "ended"} :
              /\ s = <<>> \/ s = <<Answer("FERROR", "value", 0)>>
              /\ from' = [from EXCEPT ![c] = from[c] \o s]
              /\ far' = [far EXCEPT ![c] = [far[c] EXCEPT !.suvlet = x]]
  <1>1. /\ UNCHANGED <<local, to, late, history>>
        /\ far[c].suvlet = "runs" /\ far[c].stdin = <<>> /\ far[c].hung
    BY DEF HungUp
  <1>2. PICK s \in Seq(AnswerRec) :
          /\ s = <<>> \/ s = <<Answer("FERROR", "value", 0)>>
          /\ from' = [from EXCEPT ![c] = from[c] \o s]
    <2>1. <<Answer("FERROR", "value", 0)>> \in Seq(AnswerRec) /\ <<>> \in Seq(AnswerRec)
      <3>1. Answer("FERROR", "value", 0) \in AnswerRec
        BY AnswerTypes DEF Codes
      <3> QED
        BY <3>1
    <2>2. from[c] \o <<>> = from[c] /\ from = [from EXCEPT ![c] = from[c]]
      BY WireFacts DEF WireTypes
    <2>3. \/ UNCHANGED from
          \/ from' = [from EXCEPT ![c] = from[c] \o <<Answer("FERROR", "value", 0)>>]
      BY DEF HungUp, Replies, Sends
    <2>4. CASE UNCHANGED from
      BY <2>1, <2>2, <2>4
    <2> QED
      BY <2>1, <2>3, <2>4, Zenon
  <1>3. PICK x \in {"spins", "ended"} : far' = [far EXCEPT ![c].suvlet = x]
    BY DEF HungUp
  <1>4. far' = [far EXCEPT ![c] = [far[c] EXCEPT !.suvlet = x]]
    BY <1>3 DEF WireTypes
  <1> QED
    BY <1>1, <1>2, <1>4

\* Beyond the connection: suvad and the suvlets.
Beyond(c) == Suvad(c) \/ SuvadDies(c) \/ SuvletDies(c) \/ suva_get_request(c) \/ HungUp(c)

LEMMA BeyondTypes ==
  ASSUME WireTypes, NEW c \in Conns, Beyond(c)
  PROVE  WireTypes'
  <1>1. ASSUME UNCHANGED <<got, inp, ops, late>>, history' \subseteq Events,
               NEW t \in Seq(PacketRec), to' = [to EXCEPT ![c] = t],
               NEW s \in Seq(AnswerRec), from' = [from EXCEPT ![c] = from[c] \o s],
               NEW f \in Suvlet, far' = [far EXCEPT ![c] = f]
        PROVE  WireTypes'
    <2>1. from[c] \o s \in Seq(AnswerRec)
      BY WireFacts
    <2>2. to' \in [Conns -> Seq(PacketRec)] /\ from' \in [Conns -> Seq(AnswerRec)]
          /\ far' \in [Conns -> Suvlet]
      BY <1>1, <2>1 DEF WireTypes
    <2> QED
      BY <1>1, <2>2 DEF WireTypes
  <1>2. to[c] \in Seq(PacketRec) /\ to = [to EXCEPT ![c] = to[c]]
    BY WireFacts DEF WireTypes
  <1>3. from[c] \o <<>> = from[c] /\ from = [from EXCEPT ![c] = from[c]] /\ <<>> \in Seq(AnswerRec)
    BY WireFacts DEF WireTypes
  <1>4. history \subseteq Events /\ far[c] \in Suvlet
    BY WireFacts DEF WireTypes
  <1>5. CASE Suvad(c)
    <2>1. UNCHANGED <<local, late, history>> /\ to' = [to EXCEPT ![c] = Tail(to[c])] /\ to[c] # <<>>
      BY <1>5, SuvadIs
    <2>2. UNCHANGED <<got, inp, ops, late>> /\ history' \subseteq Events
      BY <1>4, <2>1 DEF local
    <2>3. PICK s \in Seq(AnswerRec), f \in Suvlet :
            from' = [from EXCEPT ![c] = from[c] \o s] /\ far' = [far EXCEPT ![c] = f]
      BY <1>5, SuvadIs
    <2>4. Tail(to[c]) \in Seq(PacketRec)
      BY <1>2, <2>1, HeadAndTail
    <2> QED
      BY <1>1, <2>1, <2>2, <2>3, <2>4
  <1>6. CASE suva_get_request(c)
    <2>1. UNCHANGED <<local, to, late, history>>
      BY <1>6, SuvletIs
    <2>2. UNCHANGED <<got, inp, ops, late>> /\ history' \subseteq Events /\ to' = [to EXCEPT ![c] = to[c]]
      BY <1>2, <1>4, <2>1 DEF local
    <2>3. PICK s \in Seq(AnswerRec), f \in Suvlet :
            from' = [from EXCEPT ![c] = from[c] \o s] /\ far' = [far EXCEPT ![c] = f]
      BY <1>6, SuvletIs
    <2> QED
      BY <1>1, <1>2, <2>2, <2>3
  <1>7. CASE HungUp(c)
    <2>1. UNCHANGED <<local, to, late, history>>
      BY <1>7, HungUpIs
    <2>2. UNCHANGED <<got, inp, ops, late>> /\ history' \subseteq Events /\ to' = [to EXCEPT ![c] = to[c]]
      BY <1>2, <1>4, <2>1 DEF local
    <2>3. PICK s \in Seq(AnswerRec), x \in {"spins", "ended"} :
            /\ from' = [from EXCEPT ![c] = from[c] \o s]
            /\ far' = [far EXCEPT ![c] = [far[c] EXCEPT !.suvlet = x]]
      BY <1>7, HungUpIs
    <2>4. [far[c] EXCEPT !.suvlet = x] \in Suvlet
      BY <1>4 DEF Suvlet
    <2> QED
      BY <1>1, <1>2, <2>2, <2>3, <2>4
  <1>8. CASE SuvadDies(c)
    <2>1. UNCHANGED <<got, inp, ops, late, from>> /\ history' \subseteq Events /\ to' = [to EXCEPT ![c] = <<>>]
      BY <1>4, <1>8 DEF SuvadDies, local, Events
    <2>2. PICK f \in Suvlet : far' = [far EXCEPT ![c] = f]
      <3>1. far' = [far EXCEPT ![c] = [far[c] EXCEPT !.link = FALSE, !.hung = TRUE]]
        BY <1>4, <1>8 DEF SuvadDies, WireTypes, Suvlet
      <3>2. [far[c] EXCEPT !.link = FALSE, !.hung = TRUE] \in Suvlet
        BY <1>4 DEF Suvlet
      <3> QED
        BY <3>1, <3>2
    <2>3. <<>> \in Seq(PacketRec) /\ from' = [from EXCEPT ![c] = from[c] \o <<>>]
      BY <1>3, <2>1
    <2> QED
      BY <1>1, <1>3, <2>1, <2>2, <2>3
  <1>9. CASE SuvletDies(c)
    <2>1. UNCHANGED <<got, inp, ops, late>> /\ history' \subseteq Events /\ to' = [to EXCEPT ![c] = to[c]]
      BY <1>2, <1>4, <1>9 DEF SuvletDies, local, Events
    <2>2. PICK f \in Suvlet : far' = [far EXCEPT ![c] = f]
      <3>1. far' = [far EXCEPT ![c] = [far[c] EXCEPT !.suvlet = "ended", !.stdin = <<>>]]
        BY <1>4, <1>9 DEF SuvletDies, WireTypes, Suvlet
      <3>2. [far[c] EXCEPT !.suvlet = "ended", !.stdin = <<>>] \in Suvlet
        <4>1. <<>> \in Seq(StdinRec)
          OBVIOUS
        <4> QED
          BY <1>4, <4>1 DEF Suvlet
      <3> QED
        BY <3>1, <3>2
    <2>3. PICK s \in Seq(AnswerRec) : from' = [from EXCEPT ![c] = from[c] \o s]
      <3>1. <<Answer("RETURN", "SDIED", 0)>> \in Seq(AnswerRec)
        <4>1. Answer("RETURN", "SDIED", 0) \in AnswerRec
          BY AnswerTypes DEF Codes
        <4> QED
          BY <4>1
      <3> QED
        BY <1>9, <3>1 DEF SuvletDies, Sends
    <2> QED
      BY <1>1, <1>2, <2>1, <2>2, <2>3
  <1> QED
    BY <1>5, <1>6, <1>7, <1>8, <1>9 DEF Beyond

LEMMA InitWireTypes == Init => WireTypes
  <1> SUFFICES ASSUME Init PROVE WireTypes
    OBVIOUS
  <1>1. inp \in [Conns -> AnswerRec]
    BY NoAnswerType DEF Init
  <1>2. to \in [Conns -> Seq(PacketRec)] /\ from \in [Conns -> Seq(AnswerRec)]
    BY DEF Init
  <1>3. far \in [Conns -> Suvlet]
    <2>1. <<>> \in Seq(StdinRec)
      OBVIOUS
    <2> QED
      BY <2>1 DEF Init, Suvlet
  <1> QED
    BY <1>1, <1>2, <1>3, SessionAssumption DEF Init, WireTypes, SessionAssumption

\* A step is one of the program, of its reads, or of the other side.
LEMMA StepKinds ==
  ASSUME [Next]_vars
  PROVE  \/ \E c \in Conns : OpenEarly(c) \/ Open(c) \/ Close(c) \/ Create(c) \/ Call(c) \/ Destroy(c)
         \/ LocalStep
         \/ ReadPacket \/ ReadFails \/ ReadCut
         \/ \E c \in Conns : Beyond(c)
         \/ UNCHANGED vars
  BY SessionAssumption DEF Next, Done, RemoteStep, Beyond, SessionAssumption

LEMMA NextWireTypes ==
  ASSUME WireTypes, cur \in Conns, [Next]_vars
  PROVE  WireTypes'
  <1>1. CASE UNCHANGED vars
    BY <1>1 DEF vars, local, WireTypes
  <1> QED
    BY <1>1, StepKinds, LocalTypes, ReadTypes, BeyondTypes

\* Connections, queues, suvlets and blocks are what the declarations say, and
\* the type of every live block exists (open_suva_conn adds the types it uses).
LEMMA TypesAreRight == IInv /\ WireTypes => TypeOK
  <1> SUFFICES ASSUME IInv, WireTypes PROVE TypeOK
    OBVIOUS
  <1>1. pc \in Waiting \cup {"idle"} /\ cur \in Conns /\ got \in {"no", "ok", "failed"}
    BY DEF IInv, Waits, Types, WireTypes
  <1>2. \A c \in Conns :
          /\ conn[c].st \in {"none", "opening", "held", "null", "closed"}
          /\ conn[c].sock \in BOOLEAN
          /\ conn[c].in_id \in Nat /\ conn[c].out_id \in Nat
    BY DEF IInv, Types, ConnStruct
  <1>3. \A c \in Conns :
          /\ inp[c].code \in Codes \cup {"none"}
          /\ far[c].suvlet \in {"none", "runs", "ended", "spins"}
          /\ far[c].link \in BOOLEAN /\ far[c].hung \in BOOLEAN /\ far[c].called \in BOOLEAN
    BY WireFacts DEF AnswerRec
  <1>4. \A b \in live : b.of \in Conns /\ b.type \in types
    <2> TAKE b \in live
    <2>1. b.of \in Conns
      BY DEF IInv, Blocks
    <2>2. \/ b.type = ApiType
          \/ b.type = conn[b.of].in_id /\ conn[b.of].in_id # 0
          \/ b.type = conn[b.of].out_id /\ conn[b.of].out_id # 0
      BY DEF IInv, Blocks, Struct, Inbound, Element
    <2>3. ApiType \in types
      BY SessionAssumption DEF IInv, Types, SessionAssumption
    <2> QED
      BY <2>1, <2>2, <2>3 DEF IInv, IdsTaken
  <1>5. ops \in 0 .. MaxOps /\ late \in 0 .. MaxLate /\ history \subseteq Events
    BY DEF WireTypes
  <1> QED
    BY <1>1, <1>2, <1>3, <1>4, <1>5 DEF TypeOK

\* Type correctness: TypeOK holds in every state.  A block of a type that does
\* not exist is what mem_free_all and mem_del_type would never find.
THEOREM ConnectionTypeCorrect == Spec => []TypeOK
  <1>1. Init => IInv /\ WireTypes
    BY InitInv, InitWireTypes
  <1>2. IInv /\ WireTypes /\ [Next]_vars => (IInv /\ WireTypes)'
    <2>1. IInv => cur \in Conns
      BY DEF IInv, Types
    <2> QED
      BY <2>1, StepInv, NextWireTypes
  <1>3. IInv /\ WireTypes => TypeOK
    BY TypesAreRight
  <1> QED
    BY <1>1, <1>2, <1>3, PTL DEF Spec

-----------------------------------------------------------------------------
(* Answers and their operations.                                           *)

\* No answer came late, and nobody died.
Quiet == late = 0 /\ history \cap {"suvlet_died", "suvad_died"} = {}

\* The latest operation is about c, and has not read an answer yet.
Awaits(c) == cur = c /\ pc \in Waiting /\ got = "no"

\* What a packet is called that the operation in pc has written.
Wrote(op) ==
    \/ pc = "connecting" /\ op = "OCONN"
    \/ pc = "create" /\ op = "CSUVLET"
    \/ pc = "call" /\ op \in {"FCALL", "FCALL unknown"}
    \/ pc = "destroy" /\ op = "DSUVLET"
    \/ pc = "close" /\ op = "CCONN"

\* The calls a suvlet has still to answer.
Served(c) == {i \in DOMAIN far[c].stdin : far[c].suvlet = "runs" /\ far[c].stdin[i].op = "FCALL"}

\* A packet on its way is the one of the latest operation, which awaits its
\* answer, and nothing else is under way.
PacketUnderWay(c) ==
    to[c] # <<>> =>
        /\ Awaits(c) /\ Len(to[c]) = 1
        /\ to[c][1].n = ops /\ Wrote(to[c][1].op)
        /\ from[c] = <<>> /\ Served(c) = {} /\ ~far[c].hung

\* So is a call the suvlet has not read: it is the last of what it will read.
CallUnderWay(c) ==
    Served(c) # {} =>
        /\ Awaits(c) /\ pc = "call" /\ from[c] = <<>>
        /\ \A i \in Served(c) : i = Len(far[c].stdin) /\ far[c].stdin[i].n = ops

\* So is an answer; suvad sends two to open_suva_conn, unless it refuses.
AnswerUnderWay(c) ==
    from[c] # <<>> /\ ~far[c].hung =>
        /\ cur = c /\ pc \in Waiting
        /\ \A i \in DOMAIN from[c] :
              from[c][i].n = ops /\ (from[c][i].op = "FRETURN" => pc = "call")
        /\ \/ got = "no" /\ Len(from[c]) = 1
           \/ pc = "connecting" /\ got = "no" /\ Len(from[c]) = 2 /\ from[c][1].code = "CONNECT"
           \/ pc = "connecting" /\ got = "ok" /\ Len(from[c]) = 1 /\ inp[c].code = "CONNECT"

\* suvad ends a connection after it has answered close_suva_conn.
AnswerBeforeEnd(c) ==
    far[c].hung =>
        \/ conn[c].st = "closed"
        \/ /\ cur = c /\ pc = "close"
           /\ got = "no" => from[c] # <<>> /\ from[c][1].n = ops /\ from[c][1].op # "FRETURN"

Way(c) ==
    /\ far[c].link
    /\ PacketUnderWay(c) /\ CallUnderWay(c) /\ AnswerUnderWay(c) /\ AnswerBeforeEnd(c)

OwnAnswer ==
    pc \in Waiting /\ got = "ok" => inp[cur].n = ops /\ (inp[cur].op = "FRETURN" => pc = "call")

OneUnderWay == OwnAnswer /\ \A c \in Conns : Way(c)

PairInv == WireTypes /\ (Quiet => OneUnderWay)

\* Nothing is under way on c.
Still(c) ==
    /\ far[c].link /\ to[c] = <<>> /\ Served(c) = {}
    /\ from[c] = <<>> \/ far[c].hung
    /\ far[c].hung => conn[c].st = "closed"

\* A connection that no operation waits on is still, and a still one is on its way.
LEMMA ElsewhereStill ==
  ASSUME NEW c \in Conns, Way(c), cur # c \/ pc \notin Waiting
  PROVE  Still(c)
  <1>1. Waiting = {"connecting", "connected", "create", "call", "destroy", "close"}
    BY DEF Waiting
  <1> QED
    BY <1>1 DEF Way, Still, PacketUnderWay, CallUnderWay, AnswerUnderWay, AnswerBeforeEnd, Awaits

LEMMA StillIsOnItsWay ==
  ASSUME NEW c \in Conns, Still(c)'
  PROVE  Way(c)'
  BY DEF Way, Still, PacketUnderWay, CallUnderWay, AnswerUnderWay, AnswerBeforeEnd

LEMMA StillStays ==
  ASSUME NEW c \in Conns, Still(c), far'[c] = far[c], to'[c] = to[c], from'[c] = from[c],
         conn'[c].st = conn[c].st
  PROVE  Still(c)'
  BY DEF Still, Served

LEMMA WayStays ==
  ASSUME NEW c \in Conns, Way(c), UNCHANGED <<pc, cur, got, ops>>, conn'[c] = conn[c], inp'[c] = inp[c],
         far'[c] = far[c], to'[c] = to[c], from'[c] = from[c]
  PROVE  Way(c)'
  <1>1. Served(c)' = Served(c)
    BY DEF Served
  <1>2. PacketUnderWay(c)'
    BY <1>1 DEF Way, PacketUnderWay, Awaits, Wrote
  <1>3. CallUnderWay(c)'
    BY <1>1 DEF Way, CallUnderWay, Awaits
  <1>4. AnswerUnderWay(c)' /\ AnswerBeforeEnd(c)'
    BY DEF Way, AnswerUnderWay, AnswerBeforeEnd
  <1> QED
    BY <1>2, <1>3, <1>4 DEF Way

\* What was late stays late, and who died stays dead.
LEMMA QuietBefore ==
  ASSUME WireTypes, [Next]_vars, Quiet'
  PROVE  Quiet
  <1>1. late \in Nat
    BY DEF WireTypes
  <1>2. late' = late \/ late' = late + 1
    BY DEF Next, Done, vars, local, LocalStep, RemoteStep, OpenEarly, Open, Close, Create, Call, Destroy,
       scl_write_out, Connecting, Connected, Refused, CreateReturns, CallReturns, CloseReturns, Returns,
       ReadPacket, ReadFails, ReadCut, Suvad, suva_get_request, HungUp, SuvadDies, SuvletDies
  <1>3. history \subseteq history'
    BY DEF Next, Done, vars, local, LocalStep, RemoteStep, OpenEarly, Open, Close, Create, Call, Destroy,
       scl_write_out, Connecting, Connected, Refused, CreateReturns, CallReturns, CloseReturns, Returns,
       ReadPacket, ReadFails, ReadCut, Suvad, suva_get_request, HungUp, SuvadDies, SuvletDies
  <1> QED
    BY <1>1, <1>2, <1>3 DEF Quiet

\* An operation starts when nothing is under way, and writes one packet.
LEMMA WriteOutPairs ==
  ASSUME IInv, WireTypes, OneUnderWay, NEW c \in Conns,
         NEW op \in {"OCONN", "CSUVLET", "CCONN"} \cup Stdins,
         pc = "idle", ops < MaxOps, conn[c].st \in {"none", "held"},
         pc' \in Waiting, cur' = c, got' = "no", Wrote(op)', ops' = ops + 1,
         to' = [to EXCEPT ![c] = Append(@, Packet(op, ops + 1))],
         UNCHANGED <<from, far>>, \A d \in Conns : d # c => conn'[d] = conn[d]
  PROVE  OneUnderWay'
  <1>1. \A d \in Conns : Still(d)
    BY ElsewhereStill DEF OneUnderWay, Waiting
  <1>2. ASSUME NEW d \in Conns, d # c PROVE Way(d)'
    <2>1. to'[d] = to[d]
      BY <1>2 DEF WireTypes
    <2> QED
      BY <1>1, <1>2, <2>1, StillStays, StillIsOnItsWay
  <1>3. Way(c)'
    <2>1. far[c].link /\ to[c] = <<>> /\ Served(c) = {} /\ ~far[c].hung /\ from[c] = <<>>
      BY <1>1 DEF Still
    <2>2. Packet(op, ops + 1).n = ops + 1 /\ Packet(op, ops + 1).op = op
      BY DEF Packet
    <2>3. to'[c] = <<Packet(op, ops + 1)>>
      BY <2>1 DEF WireTypes
    <2>4. Served(c)' = {}
      BY <2>1 DEF Served
    <2>5. Len(to'[c]) = 1 /\ to'[c][1].n = ops' /\ to'[c][1].op = op /\ to'[c] # <<>>
      <3>1. \A q : Len(<<q>>) = 1 /\ <<q>>[1] = q /\ <<q>> # <<>>
        OBVIOUS
      <3> QED
        BY <2>2, <2>3, <3>1
    <2>6. Awaits(c)'
      BY DEF Awaits
    <2>7. PacketUnderWay(c)'
      BY <2>1, <2>4, <2>5, <2>6 DEF PacketUnderWay
    <2> QED
      BY <2>1, <2>4, <2>7 DEF Way, CallUnderWay, AnswerUnderWay, AnswerBeforeEnd
  <1>4. OwnAnswer'
    BY DEF OwnAnswer
  <1> QED
    BY <1>2, <1>3, <1>4 DEF OneUnderWay

LEMMA StartPairs ==
  ASSUME IInv, WireTypes, OneUnderWay,
         \E c \in Conns : OpenEarly(c) \/ Open(c) \/ Close(c) \/ Create(c) \/ Call(c) \/ Destroy(c)
  PROVE  OneUnderWay'
  <1>1. conn \in [Conns -> ConnStruct]
    BY DEF IInv, Types
  <1>2. ASSUME NEW c \in Conns, OpenEarly(c) PROVE OneUnderWay'
    <2>1. pc = "idle" /\ conn[c].st = "none" /\ pc' = pc
          /\ UNCHANGED <<pc, cur, got, inp, to, from, far, ops>>
      BY <1>2 DEF OpenEarly
    <2>2. \A d \in Conns : Still(d)
      BY <2>1, ElsewhereStill DEF OneUnderWay, Waiting
    <2>3. \A d \in Conns : d # c => conn'[d] = conn[d]
      BY <1>1, <1>2 DEF OpenEarly
    <2>4. \A d \in Conns : Still(d)'
      BY <2>1, <2>2, <2>3 DEF Still, Served
    <2>5. \A d \in Conns : Way(d)'
      BY <2>4, StillIsOnItsWay
    <2> QED
      BY <2>1, <2>5 DEF OneUnderWay, OwnAnswer, Waiting
  <1>3. ASSUME NEW c \in Conns, Open(c) PROVE OneUnderWay'
    <2>1. /\ pc = "idle" /\ ops < MaxOps /\ conn[c].st \in {"none", "held"}
          /\ pc' = "connecting" /\ cur' = c /\ got' = "no" /\ ops' = ops + 1
          /\ to' = [to EXCEPT ![c] = Append(@, Packet("OCONN", ops + 1))]
          /\ UNCHANGED <<from, far>>
      BY <1>3 DEF Open
    <2>2. \A d \in Conns : d # c => conn'[d] = conn[d]
      BY <1>1, <1>3 DEF Open
    <2>3. Wrote("OCONN")' /\ pc' \in Waiting
      BY <2>1 DEF Wrote, Waiting
    <2> QED
      BY <2>1, <2>2, <2>3, WriteOutPairs
  <1>4. ASSUME NEW c \in Conns, NEW op \in {"CSUVLET", "CCONN"} \cup Stdins, NEW wait \in Waiting,
               NEW blocks, scl_write_out(c, op, wait, blocks), Wrote(op)'
        PROVE  OneUnderWay'
    <2>1. /\ pc = "idle" /\ ops < MaxOps /\ conn[c].st \in {"none", "held"}
          /\ pc' \in Waiting /\ cur' = c /\ got' = "no" /\ ops' = ops + 1
          /\ UNCHANGED <<from, far, conn>>
      BY <1>4 DEF scl_write_out
    <2>2. far[c].link
      BY DEF OneUnderWay, Way
    <2>3. to' = [to EXCEPT ![c] = Append(@, Packet(op, ops + 1))]
      BY <1>4, <2>2 DEF scl_write_out
    <2> QED
      BY <1>4, <2>1, <2>3, WriteOutPairs
  <1>5. ASSUME NEW c \in Conns, Close(c) \/ Create(c) \/ Call(c) \/ Destroy(c) PROVE OneUnderWay'
    <2>1. CASE Close(c)
      <3>1. pc' = "close"
        BY <2>1 DEF Close, scl_write_out
      <3> QED
        BY <1>4, <2>1, <3>1 DEF Close, Wrote, Waiting
    <2>2. CASE Create(c)
      <3>1. pc' = "create"
        BY <2>2 DEF Create, scl_write_out
      <3> QED
        BY <1>4, <2>2, <3>1 DEF Create, Wrote, Waiting
    <2>3. CASE Call(c)
      <3>1. pc' = "call"
        BY <2>3 DEF Call, scl_write_out
      <3>2. Wrote("FCALL")' /\ Wrote("FCALL unknown")' /\ "call" \in Waiting
        BY <3>1 DEF Wrote, Waiting
      <3> QED
        BY <1>4, <2>3, <3>2 DEF Call, Stdins
    <2>4. CASE Destroy(c)
      <3>1. pc' = "destroy"
        BY <2>4 DEF Destroy, scl_write_out
      <3> QED
        BY <1>4, <2>4, <3>1 DEF Destroy, Wrote, Waiting, Stdins
    <2> QED
      BY <1>5, <2>1, <2>2, <2>3, <2>4
  <1> QED
    BY <1>2, <1>3, <1>5

\* An operation returns when nothing is under way on its connection.
LEMMA ReturnPairs ==
  ASSUME IInv, WireTypes, OneUnderWay, LocalStep
  PROVE  OneUnderWay'
  <1>1. cur \in Conns /\ conn \in [Conns -> ConnStruct]
    BY DEF IInv, Types
  <1>2. pc \in Waiting /\ got # "no" /\ UNCHANGED <<cur, to, from, far, ops>> /\ got' = "no"
    BY DEF LocalStep, Connecting, Connected, CreateReturns, CallReturns, CloseReturns, Refused, Returns,
       Goes, Waiting
  <1>3. \A d \in Conns : d # cur => conn'[d] = conn[d]
    BY <1>1 DEF LocalStep, Connecting, Connected, CreateReturns, CallReturns, CloseReturns, Refused,
       Returns
  <1>4. OwnAnswer'
    BY <1>2 DEF OwnAnswer
  <1>5. ASSUME NEW d \in Conns, d # cur PROVE Way(d)'
    <2>1. Still(d)
      BY <1>5, ElsewhereStill DEF OneUnderWay
    <2> QED
      BY <1>2, <1>3, <1>5, <2>1, StillStays, StillIsOnItsWay
  <1>6. Way(cur)
    BY <1>1 DEF OneUnderWay
  <1>7. far[cur].link /\ to[cur] = <<>> /\ Served(cur) = {}
    BY <1>2, <1>6 DEF Way, PacketUnderWay, CallUnderWay, Awaits
  <1>8. far[cur].hung => pc = "close"
    BY <1>2, <1>6 DEF Way, AnswerBeforeEnd, IInv, Waits, Waiting
  <1>9. from[cur] = <<>> \/ far[cur].hung
          \/ (pc = "connecting" /\ got = "ok" /\ Len(from[cur]) = 1 /\ inp[cur].code = "CONNECT"
              /\ \A i \in DOMAIN from[cur] :
                   from[cur][i].n = ops /\ (from[cur][i].op = "FRETURN" => pc = "call"))
    BY <1>2, <1>6 DEF Way, AnswerUnderWay
  <1>10. CASE CloseReturns
    <2>1. conn'[cur].st = "closed" /\ pc = "close"
      BY <1>1, <1>10 DEF CloseReturns, Goes, ConnStruct
    <2>2. Still(cur)'
      BY <1>2, <1>7, <1>9, <2>1 DEF Still, Served
    <2>3. Way(cur)'
      BY <1>1, <1>2, <2>2, StillIsOnItsWay
    <2> QED
      BY <1>2, <1>4, <1>5, <2>3 DEF OneUnderWay
  <1>11. CASE pc' = "idle" /\ pc # "close" /\ ~(pc = "connecting" /\ got = "ok" /\ inp[cur].code = "CONNECT")
    <2>1. Still(cur)'
      BY <1>2, <1>7, <1>8, <1>9, <1>11 DEF Still, Served
    <2>2. Way(cur)'
      BY <1>1, <1>2, <2>1, StillIsOnItsWay
    <2> QED
      BY <1>2, <1>4, <1>5, <2>2 DEF OneUnderWay
  <1>12. CASE pc = "connecting" /\ pc' = "connected"
    <2>1. ~far[cur].hung /\ Served(cur)' = {} /\ to'[cur] = <<>> /\ far'[cur].link
      BY <1>2, <1>7, <1>8, <1>12 DEF Served
    <2>2. AnswerUnderWay(cur)'
      BY <1>2, <1>9, <1>12, <2>1 DEF AnswerUnderWay, Waiting
    <2>3. Way(cur)'
      BY <1>2, <2>1, <2>2 DEF Way, PacketUnderWay, CallUnderWay, AnswerBeforeEnd
    <2> QED
      BY <1>2, <1>4, <1>5, <2>3 DEF OneUnderWay
  <1>13. \/ CloseReturns
         \/ pc' = "idle" /\ pc # "close" /\ ~(pc = "connecting" /\ got = "ok" /\ inp[cur].code = "CONNECT")
         \/ pc = "connecting" /\ pc' = "connected"
    BY DEF LocalStep, Connecting, Connected, CreateReturns, CallReturns, Refused, Returns, Goes
  <1> QED
    BY <1>10, <1>11, <1>12, <1>13

\* No packet is cut as long as nobody died.
LEMMA NoCutInQuiet ==
  ASSUME WireTypes, OneUnderWay, Quiet', ReadCut, cur \in Conns
  PROVE  FALSE
  <1>1. ~far[cur].link
    BY DEF ReadCut
  <1> QED
    BY <1>1 DEF OneUnderWay, Way

\* What is read is the answer to the latest operation; a read that gives up
\* leaves nothing under way, or something late.
LEMMA ReadPairs ==
  ASSUME IInv, WireTypes, OneUnderWay, Quiet', ReadPacket \/ ReadFails
  PROVE  OneUnderWay'
  <1>1. cur \in Conns
    BY DEF IInv, Types
  <1>2. pc \in Waiting /\ got = "no" /\ UNCHANGED <<pc, cur, conn, to, far, ops>>
    BY DEF ReadPacket, ReadFails, Reads
  <1>3. ASSUME NEW d \in Conns, d # cur, from'[d] = from[d] PROVE Way(d)'
    <2>1. Still(d)
      BY <1>3, ElsewhereStill DEF OneUnderWay
    <2> QED
      BY <1>2, <1>3, <2>1, StillStays, StillIsOnItsWay
  <1>4. Way(cur)
    BY <1>1 DEF OneUnderWay
  <1>5. far[cur].hung => pc = "close"
    BY <1>2, <1>4 DEF Way, AnswerBeforeEnd, IInv, Waits, Waiting
  <1>6. Served(cur)' = Served(cur)
    BY <1>2 DEF Served
  <1>7. CASE ReadPacket
    <2>1. from[cur] # <<>> /\ from' = [from EXCEPT ![cur] = Tail(@)]
          /\ inp' = [inp EXCEPT ![cur] = Head(from[cur])] /\ got' = "ok"
      BY <1>7 DEF ReadPacket
    <2>2. to[cur] = <<>> /\ Served(cur) = {}
      BY <1>4, <2>1 DEF Way, PacketUnderWay, CallUnderWay
    <2>3. /\ Len(from[cur]) \in Nat /\ Len(from[cur]) > 0
          /\ Head(from[cur]) = from[cur][1] /\ 1 \in DOMAIN from[cur]
          /\ Tail(from[cur]) \in Seq(AnswerRec) /\ Len(Tail(from[cur])) = Len(from[cur]) - 1
          /\ \A i \in DOMAIN Tail(from[cur]) :
                i + 1 \in DOMAIN from[cur] /\ Tail(from[cur])[i] = from[cur][i + 1]
      BY <1>1, <2>1, WireFacts, HeadAndTail
    <2>4. from'[cur] = Tail(from[cur]) /\ inp'[cur] = from[cur][1]
      BY <1>1, <2>1, <2>3 DEF WireTypes
    <2>5. OwnAnswer'
      <3>1. CASE far[cur].hung
        <4>1. conn[cur].st = "held"
          BY <1>5, <3>1 DEF IInv, Waits, Waiting
        <4> QED
          BY <1>2, <1>4, <2>4, <3>1, <4>1 DEF Way, AnswerBeforeEnd, OwnAnswer
      <3>2. CASE ~far[cur].hung
        BY <1>2, <1>4, <2>1, <2>3, <2>4, <3>2 DEF Way, AnswerUnderWay, OwnAnswer
      <3> QED
        BY <3>1, <3>2
    <2>6. AnswerUnderWay(cur)'
      <3> SUFFICES ASSUME Tail(from[cur]) # <<>>, ~far[cur].hung
                   PROVE  AnswerUnderWay(cur)'
        BY <1>2, <2>4 DEF AnswerUnderWay
      <3>1. Len(Tail(from[cur])) # 0
        BY <2>3
      <3>2. pc = "connecting" /\ Len(from[cur]) = 2 /\ from[cur][1].code = "CONNECT"
            /\ \A i \in DOMAIN from[cur] :
                  from[cur][i].n = ops /\ (from[cur][i].op = "FRETURN" => pc = "call")
        BY <1>2, <1>4, <2>1, <2>3, <3>1 DEF Way, AnswerUnderWay
      <3>3. Len(from'[cur]) = 1 /\ inp'[cur].code = "CONNECT" /\ got' = "ok" /\ pc' = "connecting"
        <4>1. Len(Tail(from[cur])) = 1
          BY <2>3, <3>2
        <4> QED
          BY <1>2, <2>1, <2>4, <3>2, <4>1
      <3>4. \A i \in DOMAIN from'[cur] :
                  from'[cur][i].n = ops' /\ (from'[cur][i].op = "FRETURN" => pc' = "call")
        BY <1>2, <2>3, <2>4, <3>2
      <3> QED
        BY <1>2, <3>3, <3>4 DEF AnswerUnderWay
    <2>7. Way(cur)'
      <3>1. AnswerBeforeEnd(cur)'
        BY <1>2, <1>5, <2>1 DEF AnswerBeforeEnd
      <3> QED
        BY <1>2, <1>4, <1>6, <2>2, <2>6, <3>1 DEF Way, PacketUnderWay, CallUnderWay
    <2>8. \A d \in Conns : d # cur => from'[d] = from[d]
      BY <2>1 DEF WireTypes
    <2> QED
      BY <1>2, <1>3, <2>5, <2>7, <2>8 DEF OneUnderWay
  <1>8. CASE ReadFails
    <2>1. from[cur] = <<>> /\ UNCHANGED <<from, inp>> /\ got' = "failed"
      BY <1>8 DEF ReadFails
    <2>2. ~(far[cur].link /\ UnderWay(cur))
      BY <1>8 DEF ReadFails, Quiet, WireTypes
    <2>3. to[cur] = <<>> /\ Served(cur) = {}
      BY <1>4, <2>2 DEF Way, UnderWay, Served
    <2>4. AnswerBeforeEnd(cur)'
      BY <1>2, <1>5, <2>1 DEF AnswerBeforeEnd
    <2>5. Way(cur)'
      BY <1>2, <1>4, <1>6, <2>1, <2>3, <2>4 DEF Way, PacketUnderWay, CallUnderWay, AnswerUnderWay
    <2>6. OwnAnswer'
      BY <2>1 DEF OwnAnswer
    <2> QED
      BY <1>2, <1>3, <2>1, <2>5, <2>6 DEF OneUnderWay
  <1> QED
    BY <1>7, <1>8

\* suvad takes the packet of the operation that waits, and answers it or hands
\* it to the suvlet.
LEMMA SuvadPairs ==
  ASSUME WireTypes, OneUnderWay, NEW c \in Conns, Suvad(c)
  PROVE  OneUnderWay'
  <1>1. /\ UNCHANGED <<pc, cur, got, conn, inp, ops>>
        /\ far[c].link /\ to[c] # <<>> /\ to' = [to EXCEPT ![c] = Tail(to[c])]
    BY SuvadIs DEF local
  <1>2. PICK s \in Seq(AnswerRec), f \in Suvlet :
          /\ SuvadDoes(c, Head(to[c]), s, f)
          /\ from' = [from EXCEPT ![c] = from[c] \o s]
          /\ far' = [far EXCEPT ![c] = f]
    BY SuvadIs
  <1>3. /\ cur = c /\ pc \in Waiting /\ got = "no" /\ Len(to[c]) = 1
        /\ to[c][1].n = ops /\ Wrote(to[c][1].op)
        /\ from[c] = <<>> /\ Served(c) = {} /\ ~far[c].hung
    BY <1>1 DEF OneUnderWay, Way, PacketUnderWay, Awaits
  <1>4. PICK p \in PacketRec : p = Head(to[c]) /\ p = to[c][1]
    BY <1>1, WireFacts, HeadAndTail
  <1>5. p.n = ops /\ Wrote(p.op) /\ SuvadDoes(c, p, s, f)
    BY <1>2, <1>3, <1>4
  <1>6. to'[c] = <<>>
    <2>1. Len(Tail(to[c])) = 0 /\ Tail(to[c]) \in Seq(PacketRec)
      BY <1>1, <1>3, WireFacts, HeadAndTail
    <2>2. \A q \in Seq(PacketRec) : Len(q) = 0 => q = <<>>
      OBVIOUS
    <2>3. Tail(to[c]) = <<>>
      BY <2>1, <2>2
    <2> QED
      BY <1>1, <2>3 DEF WireTypes
  <1>7. from'[c] = s
    BY <1>2, <1>3 DEF WireTypes
  <1>8. far'[c] = f /\ far[c] \in Suvlet
    BY <1>2, WireFacts DEF WireTypes
  <1>9. ASSUME NEW d \in Conns, d # c PROVE Way(d)'
    <2>1. far'[d] = far[d] /\ to'[d] = to[d] /\ from'[d] = from[d]
      BY <1>1, <1>2, <1>9 DEF WireTypes
    <2> QED
      BY <1>1, <2>1, WayStays DEF OneUnderWay
  <1>10. \A code : Answer("RETURN", code, p.n).n = ops /\ Answer("RETURN", code, p.n).op = "RETURN"
                     /\ Answer("RETURN", code, p.n).code = code
    BY <1>5 DEF Answer
  <1>11. \A q : Len(<<q>>) = 1 /\ <<q>>[1] = q /\ <<q>> # <<>> /\ \A i \in DOMAIN <<q>> : <<q>>[i] = q
    OBVIOUS
  <1>a. SUFFICES Way(c)'
    BY <1>1, <1>3, <1>9 DEF OneUnderWay, OwnAnswer
  <1>12. ASSUME f.link, ~f.hung,
                \/ f.suvlet = far[c].suvlet /\ f.stdin = far[c].stdin
                \/ f.stdin = <<>>
                \/ f.stdin = Append(far[c].stdin, Packet("DSUVLET", p.n)) /\ f.suvlet = far[c].suvlet,
                s # <<>> => /\ \A i \in DOMAIN s : s[i].n = ops /\ s[i].op = "RETURN"
                            /\ Len(s) = 1 \/ (pc = "connecting" /\ Len(s) = 2 /\ s[1].code = "CONNECT")
         PROVE  Way(c)'
    <2>1. Served(c)' = {}
      <3>1. CASE f.suvlet = far[c].suvlet /\ f.stdin = far[c].stdin
        BY <1>3, <1>8, <3>1 DEF Served
      <3>2. CASE f.stdin = <<>>
        BY <1>8, <3>2 DEF Served
      <3>3. CASE f.stdin = Append(far[c].stdin, Packet("DSUVLET", p.n)) /\ f.suvlet = far[c].suvlet
        <4>1. Packet("DSUVLET", p.n) \in StdinRec /\ Packet("DSUVLET", p.n).op = "DSUVLET"
          BY DEF PacketRec, StdinRec, Stdins, Packet
        <4>2. /\ Len(far[c].stdin) \in Nat
              /\ f.stdin[Len(far[c].stdin) + 1].op = "DSUVLET"
              /\ \A i \in DOMAIN f.stdin :
                    i = Len(far[c].stdin) + 1 \/ (i \in DOMAIN far[c].stdin /\ f.stdin[i] = far[c].stdin[i])
          BY <3>3, <4>1, WireFacts, OneMore
        <4> QED
          BY <1>3, <1>8, <3>3, <4>2 DEF Served
      <3> QED
        BY <1>12, <3>1, <3>2, <3>3
    <2>2. AnswerUnderWay(c)'
      BY <1>1, <1>3, <1>7, <1>12 DEF AnswerUnderWay
    <2> QED
      BY <1>6, <1>8, <1>12, <2>1, <2>2 DEF Way, PacketUnderWay, CallUnderWay, AnswerBeforeEnd
  <1>13. ASSUME NEW code, s = <<Answer("RETURN", code, p.n)>>
         PROVE  s # <<>> => /\ \A i \in DOMAIN s : s[i].n = ops /\ s[i].op = "RETURN"
                            /\ Len(s) = 1 \/ (pc = "connecting" /\ Len(s) = 2 /\ s[1].code = "CONNECT")
    BY <1>10, <1>11, <1>13
  <1>14. CASE p.op = "OCONN" /\ f = far[c]
    <2>1. pc = "connecting"
      BY <1>5, <1>14 DEF Wrote
    <2>2. s # <<>> => /\ \A i \in DOMAIN s : s[i].n = ops /\ s[i].op = "RETURN"
                      /\ Len(s) = 1 \/ (pc = "connecting" /\ Len(s) = 2 /\ s[1].code = "CONNECT")
      <3>1. CASE s = <<Answer("RETURN", "INVORG", p.n)>>
        BY <1>13, <3>1
      <3>2. ASSUME NEW code, s = <<Answer("RETURN", "CONNECT", p.n), Answer("RETURN", code, p.n)>>
            PROVE  /\ \A i \in DOMAIN s : s[i].n = ops /\ s[i].op = "RETURN"
                   /\ Len(s) = 2 /\ s[1].code = "CONNECT"
        <4>1. \A q, r : Len(<<q, r>>) = 2 /\ <<q, r>>[1] = q
                          /\ \A i \in DOMAIN <<q, r>> : <<q, r>>[i] = q \/ <<q, r>>[i] = r
          OBVIOUS
        <4> QED
          BY <1>10, <3>2, <4>1
      <3> QED
        BY <1>5, <1>14, <2>1, <3>1, <3>2 DEF SuvadDoes, Stdins
    <2> QED
      BY <1>1, <1>3, <1>12, <1>14, <2>2
  <1>15. CASE /\ p.op \notin {"OCONN", "CCONN"} /\ f = far[c]
              /\ \E code \in {"SEXISTS", "SPAWN"} : s = <<Answer("RETURN", code, p.n)>>
    BY <1>1, <1>3, <1>12, <1>13, <1>15
  <1>16. CASE /\ p.op = "CSUVLET" /\ s = <<Answer("RETURN", "OKAY", p.n)>>
              /\ f = [far[c] EXCEPT !.suvlet = "runs", !.stdin = <<>>, !.called = FALSE]
    <2>1. f.stdin = <<>> /\ f.link /\ ~f.hung
      BY <1>1, <1>3, <1>8, <1>16 DEF Suvlet
    <2> QED
      BY <1>12, <1>13, <1>16, <2>1
  <1>17. CASE /\ p.op \in Stdins /\ far[c].suvlet = "runs"
              /\ s = IF p.op = "DSUVLET" THEN <<Answer("RETURN", "STERM", p.n)>> ELSE <<>>
              /\ f = [far[c] EXCEPT !.stdin = Append(far[c].stdin, Packet(p.op, p.n))]
    <2>1. f.stdin = Append(far[c].stdin, Packet(p.op, p.n)) /\ f.link /\ ~f.hung /\ f.suvlet = "runs"
      BY <1>1, <1>3, <1>8, <1>17 DEF Suvlet
    <2>2. CASE p.op = "DSUVLET"
      BY <1>12, <1>13, <1>17, <2>1, <2>2
    <2>3. CASE p.op # "DSUVLET"
      <3>1. pc = "call" /\ s = <<>>
        BY <1>5, <1>17, <2>3 DEF Wrote, Stdins
      <3>2. Packet(p.op, p.n) \in StdinRec /\ Packet(p.op, p.n).n = ops
        BY <1>5, <1>17, AnswerTypes DEF PacketRec, Packet
      <3>3. /\ Len(far[c].stdin) \in Nat /\ Len(f.stdin) = Len(far[c].stdin) + 1
            /\ f.stdin[Len(far[c].stdin) + 1] = Packet(p.op, p.n)
            /\ \A i \in DOMAIN f.stdin :
                  i = Len(far[c].stdin) + 1 \/ (i \in DOMAIN far[c].stdin /\ f.stdin[i] = far[c].stdin[i])
        BY <2>1, <3>2, WireFacts, OneMore
      <3>4. \A i \in Served(c)' : i = Len(f.stdin) /\ f.stdin[i].n = ops
        BY <1>3, <1>8, <1>17, <3>2, <3>3 DEF Served
      <3>5. CallUnderWay(c)'
        BY <1>1, <1>3, <1>7, <1>8, <3>1, <3>4 DEF CallUnderWay, Awaits
      <3> QED
        BY <1>6, <1>7, <1>8, <2>1, <3>1, <3>5
           DEF Way, PacketUnderWay, AnswerUnderWay, AnswerBeforeEnd
    <2> QED
      BY <2>2, <2>3
  <1>18. CASE /\ p.op = "CCONN" /\ s = <<Answer("RETURN", "OKAY", p.n)>>
              /\ f = [far[c] EXCEPT !.hung = TRUE]
    <2>1. f.link /\ f.hung /\ f.suvlet = far[c].suvlet /\ f.stdin = far[c].stdin /\ pc = "close"
      BY <1>1, <1>5, <1>8, <1>18 DEF Suvlet, Wrote, Stdins
    <2>2. s # <<>> /\ s[1].n = ops /\ s[1].op # "FRETURN"
      BY <1>10, <1>11, <1>18
    <2>3. Served(c)' = {}
      BY <1>3, <1>8, <2>1 DEF Served
    <2>4. AnswerBeforeEnd(c)'
      BY <1>1, <1>3, <1>7, <2>1, <2>2 DEF AnswerBeforeEnd
    <2> QED
      BY <1>6, <1>8, <2>1, <2>3, <2>4 DEF Way, PacketUnderWay, CallUnderWay, AnswerUnderWay
  <1> QED
    BY <1>5, <1>14, <1>15, <1>16, <1>17, <1>18 DEF SuvadDoes

\* The suvlet answers the call of the operation that waits.
LEMMA SuvletPairs ==
  ASSUME IInv, WireTypes, OneUnderWay, NEW c \in Conns, suva_get_request(c)
  PROVE  OneUnderWay'
  <1>1. /\ UNCHANGED <<pc, cur, got, conn, inp, ops, to>>
        /\ far[c].suvlet = "runs" /\ far[c].stdin # <<>>
    BY SuvletIs DEF local
  <1>2. PICK s \in Seq(AnswerRec), f \in Suvlet :
          /\ SuvletDoes(c, Head(far[c].stdin), s, f)
          /\ from' = [from EXCEPT ![c] = from[c] \o s]
          /\ far' = [far EXCEPT ![c] = f]
    BY SuvletIs
  <1>3. PICK p \in StdinRec : p = Head(far[c].stdin) /\ p = far[c].stdin[1]
    BY <1>1, WireFacts, HeadAndTail
  <1>4. far'[c] = f /\ far[c] \in Suvlet /\ from'[c] = from[c] \o s
    BY <1>2, WireFacts DEF WireTypes
  <1>5. /\ f.stdin = Tail(far[c].stdin) /\ f.link = far[c].link /\ f.hung = far[c].hung
        /\ p.op = "DSUVLET" => f.suvlet = "ended"
    BY <1>2, <1>3, <1>4 DEF SuvletDoes, Suvlet
  <1>6. s = IF p.op = "FCALL" /\ far[c].link THEN <<Answer("FRETURN", "value", p.n)>> ELSE <<>>
    BY <1>2, <1>3 DEF SuvletDoes
  <1>7. /\ Len(far[c].stdin) \in Nat /\ Len(far[c].stdin) > 0 /\ 1 \in DOMAIN far[c].stdin
        /\ Len(f.stdin) = Len(far[c].stdin) - 1
        /\ \A i \in DOMAIN f.stdin : i + 1 \in DOMAIN far[c].stdin /\ f.stdin[i] = far[c].stdin[i + 1]
    BY <1>1, <1>5, WireFacts, HeadAndTail
  <1>8. Way(c)
    BY DEF OneUnderWay
  <1>9. ASSUME NEW d \in Conns, d # c PROVE Way(d)'
    <2>1. far'[d] = far[d] /\ to'[d] = to[d] /\ from'[d] = from[d]
      BY <1>1, <1>2, <1>9 DEF WireTypes
    <2> QED
      BY <1>1, <2>1, WayStays DEF OneUnderWay
  <1>a. SUFFICES Way(c)'
    BY <1>1, <1>9 DEF OneUnderWay, OwnAnswer
  <1>10. \A i \in Served(c)' : i + 1 \in Served(c) /\ f.stdin[i] = far[c].stdin[i + 1] /\ i \in Nat
    <2> SUFFICES ASSUME NEW i \in DOMAIN f.stdin, f.stdin[i].op = "FCALL"
                 PROVE  i + 1 \in Served(c) /\ f.stdin[i] = far[c].stdin[i + 1] /\ i \in Nat
      BY <1>4 DEF Served
    <2>1. i \in Nat
      BY <1>4 DEF Suvlet
    <2> QED
      BY <1>1, <1>7, <2>1 DEF Served
  <1>11. CASE p.op = "FCALL"
    <2>1. 1 \in Served(c)
      BY <1>1, <1>3, <1>7, <1>11 DEF Served
    <2>2. Awaits(c) /\ pc = "call" /\ from[c] = <<>> /\ 1 = Len(far[c].stdin) /\ p.n = ops
      BY <1>3, <1>8, <2>1 DEF Way, CallUnderWay
    <2>3. Served(c)' = {}
      <3> SUFFICES ASSUME NEW i \in Served(c)' PROVE FALSE
        OBVIOUS
      <3>1. i + 1 = 1 /\ i \in DOMAIN f.stdin /\ Len(f.stdin) = 0 /\ f.stdin \in Seq(StdinRec)
        BY <1>4, <1>7, <1>8, <1>10, <2>2 DEF Served, Way, CallUnderWay, Suvlet
      <3> QED
        BY <3>1
    <2>4. to[c] = <<>>
      BY <1>8, <2>1 DEF Way, PacketUnderWay
    <2>5. far[c].link /\ ~far[c].hung
      <3>1. conn[c].st = "held"
        BY <2>2 DEF IInv, Waits, Waiting, Awaits
      <3> QED
        BY <1>8, <2>2, <3>1 DEF Way, AnswerBeforeEnd
    <2>6. s = <<Answer("FRETURN", "value", p.n)>>
      BY <1>6, <1>11, <2>5
    <2>7. from'[c] = <<Answer("FRETURN", "value", p.n)>>
      <3>1. <<>> \o s = s
        OBVIOUS
      <3> QED
        BY <1>4, <2>2, <2>6, <3>1
    <2>8. \A q : Len(<<q>>) = 1 /\ \A i \in DOMAIN <<q>> : <<q>>[i] = q
      OBVIOUS
    <2>9. AnswerUnderWay(c)'
      <3>1. Answer("FRETURN", "value", p.n).n = ops
        BY <2>2 DEF Answer
      <3>2. Len(from'[c]) = 1 /\ \A i \in DOMAIN from'[c] : from'[c][i].n = ops
        BY <2>7, <2>8, <3>1
      <3> QED
        BY <1>1, <2>2, <3>2 DEF AnswerUnderWay, Awaits
    <2> QED
      BY <1>1, <1>4, <1>5, <2>3, <2>4, <2>5, <2>9
         DEF Way, PacketUnderWay, CallUnderWay, AnswerBeforeEnd
  <1>12. CASE p.op # "FCALL"
    <2>1. from'[c] = from[c]
      <3>1. from[c] \o <<>> = from[c]
        BY WireFacts
      <3> QED
        BY <1>4, <1>6, <1>12, <3>1
    <2>2. Served(c) = {} => Served(c)' = {}
      BY <1>10
    <2>3. PacketUnderWay(c)'
      BY <1>1, <1>4, <1>5, <1>8, <2>1, <2>2 DEF Way, PacketUnderWay, Awaits, Wrote
    <2>4. CallUnderWay(c)'
      <3>1. \A i \in Served(c)' : i = Len(f.stdin) /\ f.stdin[i].n = ops
        BY <1>7, <1>8, <1>10 DEF Way, CallUnderWay
      <3> QED
        BY <1>1, <1>4, <1>8, <2>1, <2>2, <3>1 DEF Way, CallUnderWay, Awaits
    <2>5. AnswerUnderWay(c)' /\ AnswerBeforeEnd(c)'
      BY <1>1, <1>4, <1>5, <1>8, <2>1 DEF Way, AnswerUnderWay, AnswerBeforeEnd
    <2> QED
      BY <1>4, <1>5, <1>8, <2>3, <2>4, <2>5 DEF Way
  <1> QED
    BY <1>11, <1>12

\* The suvlet ends after suvad has: what it may write comes after the answer.
LEMMA HungUpPairs ==
  ASSUME WireTypes, OneUnderWay, NEW c \in Conns, HungUp(c)
  PROVE  OneUnderWay'
  <1>1. /\ UNCHANGED <<pc, cur, got, conn, inp, ops, to>>
        /\ far[c].suvlet = "runs" /\ far[c].stdin = <<>> /\ far[c].hung
    BY HungUpIs DEF local
  <1>2. PICK s \in Seq(AnswerRec), x \in {"spins", "ended"} :
          /\ from' = [from EXCEPT ![c] = from[c] \o s]
          /\ far' = [far EXCEPT ![c] = [far[c] EXCEPT !.suvlet = x]]
    BY HungUpIs
  <1>3. /\ far'[c].link = far[c].link /\ far'[c].hung /\ far'[c].stdin = <<>>
        /\ from'[c] = from[c] \o s
    BY <1>1, <1>2, WireFacts DEF WireTypes, Suvlet
  <1>4. ASSUME NEW d \in Conns, d # c PROVE Way(d)'
    <2>1. far'[d] = far[d] /\ to'[d] = to[d] /\ from'[d] = from[d]
      BY <1>1, <1>2, <1>4 DEF WireTypes
    <2> QED
      BY <1>1, <2>1, WayStays DEF OneUnderWay
  <1>5. Way(c) /\ to[c] = <<>>
    BY <1>1 DEF OneUnderWay, Way, PacketUnderWay
  <1>6. Served(c)' = {}
    BY <1>3 DEF Served
  <1>7. from[c] # <<>> => from'[c] # <<>> /\ from'[c][1] = from[c][1]
    BY <1>3, WireFacts
  <1>8. AnswerBeforeEnd(c)'
    BY <1>1, <1>5, <1>7 DEF Way, AnswerBeforeEnd
  <1>9. Way(c)'
    BY <1>1, <1>3, <1>5, <1>6, <1>8 DEF Way, PacketUnderWay, CallUnderWay, AnswerUnderWay
  <1> QED
    BY <1>1, <1>4, <1>9 DEF OneUnderWay, OwnAnswer

LEMMA InitPairs == Init => PairInv
  <1> SUFFICES ASSUME Init PROVE PairInv
    OBVIOUS
  <1>1. \A c \in Conns :
          far[c].link /\ ~far[c].hung /\ far[c].stdin = <<>> /\ to[c] = <<>> /\ from[c] = <<>>
    BY DEF Init
  <1>2. \A c \in Conns : Way(c)
    BY <1>1 DEF Way, PacketUnderWay, CallUnderWay, AnswerUnderWay, AnswerBeforeEnd, Served
  <1> QED
    BY <1>2, InitWireTypes DEF Init, PairInv, OneUnderWay, OwnAnswer

LEMMA NextPairs == IInv /\ PairInv /\ [Next]_vars => PairInv'
  <1> SUFFICES ASSUME IInv, PairInv, [Next]_vars PROVE PairInv'
    OBVIOUS
  <1>1. WireTypes /\ cur \in Conns
    BY DEF PairInv, IInv, Types
  <1>2. WireTypes'
    BY <1>1, NextWireTypes
  <1>3. ASSUME Quiet' PROVE OneUnderWay'
    <2>1. OneUnderWay
      BY <1>1, <1>3, QuietBefore DEF PairInv
    <2>2. CASE \E c \in Conns : OpenEarly(c) \/ Open(c) \/ Close(c) \/ Create(c) \/ Call(c) \/ Destroy(c)
      BY <1>1, <2>1, <2>2, StartPairs
    <2>3. CASE LocalStep
      BY <1>1, <2>1, <2>3, ReturnPairs
    <2>4. CASE ReadPacket \/ ReadFails
      BY <1>1, <1>3, <2>1, <2>4, ReadPairs
    <2>7. CASE ReadCut
      BY <1>1, <1>3, <2>1, <2>7, NoCutInQuiet
    <2>5. ASSUME NEW c \in Conns, Beyond(c) PROVE OneUnderWay'
      <3>1. ~SuvadDies(c) /\ ~SuvletDies(c)
        BY <1>3 DEF SuvadDies, SuvletDies, Quiet
      <3> QED
        BY <1>1, <2>1, <2>5, <3>1, SuvadPairs, SuvletPairs, HungUpPairs DEF Beyond
    <2>6. CASE UNCHANGED vars
      <3>1. \A c \in Conns : Way(c)'
        BY <2>1, <2>6, WayStays DEF OneUnderWay, vars, local
      <3> QED
        BY <2>1, <2>6, <3>1 DEF OneUnderWay, OwnAnswer, vars, local
    <2> QED
      BY <2>2, <2>3, <2>4, <2>5, <2>6, <2>7, StepKinds
  <1> QED
    BY <1>2, <1>3 DEF PairInv

\* Paired: as long as no answer came late and nobody died, every operation of
\* suva_conn.c reads the answer to its own packet, although it compares no
\* number: at most one packet, call or answer of a connection is under way, and
\* the operation that wrote it is the one that reads.
THEOREM AnswersAreOwn == Spec => []Paired
  <1>1. Init => IInv /\ PairInv
    BY InitInv, InitPairs
  <1>2. IInv /\ PairInv /\ [Next]_vars => (IInv /\ PairInv)'
    BY StepInv, NextPairs
  <1>3. PairInv => Paired
    BY DEF PairInv, Quiet, OneUnderWay, OwnAnswer, Paired
  <1> QED
    BY <1>1, <1>2, <1>3, PTL DEF Spec
=============================================================================
