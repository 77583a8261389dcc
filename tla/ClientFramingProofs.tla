------------------------- MODULE ClientFramingProofs -------------------------
(***************************************************************************)
(* Proofs about ClientFraming, for any feed and any pieces.                *)
(***************************************************************************)
EXTENDS ClientFraming, BasicLemmas

\* Type correctness, the framing, and that the last piece ends where the data do.
IInv == TypeOK /\ FramingKept /\ received \in cuts \cup {0}

\* The bounds of every message: its length and at least one byte lie before the next.
LEMMA Messages ==
  /\ FeedEnd \in Nat /\ 0 \in Boundaries /\ Boundaries \subseteq Int
  /\ \A i \in Message : /\ Start[i] \in Nat /\ Start[i + 1] \in Nat
                        /\ Body(i) \in Nat \ {0}
                        /\ Start[i] \in Boundaries /\ Start[i + 1] \in Boundaries
<1> USE FramingAssumption DEF Message, FeedEnd, Boundaries
<1>1. DOMAIN Start = 1 .. Len(Start) /\ Len(Start) \in Nat
  OBVIOUS
<1>2. \A i \in 1 .. Len(Start) : Start[i] \in Nat
  BY <1>1
<1>3. FeedEnd \in Nat /\ 0 \in Boundaries /\ Boundaries \subseteq Int
  BY <1>1, <1>2
<1>4. ASSUME NEW i \in Message
      PROVE  /\ Start[i] \in Nat /\ Start[i + 1] \in Nat
             /\ Body(i) \in Nat \ {0}
             /\ Start[i] \in Boundaries /\ Start[i + 1] \in Boundaries
  <2>1. i \in 1 .. Len(Start) /\ i + 1 \in 1 .. Len(Start)
    BY <1>1
  <2>2. Start[i] \in Nat /\ Start[i + 1] \in Nat /\ Start[i + 1] >= Start[i] + 3
    BY <2>1, <1>2
  <2>3. Start[i] \in Boundaries /\ Start[i + 1] \in Boundaries
    BY <1>1, <2>1
  <2>4. Body(i) \in Nat \ {0}
    BY SMTT(30), <2>2 DEF Body
  <2> QED  BY <2>2, <2>3, <2>4
<1> QED  BY <1>3, <1>4

\* What two bytes are read as, in a message and elsewhere.
LEMMA Lengths ==
  ASSUME NEW p \in Nat, NEW length \in LengthsAt(p)
  PROVE  /\ length \in Nat
         /\ p \in Boundaries => \E i \in Message : Start[i] = p /\ length = Body(i)
BY Messages, FramingAssumption DEF LengthsAt

LEMMA BodyEnds ==
  ASSUME NEW i \in Message
  PROVE  Start[i + 1] = Start[i] + 2 + Body(i)
BY Messages DEF Body

LEMMA CountTypes ==
  ASSUME TypeOK, NEW m \in Message \cup {0}, CountOrder(m)
  PROVE  /\ order_count' \in 0 .. PUBLISH_THRESHOLD - 1
         /\ published' \in Seq(Message \cup {0})
<1>1. published \in Seq(Message \cup {0}) /\ order_count \in 0 .. PUBLISH_THRESHOLD - 1
      /\ PUBLISH_THRESHOLD \in Nat \ {0}
  BY FramingAssumption DEF TypeOK
<1>2. Append(published, m) \in Seq(Message \cup {0})
  BY <1>1
<1> QED  BY <1>1, <1>2 DEF CountOrder

LEMMA InitInv == Init => IInv
<1> SUFFICES ASSUME Init PROVE IInv
  OBVIOUS
<1>1. /\ pos = 0 /\ received = 0 /\ num_bytes_to_skip = 0 /\ order_count = 0
      /\ running = TRUE /\ cuts = {} /\ handled = <<>> /\ published = <<>>
  BY DEF Init
<1>2. handled \in Seq(Message) /\ published \in Seq(Message \cup {0})
  BY <1>1
<1>3. TypeOK
  BY <1>1, <1>2, Messages, FramingAssumption DEF TypeOK
<1>4. pos + num_bytes_to_skip \in Boundaries /\ received \in cuts \cup {0}
  BY <1>1, Messages
<1> QED  BY <1>3, <1>4 DEF IInv, FramingKept

LEMMA StepInv == IInv /\ [Next]_vars => IInv'
<1> SUFFICES ASSUME IInv, [Next]_vars PROVE IInv'
  OBVIOUS
<1> USE Messages, FramingAssumption DEF IInv, TypeOK
<1>1. CASE Recv
  <2>1. PICK n \in received + 1 .. FeedEnd : received' = n /\ cuts' = cuts \cup {n}
    BY <1>1 DEF Recv
  <2>2. UNCHANGED <<pos, num_bytes_to_skip, running, order_count, handled, published>>
    BY <1>1 DEF Recv, orderVars
  <2>3. TypeOK' /\ received' \in (cuts \cup {0})'
    BY <2>1, <2>2
  <2>4. FramingKept'
    BY <2>1, <2>2 DEF FramingKept, LengthsWhole
  <2> QED  BY <2>3, <2>4
<1>2. CASE Disconnect
  BY <1>2 DEF Disconnect, recvVars, orderVars, FramingKept, LengthsWhole
<1>3. CASE SkipPiece
  <2>1. pos' + num_bytes_to_skip' = pos + num_bytes_to_skip
    BY <1>3 DEF SkipPiece, Held
  <2>2. TypeOK' /\ received' \in (cuts \cup {0})'
    BY <1>3 DEF SkipPiece, Held, recvVars, orderVars
  <2> QED  BY <1>3, <2>1, <2>2 DEF SkipPiece, recvVars, FramingKept, LengthsWhole
<1>4. CASE SkipRest
  <2>1. pos' + num_bytes_to_skip' = pos + num_bytes_to_skip
    BY <1>4 DEF SkipRest, Held
  <2>2. TypeOK' /\ received' \in (cuts \cup {0})'
    BY <1>4 DEF SkipRest, Held, recvVars, orderVars
  <2> QED  BY <1>4, <2>1, <2>2 DEF SkipRest, recvVars, FramingKept, LengthsWhole
<1>5. CASE DropByte
  <2>1. TypeOK' /\ received' \in (cuts \cup {0})'
    BY <1>5 DEF DropByte, Held, recvVars, orderVars
  <2>2. ASSUME LengthsWhole' PROVE FALSE
    \* The byte is the first of a length, or of one that framing has already missed.
    <3>1. LengthsWhole /\ pos \in Boundaries /\ received = pos + 1
      BY <1>5, <2>2 DEF DropByte, Held, recvVars, FramingKept, LengthsWhole
    <3>2. received \in cuts
      <4>1. pos >= 0 /\ received \in cuts \cup {0}
        OBVIOUS
      <4> QED  BY <3>1, <4>1
    <3>3. PICK i \in DOMAIN Start : Start[i] = pos
      BY <3>1 DEF Boundaries
    <3>4. CASE i = Len(Start)
      BY <3>1, <3>3, <3>4 DEF FeedEnd
    <3>5. CASE i # Len(Start)
      <4>1. received \in cuts /\ received = Start[i] + 1
        BY <3>1, <3>2, <3>3
      <4>2. i \in Message
        BY <3>3, <3>5 DEF Message
      <4> QED  BY <3>1, <4>1, <4>2 DEF LengthsWhole
    <3> QED  BY <3>4, <3>5
  <2> QED  BY <2>1, <2>2 DEF FramingKept
<1>6. CASE CutMessage
  <2>1. PICK length \in LengthsAt(pos) :
          length > Held - 2 /\ num_bytes_to_skip' = length - (Held - 2)
    BY <1>6 DEF CutMessage
  <2>2. Held >= 2 /\ num_bytes_to_skip = 0 /\ pos' = received
        /\ UNCHANGED <<received, cuts, running, order_count, handled, published>>
    BY <1>6 DEF CutMessage, recvVars, orderVars
  <2>3. length \in Nat
    BY Lengths
  <2>4. TypeOK' /\ received' \in (cuts \cup {0})'
    BY <2>1, <2>2, <2>3 DEF Held
  <2>5. ASSUME LengthsWhole PROVE pos' + num_bytes_to_skip' \in Boundaries
    <3>1. pos \in Boundaries
      BY <2>2, <2>5 DEF FramingKept
    <3>2. PICK i \in Message : Start[i] = pos /\ length = Body(i)
      BY <3>1, Lengths
    <3>3. pos' + num_bytes_to_skip' = Start[i + 1]
      BY <2>1, <2>2, <2>3, <3>2, BodyEnds DEF Held
    <3> QED  BY <3>3
  <2> QED  BY <2>2, <2>4, <2>5 DEF FramingKept, LengthsWhole
<1>7. CASE HandleMessage
  <2>1. PICK i \in Message :
          /\ Start[i] = pos /\ Body(i) <= Held - 2
          /\ pos' = Start[i + 1] /\ handled' = Append(handled, i)
          /\ CountOrder(i)
    BY <1>7 DEF HandleMessage
  <2>2. num_bytes_to_skip = 0 /\ UNCHANGED <<num_bytes_to_skip, running, received, cuts>>
    BY <1>7 DEF HandleMessage, recvVars
  <2>3. pos' \in 0 .. received /\ pos' \in Boundaries
    BY SMTT(30), <2>1, BodyEnds DEF Held
  <2>4. handled' \in Seq(Message)
    <3>1. handled \in Seq(Message)
      OBVIOUS
    <3> QED  BY <2>1, <3>1
  <2>5. /\ order_count' \in 0 .. PUBLISH_THRESHOLD - 1
        /\ published' \in Seq(Message \cup {0})
    BY <2>1, CountTypes
  <2>6. TypeOK'
    BY <2>2, <2>3, <2>4, <2>5
  <2>7. received' \in (cuts \cup {0})' /\ pos' + num_bytes_to_skip' \in Boundaries
    BY <2>2, <2>3
  <2> QED  BY <2>6, <2>7 DEF FramingKept
<1>8. CASE HandleGarbage
  <2>1. /\ num_bytes_to_skip = 0 /\ pos \notin Boundaries
        /\ UNCHANGED <<num_bytes_to_skip, received, cuts, handled>>
    BY <1>8 DEF HandleGarbage, recvVars
  <2>2. PICK length \in LengthsAt(pos) : length <= Held - 2 /\ pos' = pos + 2 + length
    BY <1>8 DEF HandleGarbage
  <2>3. pos' \in 0 .. received
    BY <2>2, Lengths DEF Held
  <2>4. /\ running' \in BOOLEAN
        /\ order_count' \in 0 .. PUBLISH_THRESHOLD - 1
        /\ published' \in Seq(Message \cup {0})
    BY <1>8, CountTypes DEF HandleGarbage
  <2>5. TypeOK'
    BY <2>1, <2>3, <2>4
  <2> QED  BY <2>1, <2>5 DEF FramingKept, LengthsWhole
<1>9. CASE UNCHANGED vars
  BY <1>9 DEF vars, recvVars, orderVars, FramingKept, LengthsWhole
<1> QED
  BY <1>1, <1>2, <1>3, <1>4, <1>5, <1>6, <1>7, <1>8, <1>9 DEF Next

\* Messages lie behind each other.
LEMMA Monotone ==
  ASSUME NEW i \in Message, NEW j \in Message
  PROVE  /\ i < j => Start[i + 1] <= Start[j]
         /\ i <= j => Start[i + 1] <= Start[j + 1]
<1>1. /\ i \in DOMAIN Start /\ i + 1 \in DOMAIN Start
      /\ j \in DOMAIN Start /\ j + 1 \in DOMAIN Start
  BY FramingAssumption DEF Message
<1>2. /\ i \in Int /\ j \in Int
      /\ Start[i + 1] \in Int /\ Start[j] \in Int /\ Start[j + 1] \in Int
  <2>1. Message \subseteq Int
    BY FramingAssumption DEF Message
  <2> QED  BY <2>1, Messages
<1>3. /\ i + 1 < j => Start[i + 1] + 3 <= Start[j]
      /\ i + 1 < j + 1 => Start[i + 1] + 3 <= Start[j + 1]
  BY <1>1, FramingAssumption
<1>4. /\ i + 1 = j => Start[i + 1] = Start[j]
      /\ i = j => Start[i + 1] = Start[j + 1]
  OBVIOUS
<1> QED  BY <1>2, <1>3, <1>4

\* While the framing is kept, bytes are skipped only of a message that was cut.
SkipsCutMessage ==
  num_bytes_to_skip > 0 =>
    \E i \in Message : /\ Start[i] < pos /\ pos + num_bytes_to_skip = Start[i + 1]
                       /\ ~ InOnePiece(i)

\* Of the data in hand none is behind a cut.
CutsPassed == \A c \in cuts : c <= pos \/ c = received

HInv == IInv /\ CutsPassed /\ WholeMessagesHandled /\ (LengthsWhole => SkipsCutMessage)

LEMMA InitHandled == Init => HInv
<1> SUFFICES ASSUME Init PROVE HInv
  OBVIOUS
<1>1. pos = 0 /\ num_bytes_to_skip = 0 /\ cuts = {} /\ handled = <<>>
  BY DEF Init
<1>2. \A i \in Message : Start[i + 1] > 0
  BY Messages, BodyEnds
<1>3. WholeMessagesHandled
  BY <1>1, <1>2, Messages DEF WholeMessagesHandled, Range
<1> QED  BY <1>1, <1>3, InitInv DEF HInv, CutsPassed, SkipsCutMessage

\* A step to a position up to which no further message ends in one piece.
LEMMA NothingNew ==
  ASSUME WholeMessagesHandled, LengthsWhole' => LengthsWhole, handled' = handled,
         \A i \in Message : (Start[i + 1] <= pos /\ InOnePiece(i))
                              <=> (Start[i + 1] <= pos /\ InOnePiece(i))'
  PROVE  WholeMessagesHandled'
BY DEF WholeMessagesHandled

LEMMA StepHandled == HInv /\ [Next]_vars => HInv'
<1> SUFFICES ASSUME HInv, [Next]_vars PROVE HInv'
  OBVIOUS
<1>0. IInv /\ IInv' /\ TypeOK /\ TypeOK' /\ FramingKept /\ FramingKept'
  BY StepInv DEF HInv, IInv
<1>t. /\ pos \in Int /\ received \in Int /\ pos <= received /\ num_bytes_to_skip \in Nat
      /\ cuts \in SUBSET Int /\ handled \in Seq(Message) /\ Message \subseteq Int
      /\ \A i \in Message : Start[i] \in Int /\ Start[i + 1] \in Int
  BY SMTT(30), <1>0, Messages DEF TypeOK, Message
<1>1. CASE Recv
  <2>1. PICK n \in received + 1 .. FeedEnd : received' = n /\ cuts' = cuts \cup {n}
    BY <1>1 DEF Recv
  <2>2. pos = received /\ UNCHANGED <<pos, num_bytes_to_skip, handled>>
    BY <1>1, <1>t DEF Recv, Held, orderVars
  <2>3. n \in Int /\ n > pos
    BY <2>1, <2>2, <1>t, Messages
  <2>4. \A c \in cuts : c <= pos
    BY <2>2, <1>t DEF HInv, CutsPassed
  <2>5. CutsPassed'
    BY <2>1, <2>2, <2>4 DEF CutsPassed
  <2>6. LengthsWhole' => LengthsWhole
    BY <2>1 DEF LengthsWhole
  <2>7. \A i \in Message : Start[i + 1] <= pos => (InOnePiece(i) <=> InOnePiece(i)')
    BY <2>1, <2>3, <1>t DEF InOnePiece
  <2>8. WholeMessagesHandled'
    BY <2>2, <2>6, <2>7, NothingNew DEF HInv
  <2>9. \A i \in Message : ~ InOnePiece(i) => ~ InOnePiece(i)'
    BY <2>1 DEF InOnePiece
  <2> QED  BY <1>0, <2>2, <2>5, <2>6, <2>8, <2>9 DEF HInv, SkipsCutMessage
<1>2. ASSUME pos' \in Int, pos <= pos', UNCHANGED <<received, cuts>>
      PROVE  CutsPassed' /\ (LengthsWhole <=> LengthsWhole')
             /\ \A i \in Message : InOnePiece(i) <=> InOnePiece(i)'
  BY <1>2, <1>t DEF HInv, CutsPassed, LengthsWhole, InOnePiece
<1>3. CASE Disconnect
  <2>1. UNCHANGED <<pos, num_bytes_to_skip, received, cuts, handled>>
    BY <1>3 DEF Disconnect, recvVars, orderVars
  <2>2. WholeMessagesHandled'
    BY <2>1, <1>2, <1>t, NothingNew DEF HInv
  <2> QED  BY <1>0, <1>2, <1>t, <2>1, <2>2 DEF HInv, SkipsCutMessage
<1>4. CASE SkipPiece
  <2>1. /\ pos < received /\ num_bytes_to_skip > received - pos
        /\ num_bytes_to_skip' = num_bytes_to_skip - (received - pos)
        /\ pos' = received /\ UNCHANGED <<received, cuts, handled>>
    BY <1>4, <1>t DEF SkipPiece, Held, recvVars, orderVars
  <2>2. ASSUME LengthsWhole PROVE SkipsCutMessage' /\ WholeMessagesHandled'
    <3>1. PICK i \in Message : /\ Start[i] < pos /\ pos + num_bytes_to_skip = Start[i + 1]
                               /\ ~ InOnePiece(i)
      BY <2>1, <2>2, <1>t DEF HInv, SkipsCutMessage
    <3>2. \A j \in Message : Start[j + 1] <= pos' => Start[j + 1] <= pos
      <4> SUFFICES ASSUME NEW j \in Message, Start[j + 1] <= pos' PROVE Start[j + 1] <= pos
        OBVIOUS
      <4>1. j < i
        BY <2>1, <3>1, <1>t, Monotone
      <4> QED  BY <3>1, <4>1, <1>t, Monotone
    <3>3. SkipsCutMessage'
      BY <2>1, <3>1, <1>2, <1>t DEF SkipsCutMessage
    <3>4. \A j \in Message : (Start[j + 1] <= pos /\ InOnePiece(j))
                               <=> (Start[j + 1] <= pos /\ InOnePiece(j))'
      BY <2>1, <3>2, <1>2, <1>t
    <3> QED  BY <2>1, <2>2, <3>3, <3>4, NothingNew DEF HInv
  <2> QED  BY <1>0, <1>2, <1>t, <2>1, <2>2 DEF HInv, WholeMessagesHandled
<1>5. CASE SkipRest
  <2>1. /\ num_bytes_to_skip > 0 /\ num_bytes_to_skip <= received - pos
        /\ num_bytes_to_skip' = 0
        /\ pos' = pos + num_bytes_to_skip /\ UNCHANGED <<received, cuts, handled>>
    BY <1>5, <1>t DEF SkipRest, Held, recvVars, orderVars
  <2>2. ASSUME LengthsWhole PROVE WholeMessagesHandled'
    <3>1. PICK i \in Message : /\ Start[i] < pos /\ pos + num_bytes_to_skip = Start[i + 1]
                               /\ ~ InOnePiece(i)
      BY <2>1, <2>2, <1>t DEF HInv, SkipsCutMessage
    <3>2. \A j \in Message : Start[j + 1] <= pos' => Start[j + 1] <= pos \/ j = i
      <4> SUFFICES ASSUME NEW j \in Message, Start[j + 1] <= pos', j # i
                   PROVE  Start[j + 1] <= pos
        OBVIOUS
      <4>1. j < i
        <5>1. CASE j > i
          <6>1. Start[i + 1] <= Start[j]
            BY <5>1, <1>t, Monotone
          <6>2. Start[j] < Start[j + 1]
            BY BodyEnds, Messages
          <6> QED  BY <2>1, <3>1, <6>1, <6>2, <1>t
        <5> QED  BY <5>1, <1>t
      <4> QED  BY <3>1, <4>1, <1>t, Monotone
    <3>4. \A j \in Message : (Start[j + 1] <= pos /\ InOnePiece(j))
                               <=> (Start[j + 1] <= pos /\ InOnePiece(j))'
      BY <2>1, <3>1, <3>2, <1>2, <1>t
    <3> QED  BY <2>1, <2>2, <3>4, NothingNew DEF HInv
  <2> QED  BY <1>0, <1>2, <1>t, <2>1, <2>2 DEF HInv, WholeMessagesHandled, SkipsCutMessage
<1>6. CASE DropByte
  <2>1. pos < received /\ num_bytes_to_skip = 0 /\ pos' = received
        /\ UNCHANGED <<received, cuts, handled, num_bytes_to_skip>>
    BY <1>6, <1>t DEF DropByte, Held, recvVars, orderVars
  <2>2. ~ LengthsWhole'
    <3> SUFFICES ASSUME LengthsWhole' PROVE FALSE
      OBVIOUS
    <3>1. pos \in Boundaries /\ received \in Boundaries /\ received = pos + 1
      BY <1>0, <1>2, <1>6, <1>t, <2>1 DEF FramingKept, DropByte, Held
    <3>2. PICK i \in DOMAIN Start, j \in DOMAIN Start : Start[i] = pos /\ Start[j] = received
      BY <3>1 DEF Boundaries
    <3>3. i \in Int /\ j \in Int /\ (i < j => Start[i] + 3 <= Start[j])
          /\ (j < i => Start[j] + 3 <= Start[i])
      BY FramingAssumption
    <3> QED  BY <3>1, <3>2, <3>3, <1>t
  <2> QED  BY <1>0, <1>2, <1>t, <2>1, <2>2 DEF HInv, WholeMessagesHandled
<1>7. CASE CutMessage
  <2>1. PICK length \in LengthsAt(pos) :
          length > Held - 2 /\ num_bytes_to_skip' = length - (Held - 2)
    BY <1>7 DEF CutMessage
  <2>2. received - pos >= 2 /\ num_bytes_to_skip = 0 /\ pos' = received
        /\ UNCHANGED <<received, cuts, handled>>
    BY <1>7 DEF CutMessage, Held, recvVars, orderVars
  <2>3. ASSUME LengthsWhole PROVE SkipsCutMessage' /\ WholeMessagesHandled'
    <3>1. pos \in Boundaries
      BY <2>2, <2>3, <1>0, <1>t DEF FramingKept
    <3>2. PICK i \in Message : Start[i] = pos /\ length = Body(i)
      BY <3>1, <1>0, Lengths DEF TypeOK
    <3>3. Start[i + 1] > received /\ pos' + num_bytes_to_skip' = Start[i + 1]
          /\ num_bytes_to_skip' \in Int
      <4>1. Start[i + 1] = Start[i] + 2 + Body(i) /\ Body(i) \in Int
        BY BodyEnds, Messages
      <4>2. /\ Body(i) > received - pos - 2
            /\ num_bytes_to_skip' = Body(i) - (received - pos - 2)
        BY <2>1, <3>2 DEF Held
      <4>3. Start[i + 1] = pos + 2 + Body(i) /\ pos' = received
        BY <2>2, <3>2, <4>1
      <4>4. pos \in Int /\ received \in Int
        BY <1>t
      <4> QED  BY <4>1, <4>2, <4>3, <4>4
    <3>4. received \in cuts
      BY <2>2, <1>0, <1>t DEF IInv, TypeOK
    <3>5. ~ InOnePiece(i)
      <4>1. received \in Start[i] + 1 .. Start[i + 1] - 1
        BY <2>2, <3>2, <3>3, <1>t
      <4> QED  BY <3>4, <4>1 DEF InOnePiece
    <3>6. SkipsCutMessage'
      BY <2>2, <3>2, <3>3, <3>5, <1>2, <1>t DEF SkipsCutMessage
    <3>7. \A j \in Message : Start[j + 1] <= pos' => Start[j + 1] <= pos
      <4> SUFFICES ASSUME NEW j \in Message, Start[j + 1] <= pos' PROVE Start[j + 1] <= pos
        OBVIOUS
      <4>1. j < i
        BY <2>2, <3>3, <1>t, Monotone
      <4> QED  BY <3>2, <4>1, <1>t, Monotone
    <3>8. \A j \in Message : (Start[j + 1] <= pos /\ InOnePiece(j))
                               <=> (Start[j + 1] <= pos /\ InOnePiece(j))'
      BY <2>2, <3>7, <1>2, <1>t
    <3> QED  BY <2>2, <2>3, <3>6, <3>8, NothingNew DEF HInv
  <2> QED  BY <1>0, <1>2, <1>t, <2>2, <2>3 DEF HInv, WholeMessagesHandled
<1>8. CASE HandleMessage
  <2>1. PICK i \in Message :
          /\ Start[i] = pos /\ Body(i) <= Held - 2
          /\ pos' = Start[i + 1] /\ handled' = Append(handled, i)
    BY <1>8 DEF HandleMessage
  <2>2. num_bytes_to_skip = 0 /\ UNCHANGED <<num_bytes_to_skip, received, cuts>>
    BY <1>8 DEF HandleMessage, recvVars
  <2>3. pos < pos' /\ pos' <= received /\ pos' \in Int
    BY SMTT(30), <2>1, <1>t, BodyEnds, Messages DEF Held
  <2>4. ASSUME LengthsWhole PROVE WholeMessagesHandled'
    <3>1. \A k \in 1 .. Len(handled) :
            handled[k] \in Message /\ Start[handled[k] + 1] <= pos
      <4> SUFFICES ASSUME NEW k \in 1 .. Len(handled)
                   PROVE  handled[k] \in Message /\ Start[handled[k] + 1] <= pos
        OBVIOUS
      <4>1. handled[k] \in Message /\ k \in DOMAIN handled
        BY <1>t
      <4>2. handled[k] \in Range(handled)
        BY <4>1 DEF Range
      <4> QED  BY <2>4, <4>1, <4>2 DEF HInv, WholeMessagesHandled
    <3>2. \A k \in 1 .. Len(handled) : handled[k] < i
      <4> SUFFICES ASSUME NEW j \in Message, Start[j + 1] <= pos PROVE j < i
        BY <3>1
      <4>1. CASE i <= j
        BY <2>1, <2>3, <4>1, <1>t, Monotone
      <4> QED  BY <4>1, <1>t
    <3>3. /\ Len(handled') = Len(handled) + 1 /\ handled'[Len(handled) + 1] = i
          /\ \A k \in 1 .. Len(handled) : handled'[k] = handled[k]
          /\ Len(handled) \in Nat
      BY <2>1, <1>t
    <3>4. \A k \in 1 .. Len(handled') - 1 : handled'[k] < handled'[k + 1]
      <4> SUFFICES ASSUME NEW k \in 1 .. Len(handled) PROVE handled'[k] < handled'[k + 1]
        BY <3>3
      <4>1. CASE k = Len(handled)
        BY <3>2, <3>3, <4>1
      <4>2. CASE k # Len(handled)
        <5>1. handled[k] < handled[k + 1]
          BY <2>4, <3>3, <4>2 DEF HInv, WholeMessagesHandled
        <5> QED  BY <3>3, <4>2, <5>1
      <4> QED  BY <4>1, <4>2
    <3>5. Range(handled') = Range(handled) \cup {i}
      <4>1. /\ DOMAIN handled = 1 .. Len(handled)
            /\ DOMAIN handled' = 1 .. Len(handled) + 1
        BY <2>1, <1>t
      <4> QED  BY <3>3, <4>1 DEF Range
    <3>6. InOnePiece(i)'
      BY <2>1, <2>2, <2>3, <1>t DEF HInv, CutsPassed, InOnePiece
    <3>7. \A j \in Message : Start[j + 1] <= pos' <=> Start[j + 1] <= pos \/ j = i
      <4> SUFFICES ASSUME NEW j \in Message
                   PROVE  Start[j + 1] <= pos' <=> Start[j + 1] <= pos \/ j = i
        OBVIOUS
      <4>1. CASE j < i
        BY <2>1, <2>3, <4>1, <1>t, Monotone
      <4>2. CASE j > i
        <5>1. Start[i + 1] <= Start[j] /\ Start[j] < Start[j + 1]
          BY <4>2, <1>t, Monotone, BodyEnds, Messages
        <5> QED  BY <2>1, <2>3, <4>2, <5>1, <1>t
      <4> QED  BY <2>1, <2>3, <4>1, <4>2, <1>t
    <3>8. \A j \in Message : j \in Range(handled) <=> Start[j + 1] <= pos /\ InOnePiece(j)
      BY <2>4 DEF HInv, WholeMessagesHandled
    <3>9. \A j \in Message : j \in Range(handled') <=> (Start[j + 1] <= pos /\ InOnePiece(j))'
      BY <2>2, <2>3, <3>5, <3>6, <3>7, <3>8, <1>2, <1>t
    <3> QED  BY <3>4, <3>9 DEF WholeMessagesHandled
  <2> QED
    BY <1>0, <1>2, <1>t, <2>2, <2>3, <2>4 DEF HInv, WholeMessagesHandled, SkipsCutMessage
<1>9. CASE HandleGarbage
  <2>1. num_bytes_to_skip = 0 /\ pos \notin Boundaries
        /\ UNCHANGED <<num_bytes_to_skip, received, cuts, handled>>
    BY <1>9 DEF HandleGarbage, recvVars
  <2>2. PICK length \in LengthsAt(pos) : length <= Held - 2 /\ pos' = pos + 2 + length
    BY <1>9 DEF HandleGarbage
  <2>3. pos' \in Int /\ pos <= pos'
    BY SMTT(30), <2>2, <1>0, <1>t, Lengths DEF TypeOK
  <2>4. ~ LengthsWhole
    BY <1>0, <1>t, <2>1 DEF FramingKept
  <2> QED  BY <1>0, <1>2, <2>1, <2>3, <2>4 DEF HInv, WholeMessagesHandled
<1>10. CASE UNCHANGED vars
  <2>1. UNCHANGED <<pos, num_bytes_to_skip, received, cuts, handled>>
    BY <1>10 DEF vars, recvVars, orderVars
  <2>2. WholeMessagesHandled'
    BY <2>1, <1>2, <1>t, NothingNew DEF HInv
  <2> QED  BY <1>0, <1>2, <1>t, <2>1, <2>2 DEF HInv, SkipsCutMessage
<1> QED
  BY <1>1, <1>3, <1>4, <1>5, <1>6, <1>7, <1>8, <1>9, <1>10 DEF Next

-----------------------------------------------------------------------------
(* Snapshots.                                                              *)

\* order_count is what the messages handled leave over, and each snapshot was
\* taken at its message.
InStep ==
  LengthsWhole =>
    /\ Len(handled) = Len(published) * PUBLISH_THRESHOLD + order_count
    /\ \A k \in 1 .. Len(published) :
         k * PUBLISH_THRESHOLD <= Len(handled)
         /\ published[k] = handled[k * PUBLISH_THRESHOLD]

LEMMA InitInStep == Init => InStep
<1> SUFFICES ASSUME Init PROVE InStep
  OBVIOUS
<1>1. Len(handled) = 0 /\ Len(published) = 0 /\ order_count = 0
  BY DEF Init
<1> QED  BY <1>1, FramingAssumption DEF InStep

\* One more message, of which every PUBLISH_THRESHOLD-th is followed by a snapshot.
LEMMA CountInStep ==
  ASSUME TypeOK, NEW i \in Message, handled' = Append(handled, i), CountOrder(i),
         LengthsWhole' => LengthsWhole, InStep
  PROVE  InStep'
<1> SUFFICES ASSUME LengthsWhole' PROVE
      /\ Len(handled') = Len(published') * PUBLISH_THRESHOLD + order_count'
      /\ \A k \in 1 .. Len(published') :
           k * PUBLISH_THRESHOLD <= Len(handled')
           /\ published'[k] = handled'[k * PUBLISH_THRESHOLD]
  BY DEF InStep
<1> DEFINE T == PUBLISH_THRESHOLD
           n == Len(handled)
           p == Len(published)
<1>1. /\ T \in Nat \ {0} /\ n \in Nat /\ p \in Nat /\ order_count \in 0 .. T - 1
      /\ handled \in Seq(Message) /\ published \in Seq(Message \cup {0})
  BY FramingAssumption DEF TypeOK
<1>2. /\ n = p * T + order_count
      /\ \A k \in 1 .. p : k * T <= n /\ published[k] = handled[k * T]
  BY DEF InStep
<1>3. /\ Len(handled') = n + 1 /\ handled'[n + 1] = i
      /\ \A k \in 1 .. n : handled'[k] = handled[k]
  BY <1>1
<1>4. \A k \in 1 .. p : k * T \in 1 .. n
  <2> SUFFICES ASSUME NEW k \in 1 .. p PROVE k * T \in 1 .. n
    OBVIOUS
  <2>1. k * T <= n /\ k \in Nat \ {0}
    BY <1>1, <1>2
  <2>2. k * T \in Nat \ {0}
    BY <2>1, <1>1
  <2> QED  BY SMTT(30), <2>1, <2>2, <1>1
<1>5. \A k \in 1 .. p : k * T <= n + 1 /\ published[k] = handled'[k * T]
  BY <1>1, <1>2, <1>3, <1>4
<1>6. CASE order_count + 1 >= T
  <2>1. order_count' = 0 /\ published' = Append(published, i)
    BY <1>6 DEF CountOrder
  <2>2. /\ Len(published') = p + 1 /\ published'[p + 1] = i
        /\ \A k \in 1 .. p : published'[k] = published[k]
    BY <2>1, <1>1
  <2>3. order_count = T - 1
    BY <1>1, <1>6
  <2> HIDE DEF n, p, T
  <2>4. (p + 1) * T = n + 1
    BY <2>3, <1>1, <1>2
  <2>5. \A k \in 1 .. p + 1 : k * T <= n + 1 /\ published'[k] = handled'[k * T]
    <3> SUFFICES ASSUME NEW k \in 1 .. p + 1
                 PROVE  k * T <= n + 1 /\ published'[k] = handled'[k * T]
      OBVIOUS
    <3>1. CASE k \in 1 .. p
      BY <3>1, <2>2, <1>5
    <3>2. CASE k = p + 1
      BY <3>2, <2>2, <2>4, <1>1, <1>3
    <3>3. k \in 1 .. p \/ k = p + 1
      BY <1>1
    <3> QED  BY ONLY <3>1, <3>2, <3>3
  <2>6. n + 1 = (p + 1) * T + order_count'
    BY <2>1, <2>4, <1>1
  <2> QED  BY <2>2, <2>5, <2>6, <1>3 DEF T
<1>7. CASE order_count + 1 < T
  <2>1. order_count' = order_count + 1 /\ published' = published
    BY <1>1, <1>7 DEF CountOrder
  <2>2. n + 1 = p * T + order_count'
    <3> HIDE DEF n, p, T
    <3>1. PICK m \in Nat : m = p * T
      BY <1>1
    <3> QED  BY <2>1, <1>1, <1>2, <3>1
  <2> QED  BY <2>1, <2>2, <1>3, <1>5
<1> QED
  BY SMTT(30), <1>1, <1>6, <1>7

LEMMA StepInStep == IInv /\ InStep /\ [Next]_vars => InStep'
<1> SUFFICES ASSUME IInv, InStep, [Next]_vars PROVE InStep'
  OBVIOUS
<1>1. ASSUME UNCHANGED orderVars, LengthsWhole' => LengthsWhole PROVE InStep'
  BY <1>1 DEF orderVars, InStep
<1>2. CASE Recv
  BY <1>1, <1>2 DEF Recv, LengthsWhole
<1>3. CASE Disconnect \/ SkipPiece \/ SkipRest \/ DropByte \/ CutMessage
  BY <1>1, <1>3 DEF Disconnect, SkipPiece, SkipRest, DropByte, CutMessage, recvVars,
                    LengthsWhole
<1>4. CASE HandleMessage
  <2>1. PICK i \in Message : handled' = Append(handled, i) /\ CountOrder(i)
    BY <1>4 DEF HandleMessage
  <2>2. LengthsWhole' => LengthsWhole
    BY <1>4 DEF HandleMessage, recvVars, LengthsWhole
  <2> QED  BY <2>1, <2>2, CountInStep DEF IInv
<1>5. CASE HandleGarbage
  <2>1. num_bytes_to_skip = 0 /\ pos \notin Boundaries /\ cuts' = cuts
    BY <1>5 DEF HandleGarbage, recvVars
  <2>2. pos + num_bytes_to_skip = pos
    BY <2>1 DEF IInv, TypeOK
  <2>3. ~ LengthsWhole'
    BY <2>1, <2>2 DEF IInv, FramingKept, LengthsWhole
  <2> QED  BY <2>3 DEF InStep
<1>6. CASE UNCHANGED vars
  BY <1>1, <1>6 DEF vars, recvVars, LengthsWhole
<1> QED
  BY <1>2, <1>3, <1>4, <1>5, <1>6 DEF Next

LEMMA InStepPublishes == TypeOK /\ InStep => PublishesInStep
<1> SUFFICES ASSUME TypeOK, InStep, LengthsWhole
             PROVE  published = [k \in 1 .. Len(handled) \div PUBLISH_THRESHOLD |->
                                   handled[k * PUBLISH_THRESHOLD]]
  BY DEF PublishesInStep
<1> DEFINE T == PUBLISH_THRESHOLD
<1>1. /\ T \in Nat \ {0} /\ Len(published) \in Nat /\ order_count \in 0 .. T - 1
      /\ published = [k \in 1 .. Len(published) |-> published[k]]
  BY FramingAssumption DEF TypeOK
<1>2. /\ Len(handled) = Len(published) * T + order_count
      /\ \A k \in 1 .. Len(published) : published[k] = handled[k * T]
  BY DEF InStep
<1> HIDE DEF T
<1>3. Len(handled) \div T = Len(published)
  BY <1>1, <1>2, DivOfMultiple
<1>4. published = [k \in 1 .. Len(published) |-> handled[k * T]]
  BY <1>1, <1>2
<1> QED
  BY <1>3, <1>4 DEF T

-----------------------------------------------------------------------------

\* However the stream is cut, positions and counters keep their bounds.
THEOREM ClientTypeCorrect == Spec => []TypeOK
<1>1. IInv => TypeOK  BY DEF IInv
<1> QED  BY <1>1, InitInv, StepInv, PTL DEF Spec

\* For any feed and any pieces: only a piece that ends between the two bytes of a
\* length (test_tcp_client.py:56) makes the client lose the framing.
THEOREM FramingStays == Spec => []FramingKept
<1>1. IInv => FramingKept  BY DEF IInv
<1> QED  BY <1>1, InitInv, StepInv, PTL DEF Spec

\* For any feed and any pieces, as long as the lengths arrive whole: exactly the
\* messages that lay in one piece reach the book, in order and once.
THEOREM WholeMessagesReachBook == Spec => []WholeMessagesHandled
<1>1. HInv => WholeMessagesHandled  BY DEF HInv
<1> QED  BY <1>1, InitHandled, StepHandled, PTL DEF Spec

\* For any feed and any pieces, as long as the lengths arrive whole: a snapshot is
\* taken after every PUBLISH_THRESHOLD messages that reach the book, and at no
\* other time.
THEOREM SnapshotsInStep == Spec => []PublishesInStep
<1>1. Init => IInv /\ InStep
  BY InitInv, InitInStep
<1>2. (IInv /\ InStep) /\ [Next]_vars => (IInv /\ InStep)'
  BY StepInv, StepInStep
<1>3. IInv /\ InStep => PublishesInStep
  BY InStepPublishes DEF IInv
<1> QED  BY <1>1, <1>2, <1>3, PTL DEF Spec
=============================================================================
