------------------------ MODULE TradingPipelineProofs ------------------------
(***************************************************************************)
(* What TradingPipeline promises for any number of stocks, any sizes of    *)
(* the book's frames and of the order messages, any depth of the streams   *)
(* and any width of the counters: the program reads whole messages, and as *)
(* long as every weight is valid no two frames are ever mixed and the      *)
(* frames become messages as OrderPerFrame promises.                       *)
(***************************************************************************)
EXTENDS TradingPipeline, BasicLemmas, TLAPS

-----------------------------------------------------------------------------
(* The operators on words and streams.                                     *)

Origin == Frame \cup {Mixed}

\* The sizes are numbers, and a message has more than one word.
LEMMA Sizes ==
  /\ NumStocks \in Nat \ {0} /\ BookWords \in Nat \ {0} /\ OrderWords \in Nat \ {0}
  /\ StreamDepth \in Nat \ {0} /\ NumStocks * NumStocks \in Nat \ {0}
  /\ NumStocks * OrderWords \in Nat \ {0} /\ MessageWords \in Nat /\ MessageWords > 1
  /\ CounterSize \in Nat /\ CounterSize >= 3 /\ MaxFaults \in Nat
  <1>1. /\ NumStocks \in Nat \ {0} /\ BookWords \in Nat \ {0} /\ OrderWords \in Nat \ {0}
        /\ StreamDepth \in Nat \ {0} /\ CounterSize \in Nat /\ MaxFaults \in Nat
    BY SizeAssumption
  <1>2. CounterSize >= 3  BY SizeAssumption
  <1>3. NumStocks * NumStocks \in Nat \ {0}  BY <1>1
  <1>4. NumStocks * OrderWords \in Nat \ {0}  BY <1>1
  <1> QED  BY <1>1, <1>2, <1>3, <1>4 DEF MessageWords

\* What a message consists of.
LEMMA MessageFacts ==
  ASSUME NEW n \in Nat, NEW f \in Origin
  PROVE  /\ Message(n, f) \in Seq(Word) /\ Len(Message(n, f)) = n
         /\ \A i \in 1 .. n : Message(n, f)[i] = [frame |-> f, part |-> i, valid |-> TRUE]
  <1>1. \A i \in 1 .. n : [frame |-> f, part |-> i, valid |-> TRUE] \in Word
    BY DEF Word, Origin
  <1>2. Message(n, f) \in [1 .. n -> Word]  BY <1>1 DEF Message
  <1> QED  BY <1>2 DEF Message

LEMMA ToFacts ==
  ASSUME NEW s \in Streams, NEW w \in Seq(Word)
  PROVE  /\ To(s, w) \in Seq(Streams \X Word) /\ Len(To(s, w)) = Len(w)
         /\ \A i \in 1 .. Len(w) : To(s, w)[i] = <<s, w[i]>>
  <1>1. DOMAIN w = 1 .. Len(w) /\ Len(w) \in Nat /\ \A i \in 1 .. Len(w) : w[i] \in Word
    OBVIOUS
  <1>2. To(s, w) \in [1 .. Len(w) -> Streams \X Word]  BY <1>1 DEF To
  <1>3. To(s, w) = [i \in 1 .. Len(w) |-> <<s, w[i]>>]  BY <1>1 DEF To
  <1> QED  BY <1>1, <1>2, <1>3

LEMMA MessageToFacts ==
  ASSUME NEW n \in Nat, NEW f \in Origin, NEW s \in Streams
  PROVE  /\ To(s, Message(n, f)) \in Seq(Streams \X Word) /\ Len(To(s, Message(n, f))) = n
         /\ \A i \in 1 .. n : To(s, Message(n, f))[i]
                               = <<s, [frame |-> f, part |-> i, valid |-> TRUE]>>
  <1>1. /\ Message(n, f) \in Seq(Word) /\ Len(Message(n, f)) = n
        /\ \A i \in 1 .. n : Message(n, f)[i] = [frame |-> f, part |-> i, valid |-> TRUE]
    BY MessageFacts
  <1> DEFINE m == Message(n, f)
  <1> HIDE DEF m
  <1>2. m \in Seq(Word) /\ Len(m) = n
        /\ \A i \in 1 .. n : m[i] = [frame |-> f, part |-> i, valid |-> TRUE]
    BY <1>1 DEF m
  <1>3. /\ To(s, m) \in Seq(Streams \X Word) /\ Len(To(s, m)) = n
        /\ \A i \in 1 .. n : To(s, m)[i] = <<s, m[i]>>
    BY <1>2, ToFacts
  <1> QED  BY <1>2, <1>3 DEF m

LEMMA MessageToPort ==
  ASSUME NEW n \in Nat, NEW f \in Origin, NEW s \in Streams
  PROVE  /\ To(s, Message(n, f)) \in Seq(Streams \X Word)
         /\ \A i \in 1 .. Len(To(s, Message(n, f))) : To(s, Message(n, f))[i][1] = s
  <1> DEFINE t == To(s, Message(n, f))
  <1>1. /\ t \in Seq(Streams \X Word) /\ Len(t) = n
        /\ \A i \in 1 .. n : t[i] = <<s, [frame |-> f, part |-> i, valid |-> TRUE]>>
    BY MessageToFacts
  <1> HIDE DEF t
  <1>2. \A i \in 1 .. Len(t) : t[i][1] = s  BY <1>1
  <1> QED  BY <1>1, <1>2 DEF t

\* The words of a call have a frame, or are mixed.
LEMMA FrameOfFacts ==
  ASSUME NEW w \in Seq(Word), Len(w) >= 1
  PROVE  /\ FrameOf(w) \in Origin
         /\ \A f : (\A i \in 1 .. Len(w) : w[i].frame = f) => FrameOf(w) = f
  <1>1. DOMAIN w = 1 .. Len(w) /\ 1 \in 1 .. Len(w) /\ w[1] \in Word
    OBVIOUS
  <1>2. w[1].frame \in Origin  BY <1>1 DEF Word, Origin
  <1>3. FrameOf(w) \in Origin  BY <1>2 DEF FrameOf, Origin
  <1>4. ASSUME NEW f, \A i \in 1 .. Len(w) : w[i].frame = f
        PROVE  FrameOf(w) = f
    BY <1>1, <1>4 DEF FrameOf
  <1> QED  BY <1>3, <1>4

LEMMA FollowingFacts ==
  ASSUME NEW f \in Frame
  PROVE  Following(f) \in Frame /\ Following(f) = IF f = CounterSize - 1 THEN 0 ELSE f + 1
  <1>1. CounterSize \in Nat \ {0} /\ f \in Nat /\ f < CounterSize  BY Sizes DEF Frame
  <1>2. f % CounterSize = f  BY <1>1
  <1>3. (f + 1) % CounterSize = IF f = CounterSize - 1 THEN 0 ELSE f + 1
    BY <1>1, <1>2, ModNext
  <1> QED  BY <1>1, <1>3 DEF Following, Frame

-----------------------------------------------------------------------------
(* Types.                                                                  *)

LEMMA WordsFacts ==
  ASSUME TypeOK, NEW b \in Blocks, NEW s \in Streams, MayRead(b, s)
  PROVE  /\ Len(stream[s]) \in Nat /\ Len(stream[s]) >= 1
         /\ Head(stream[s]) = stream[s][1] /\ stream[s][1] \in Word
         /\ Words(b, s) \in Seq(Word) /\ Len(Words(b, s)) = Len(got[b]) + 1
         /\ Len(got[b]) \in Nat
         /\ \A i \in 1 .. Len(got[b]) : Words(b, s)[i] = got[b][i]
         /\ Words(b, s)[Len(got[b]) + 1] = stream[s][1]
         /\ Tail(stream[s]) \in Seq(Word) /\ Len(Tail(stream[s])) = Len(stream[s]) - 1
         /\ \A i \in 1 .. Len(stream[s]) - 1 : Tail(stream[s])[i] = stream[s][i + 1]
  <1>1. stream[s] \in Seq(Word) /\ stream[s] # <<>> /\ got[b] \in Seq(Word)
    BY DEF TypeOK, MayRead
  <1>2. /\ Len(stream[s]) \in Nat /\ Len(stream[s]) >= 1
        /\ Head(stream[s]) = stream[s][1] /\ stream[s][1] \in Word
        /\ Tail(stream[s]) \in Seq(Word) /\ Len(Tail(stream[s])) = Len(stream[s]) - 1
        /\ \A i \in 1 .. Len(stream[s]) - 1 : Tail(stream[s])[i] = stream[s][i + 1]
    BY <1>1
  <1>3. /\ Words(b, s) \in Seq(Word) /\ Len(Words(b, s)) = Len(got[b]) + 1
        /\ Len(got[b]) \in Nat
        /\ \A i \in 1 .. Len(got[b]) : Words(b, s)[i] = got[b][i]
        /\ Words(b, s)[Len(got[b]) + 1] = Head(stream[s])
    BY <1>1, <1>2 DEF Words
  <1> QED  BY <1>2, <1>3

LEMMA PullFacts ==
  ASSUME TypeOK, NEW b \in Blocks, NEW s \in Streams, MayRead(b, s), Pull(s)
  PROVE  /\ stream' \in [Streams -> Seq(Word)]
         /\ stream'[s] = Tail(stream[s])
         /\ \A t \in Streams \ {s} : stream'[t] = stream[t]
         /\ \A t \in Streams : Len(stream'[t]) <= StreamDepth
  <1>1. stream \in [Streams -> Seq(Word)] /\ \A t \in Streams : Len(stream[t]) <= StreamDepth
    BY DEF TypeOK
  <1>2. Tail(stream[s]) \in Seq(Word) /\ Len(Tail(stream[s])) = Len(stream[s]) - 1
        /\ Len(stream[s]) \in Nat
    BY WordsFacts
  <1>3. /\ stream' \in [Streams -> Seq(Word)] /\ stream'[s] = Tail(stream[s])
        /\ \A t \in Streams \ {s} : stream'[t] = stream[t]
    BY <1>1, <1>2 DEF Pull
  <1>4. ASSUME NEW t \in Streams PROVE Len(stream'[t]) <= StreamDepth
    BY <1>1, <1>2, <1>3, Sizes
  <1> QED  BY <1>3, <1>4

LEMMA ReadOnType ==
  ASSUME TypeOK, NEW b \in Blocks, NEW s \in Streams, NEW n, ReadOn(b, s, n)
  PROVE  TypeOK'
  <1>1. got \in [Blocks -> Seq(Word)] /\ Words(b, s) \in Seq(Word)
    BY WordsFacts DEF TypeOK, ReadOn
  <1>2. got' \in [Blocks -> Seq(Word)]  BY <1>1 DEF ReadOn
  <1> QED  BY <1>2, PullFacts DEF TypeOK, ReadOn

LEMMA ReadLastType ==
  ASSUME TypeOK, NEW b \in Blocks, NEW s \in Streams, NEW n,
         NEW w \in Seq(Streams \X Word), ReadLast(b, s, n, w)
  PROVE  /\ stream' \in [Streams -> Seq(Word)]
         /\ \A t \in Streams : Len(stream'[t]) <= StreamDepth
         /\ got' \in [Blocks -> Seq(Word)] /\ out' \in [Blocks -> Seq(Streams \X Word)]
  <1>1. <<>> \in Seq(Word)  OBVIOUS
  <1>2. got' \in [Blocks -> Seq(Word)] /\ out' \in [Blocks -> Seq(Streams \X Word)]
    BY <1>1 DEF TypeOK, ReadLast
  <1> QED  BY <1>2, PullFacts DEF ReadLast

\* The messages that the blocks write.
LEMMA WritesType ==
  ASSUME NEW f \in Origin, TypeOK
  PROVE  /\ PriceWrites(f) \in Seq(Streams \X Word)
         /\ MatrixWrites(f) \in Seq(Streams \X Word)
         /\ OrderWrites(f) \in Seq(Streams \X Word)
         /\ \A v \in [1 .. NumStocks -> BOOLEAN] :
              To("weights", [i \in 1 .. NumStocks |-> [frame |-> f, part |-> i, valid |-> v[i]]])
                \in Seq(Streams \X Word)
  <1>1. {"prices_cov", "prices_og", "matrix", "weights", "orders"} \subseteq Streams
    BY DEF Streams
  <1>2. /\ Message(NumStocks, f) \in Seq(Word) /\ Message(NumStocks * NumStocks, f) \in Seq(Word)
        /\ Message(MessageWords, f) \in Seq(Word)
    BY Sizes, MessageFacts
  <1>3. <<>> \in Seq(Streams \X Word)  OBVIOUS
  <1>4. PriceWrites(f) \in Seq(Streams \X Word)
    <2>1. /\ To("prices_cov", Message(NumStocks, f)) \in Seq(Streams \X Word)
          /\ To("prices_og", Message(NumStocks, f)) \in Seq(Streams \X Word)
      BY <1>1, <1>2, ToFacts
    <2> QED  BY <1>3, <2>1 DEF PriceWrites
  <1>5. MatrixWrites(f) \in Seq(Streams \X Word)
    BY <1>1, <1>2, <1>3, ToFacts DEF MatrixWrites
  <1>6. OrderWrites(f) \in Seq(Streams \X Word)
    BY <1>1, <1>2, ToFacts DEF OrderWrites
  <1>7. ASSUME NEW v \in [1 .. NumStocks -> BOOLEAN]
        PROVE  To("weights", [i \in 1 .. NumStocks |-> [frame |-> f, part |-> i, valid |-> v[i]]])
                 \in Seq(Streams \X Word)
    <2> DEFINE w == [i \in 1 .. NumStocks |-> [frame |-> f, part |-> i, valid |-> v[i]]]
    <2>1. \A i \in 1 .. NumStocks : [frame |-> f, part |-> i, valid |-> v[i]] \in Word
      BY DEF Word, Origin
    <2>2. w \in [1 .. NumStocks -> Word]  BY <2>1
    <2>3. w \in Seq(Word)  BY <2>2, Sizes
    <2> QED  BY <1>1, <2>3, ToFacts
  <1> QED  BY <1>4, <1>5, <1>6, <1>7

\* What a write moves.
LEMMA WriteFacts ==
  ASSUME TypeOK, NEW b \in Blocks, Write(b)
  PROVE  /\ out[b] # <<>> /\ Len(out[b]) \in Nat /\ Len(out[b]) >= 1
         /\ out[b][1] \in Streams \X Word /\ out[b][1][1] \in Streams
         /\ out'[b] = Tail(out[b]) /\ \A c \in Blocks \ {b} : out'[c] = out[c]
         /\ Len(out'[b]) = Len(out[b]) - 1
         /\ \A i \in 1 .. Len(out[b]) - 1 : out'[b][i] = out[b][i + 1]
         /\ stream'[out[b][1][1]] = Append(stream[out[b][1][1]], out[b][1][2])
         /\ \A t \in Streams \ {out[b][1][1]} : stream'[t] = stream[t]
         /\ UNCHANGED <<got, num_updates, published, ordered, faults>>
         /\ TypeOK'
  <1> DEFINE s == Head(out[b])[1]
             w == Head(out[b])[2]
  <1>1. out \in [Blocks -> Seq(Streams \X Word)] /\ stream \in [Streams -> Seq(Word)]
    BY DEF TypeOK
  <1>2. /\ out[b] # <<>> /\ Len(out[b]) \in Nat /\ Len(out[b]) >= 1
        /\ Head(out[b]) = out[b][1] /\ out[b][1] \in Streams \X Word
        /\ Tail(out[b]) \in Seq(Streams \X Word) /\ Len(Tail(out[b])) = Len(out[b]) - 1
        /\ \A i \in 1 .. Len(out[b]) - 1 : Tail(out[b])[i] = out[b][i + 1]
    <2>1. out[b] # <<>> /\ out[b] \in Seq(Streams \X Word)  BY <1>1 DEF Write
    <2> QED  BY <2>1
  <1>3. s = out[b][1][1] /\ w = out[b][1][2] /\ s \in Streams /\ w \in Word
    BY <1>2
  <1>4. /\ Len(stream[s]) < StreamDepth /\ stream' = [stream EXCEPT ![s] = Append(@, w)]
        /\ out' = [out EXCEPT ![b] = Tail(@)]
        /\ UNCHANGED <<got, num_updates, published, ordered, faults>>
    BY DEF Write
  <1> HIDE DEF s, w
  <1>5. Append(stream[s], w) \in Seq(Word) /\ Len(Append(stream[s], w)) = Len(stream[s]) + 1
        /\ Len(stream[s]) \in Nat
    BY <1>1, <1>3
  <1>6. /\ stream' \in [Streams -> Seq(Word)] /\ stream'[s] = Append(stream[s], w)
        /\ \A t \in Streams \ {s} : stream'[t] = stream[t]
    BY <1>1, <1>3, <1>4, <1>5
  <1>7. /\ out' \in [Blocks -> Seq(Streams \X Word)] /\ out'[b] = Tail(out[b])
        /\ \A c \in Blocks \ {b} : out'[c] = out[c]
    BY <1>1, <1>2, <1>4
  <1>8. \A t \in Streams : Len(stream'[t]) <= StreamDepth
    <2>1. \A t \in Streams : Len(stream[t]) <= StreamDepth  BY DEF TypeOK
    <2> QED  BY <1>4, <1>5, <1>6, <2>1, Sizes
  <1>9. TypeOK'  BY <1>4, <1>6, <1>7, <1>8 DEF TypeOK
  <1> QED  BY <1>2, <1>3, <1>4, <1>6, <1>7, <1>9

\* The streams that a block writes to.
Target == [b \in Blocks |->
  IF b = "book" THEN {"frames"}
  ELSE IF b = "ta_parser" THEN {"prices_cov", "prices_og"}
  ELSE IF b = "cov_update" THEN {"matrix"}
  ELSE IF b = "qr_decomp" THEN {"weights"}
  ELSE IF b = "order_gen" THEN {"orders"} ELSE {}]

Ports == \A b \in Blocks : \A i \in 1 .. Len(out[b]) : out[b][i][1] \in Target[b]

LEMMA WritesTargets ==
  ASSUME NEW f \in Origin
  PROVE  /\ \A i \in 1 .. Len(PriceWrites(f)) :
              PriceWrites(f)[i][1] \in {"prices_cov", "prices_og"}
         /\ \A i \in 1 .. Len(MatrixWrites(f)) : MatrixWrites(f)[i][1] = "matrix"
         /\ Len(OrderWrites(f)) = MessageWords
         /\ \A i \in 1 .. MessageWords :
              OrderWrites(f)[i] = <<"orders", [frame |-> f, part |-> i, valid |-> TRUE]>>
  <1>1. {"prices_cov", "prices_og", "matrix", "weights", "orders"} \subseteq Streams
    BY DEF Streams
  <1>2. \A i \in 1 .. Len(PriceWrites(f)) :
          PriceWrites(f)[i][1] \in {"prices_cov", "prices_og"}
    <2> DEFINE c == To("prices_cov", Message(NumStocks, f))
               g == To("prices_og", Message(NumStocks, f))
    <2>1. /\ c \in Seq(Streams \X Word) /\ \A i \in 1 .. Len(c) : c[i][1] = "prices_cov"
          /\ g \in Seq(Streams \X Word) /\ \A i \in 1 .. Len(g) : g[i][1] = "prices_og"
      <3>1. NumStocks \in Nat /\ "prices_cov" \in Streams /\ "prices_og" \in Streams
        BY <1>1, Sizes
      <3> QED  BY <3>1, MessageToPort
    <2>2. PriceWrites(f) = c \o IF num_updates["ta_parser"] > 0 THEN g ELSE <<>>
      BY DEF PriceWrites
    <2> HIDE DEF c, g
    <2> QED  BY <2>1, <2>2
  <1>3. \A i \in 1 .. Len(MatrixWrites(f)) : MatrixWrites(f)[i][1] = "matrix"
    <2> DEFINE m == To("matrix", Message(NumStocks * NumStocks, f))
    <2>1. NumStocks * NumStocks \in Nat /\ "matrix" \in Streams  BY <1>1, Sizes
    <2>2. \A i \in 1 .. Len(m) : m[i][1] = "matrix"  BY <2>1, MessageToPort
    <2>3. MatrixWrites(f) = <<>> \/ MatrixWrites(f) = m  BY DEF MatrixWrites
    <2> HIDE DEF m
    <2> QED  BY <2>2, <2>3
  <1>4. /\ Len(OrderWrites(f)) = MessageWords
        /\ \A i \in 1 .. MessageWords :
             OrderWrites(f)[i] = <<"orders", [frame |-> f, part |-> i, valid |-> TRUE]>>
    <2>1. MessageWords \in Nat  BY Sizes
    <2>2. "orders" \in Streams  BY <1>1
    <2>3. /\ Len(To("orders", Message(MessageWords, f))) = MessageWords
          /\ \A i \in 1 .. MessageWords : To("orders", Message(MessageWords, f))[i]
                                        = <<"orders", [frame |-> f, part |-> i, valid |-> TRUE]>>
      BY <2>1, <2>2, MessageToFacts, ZenonT(60)
    <2>4. OrderWrites(f) = To("orders", Message(MessageWords, f))  BY DEF OrderWrites
    <2> QED  BY <2>3, <2>4, ZenonT(60)
  <1> QED  BY <1>2, <1>3, <1>4

\* An action is a publication, a read of a block or a write of a block.
LEMMA StepTypes ==
  ASSUME TypeOK, Ports, Next
  PROVE  TypeOK' /\ Ports'
  <1>1. CASE publish
    <2> DEFINE w == To("frames", Message(BookWords, published))
    <2>1. published \in Frame /\ Following(published) \in Frame
      BY FollowingFacts DEF TypeOK
    <2>2. w \in Seq(Streams \X Word) /\ \A i \in 1 .. Len(w) : w[i][1] = "frames"
      <3>1. BookWords \in Nat /\ "frames" \in Streams /\ published \in Origin
        BY <2>1, Sizes DEF Streams, Origin
      <3> QED  BY <3>1, MessageToPort
    <2>3. /\ out' = [out EXCEPT !["book"] = w] /\ published' = Following(published)
          /\ UNCHANGED <<stream, got, num_updates, ordered, faults>>
      BY <1>1 DEF publish
    <2> HIDE DEF w
    <2>4. out' \in [Blocks -> Seq(Streams \X Word)]  BY <2>2, <2>3 DEF TypeOK
    <2>5. TypeOK'  BY <2>1, <2>3, <2>4 DEF TypeOK
    <2>6. Ports'  BY <2>2, <2>3 DEF TypeOK, Ports, Target, Blocks
    <2> QED  BY <2>5, <2>6
  <1>2. ASSUME NEW b \in Blocks, NEW s \in Streams, NEW n, ReadOn(b, s, n)
        PROVE  TypeOK' /\ Ports'
    <2>1. TypeOK'  BY <1>2, ReadOnType
    <2>2. Ports'  BY <1>2 DEF ReadOn, Ports
    <2> QED  BY <2>1, <2>2
  <1>3. ASSUME NEW b \in Blocks, NEW s \in Streams, NEW n,
               NEW w \in Seq(Streams \X Word), ReadLast(b, s, n, w),
               \A i \in 1 .. Len(w) : w[i][1] \in Target[b]
        PROVE  /\ Ports'
               /\ stream' \in [Streams -> Seq(Word)]
               /\ \A t \in Streams : Len(stream'[t]) <= StreamDepth
               /\ got' \in [Blocks -> Seq(Word)] /\ out' \in [Blocks -> Seq(Streams \X Word)]
    BY <1>3, ReadLastType DEF ReadLast, Ports, TypeOK
  <1>4. ASSUME NEW b \in Blocks, NEW s \in Streams, MayRead(b, s)
        PROVE  FrameOf(Words(b, s)) \in Origin
    BY <1>4, WordsFacts, FrameOfFacts
  <1>5. CASE ta_parser
    <2> DEFINE f == FrameOf(Words("ta_parser", "frames"))
    <2>1. CASE ReadOn("ta_parser", "frames", BookWords)
      BY <1>2, <2>1 DEF Blocks, Streams
    <2>2. CASE /\ ReadLast("ta_parser", "frames", BookWords, PriceWrites(f))
               /\ num_updates' = [num_updates EXCEPT !["ta_parser"] = Following(@)]
               /\ UNCHANGED <<published, ordered, faults>>
      <3>1. f \in Origin  BY <1>4, <2>2 DEF ReadLast, Blocks, Streams
      <3> HIDE DEF f
      <3>2. PriceWrites(f) \in Seq(Streams \X Word)
            /\ \A i \in 1 .. Len(PriceWrites(f)) : PriceWrites(f)[i][1] \in Target["ta_parser"]
        BY <3>1, WritesType, WritesTargets DEF Target, Blocks
      <3>3. num_updates' \in [{"ta_parser", "cov_update"} -> Frame]
        BY <2>2, FollowingFacts DEF TypeOK
      <3> QED  BY <1>3, <2>2, <3>2, <3>3 DEF TypeOK, Blocks, Streams
    <2> QED  BY <1>5, <2>1, <2>2 DEF ta_parser
  <1>6. CASE cov_update
    <2> DEFINE f == FrameOf(Words("cov_update", "prices_cov"))
    <2>1. CASE ReadOn("cov_update", "prices_cov", NumStocks)
      BY <1>2, <2>1 DEF Blocks, Streams
    <2>2. CASE /\ ReadLast("cov_update", "prices_cov", NumStocks, MatrixWrites(f))
               /\ num_updates' = [num_updates EXCEPT !["cov_update"] = Following(@)]
               /\ UNCHANGED <<published, ordered, faults>>
      <3>1. f \in Origin  BY <1>4, <2>2 DEF ReadLast, Blocks, Streams
      <3> HIDE DEF f
      <3>2. MatrixWrites(f) \in Seq(Streams \X Word)
            /\ \A i \in 1 .. Len(MatrixWrites(f)) : MatrixWrites(f)[i][1] \in Target["cov_update"]
        BY <3>1, WritesType, WritesTargets DEF Target, Blocks
      <3>3. num_updates' \in [{"ta_parser", "cov_update"} -> Frame]
        BY <2>2, FollowingFacts DEF TypeOK
      <3> QED  BY <1>3, <2>2, <3>2, <3>3 DEF TypeOK, Blocks, Streams
    <2> QED  BY <1>6, <2>1, <2>2 DEF cov_update
  <1>7. CASE qr_decomp
    <2> DEFINE f == FrameOf(Words("qr_decomp", "matrix"))
               m(v) == [i \in 1 .. NumStocks |-> [frame |-> f, part |-> i, valid |-> v[i]]]
               n == NumStocks * NumStocks
    <2>1. CASE ReadOn("qr_decomp", "matrix", n)
      BY <1>2, <2>1 DEF Blocks, Streams
    <2>2. ASSUME NEW v \in [1 .. NumStocks -> BOOLEAN],
                 ReadLast("qr_decomp", "matrix", n, To("weights", m(v))),
                 (\E i \in 1 .. NumStocks : ~ v[i]) => faults < MaxFaults,
                 faults' = IF \E i \in 1 .. NumStocks : ~ v[i] THEN faults + 1 ELSE faults,
                 UNCHANGED <<num_updates, published, ordered>>
          PROVE  TypeOK' /\ Ports'
      <3> HIDE DEF n
      <3>1. f \in Origin  BY <1>4, <2>2 DEF ReadLast, Blocks, Streams
      <3>2. To("weights", m(v)) \in Seq(Streams \X Word)  BY <3>1, WritesType
      <3>3. m(v) \in Seq(Word)
        <4> HIDE DEF f
        <4>1. \A i \in 1 .. NumStocks : [frame |-> f, part |-> i, valid |-> v[i]] \in Word
          BY <3>1 DEF Word, Origin
        <4>2. m(v) \in [1 .. NumStocks -> Word]  BY <4>1
        <4> QED  BY <4>2, Sizes
      <3>4. \A i \in 1 .. Len(To("weights", m(v))) :
              To("weights", m(v))[i][1] \in Target["qr_decomp"]
        <4> HIDE DEF m
        <4> QED  BY <3>3, ToFacts DEF Target, Blocks, Streams
      <3>5. faults' \in 0 .. MaxFaults
        <4>1. faults \in 0 .. MaxFaults /\ MaxFaults \in Nat  BY Sizes DEF TypeOK
        <4> QED  BY <2>2, <4>1
      <3> DEFINE w == To("weights", m(v))
      <3> HIDE DEF w
      <3>6. /\ w \in Seq(Streams \X Word)
            /\ \A i \in 1 .. Len(w) : w[i][1] \in Target["qr_decomp"]
            /\ ReadLast("qr_decomp", "matrix", n, w)
        BY <2>2, <3>2, <3>4 DEF w
      <3>7. /\ Ports' /\ stream' \in [Streams -> Seq(Word)]
            /\ \A t \in Streams : Len(stream'[t]) <= StreamDepth
            /\ got' \in [Blocks -> Seq(Word)] /\ out' \in [Blocks -> Seq(Streams \X Word)]
        <4>1. "qr_decomp" \in Blocks /\ "matrix" \in Streams  BY DEF Blocks, Streams
        <4> QED  BY <1>3, <3>6, <4>1
      <3>8. UNCHANGED <<num_updates, published, ordered>>  BY <2>2
      <3> QED  BY <3>5, <3>7, <3>8 DEF TypeOK
    <2> QED  BY <1>7, <2>1, <2>2 DEF qr_decomp
  <1>8. CASE order_gen
    <2> DEFINE f == FrameOf(Words("order_gen", "weights"))
    <2>1. ASSUME NEW s \in {"prices_og", "weights"}, ReadOn("order_gen", s, 2 * NumStocks)
          PROVE  TypeOK' /\ Ports'
      BY <1>2, <2>1 DEF Blocks, Streams
    <2>2. CASE /\ ReadLast("order_gen", "weights", 2 * NumStocks, OrderWrites(f))
               /\ UNCHANGED <<num_updates, published, ordered, faults>>
      <3>1. f \in Origin  BY <1>4, <2>2 DEF ReadLast, Blocks, Streams
      <3> HIDE DEF f
      <3>2. OrderWrites(f) \in Seq(Streams \X Word)
            /\ \A i \in 1 .. Len(OrderWrites(f)) : OrderWrites(f)[i][1] \in Target["order_gen"]
        <4>1. \A i \in 1 .. Len(OrderWrites(f)) : OrderWrites(f)[i][1] = "orders"
          <5>1. MessageWords \in Nat /\ "orders" \in Streams  BY Sizes DEF Streams
          <5> QED  BY <3>1, <5>1, MessageToPort DEF OrderWrites
        <4> QED  BY <3>1, <4>1, WritesType DEF Target, Blocks
      <3> QED  BY <1>3, <2>2, <3>2 DEF TypeOK, Blocks, Streams
    <2>3. CASE /\ MayRead("order_gen", "weights") /\ Pull("weights")
               /\ got' = [got EXCEPT !["order_gen"] = <<>>]
               /\ UNCHANGED <<out, num_updates, published, ordered, faults>>
      <3>1. <<>> \in Seq(Word)  OBVIOUS
      <3>2. got' \in [Blocks -> Seq(Word)]  BY <2>3, <3>1 DEF TypeOK
      <3>3. Ports'  BY <2>3 DEF Ports
      <3> QED  BY <2>3, <3>2, <3>3, PullFacts DEF TypeOK, Blocks, Streams
    <2> QED  BY <1>8, <2>1, <2>2, <2>3 DEF order_gen
  <1>9. CASE mb
    <2> DEFINE f == FrameOf(Words("mb", "orders"))
    <2>1. CASE ReadOn("mb", "orders", MessageWords)
      BY <1>2, <2>1 DEF Blocks, Streams
    <2>2. CASE /\ ReadLast("mb", "orders", MessageWords, <<>>)
               /\ ordered' = f /\ UNCHANGED <<num_updates, published, faults>>
      <3>1. f \in Origin  BY <1>4, <2>2 DEF ReadLast, Blocks, Streams
      <3>2. <<>> \in Seq(Streams \X Word) /\ \A i \in 1 .. Len(<<>>) : <<>>[i][1] \in Target["mb"]
        OBVIOUS
      <3> HIDE DEF f
      <3> QED  BY <1>3, <2>2, <3>1, <3>2 DEF TypeOK, Blocks, Streams, Origin
    <2> QED  BY <1>9, <2>1, <2>2 DEF mb
  <1>10. ASSUME NEW b \in Blocks, Write(b)
         PROVE  TypeOK' /\ Ports'
    <2>1. TypeOK'  BY <1>10, WriteFacts
    <2>2. ASSUME NEW d \in Blocks, NEW i \in 1 .. Len(out'[d])
          PROVE  out'[d][i][1] \in Target[d]
      <3>1. CASE d # b
        BY <1>10, <2>2, <3>1, WriteFacts DEF Ports
      <3>2. CASE d = b
        <4>1. /\ Len(out[b]) >= 1 /\ Len(out'[b]) = Len(out[b]) - 1
              /\ out'[b][i] = out[b][i + 1]
          BY <1>10, <2>2, <3>2, WriteFacts
        <4>2. i + 1 \in 1 .. Len(out[b])  BY <2>2, <3>2, <4>1
        <4> QED  BY <3>2, <4>1, <4>2 DEF Ports
      <3> QED  BY <3>1, <3>2
    <2> QED  BY <2>1, <2>2 DEF Ports
  <1> QED  BY <1>1, <1>5, <1>6, <1>7, <1>8, <1>9, <1>10 DEF Next

LEMMA InitTypes == Init => TypeOK /\ Ports
  <1> SUFFICES ASSUME Init PROVE TypeOK /\ Ports
    OBVIOUS
  <1>1. <<>> \in Seq(Word) /\ <<>> \in Seq(Streams \X Word) /\ Len(<<>>) = 0
    OBVIOUS
  <1>2. 0 \in Frame  BY Sizes DEF Frame
  <1>3. TypeOK  BY <1>1, <1>2, Sizes DEF Init, TypeOK
  <1>4. Ports  BY <1>1 DEF Init, Ports
  <1> QED  BY <1>3, <1>4

\* Every step keeps the types, and a block's writes go to its own streams.
THEOREM TypesAndPorts == Spec => [](TypeOK /\ Ports)
  <1>1. TypeOK /\ Ports /\ [Next]_vars => (TypeOK /\ Ports)'
    <2>1. ASSUME TypeOK, Ports, UNCHANGED vars PROVE (TypeOK /\ Ports)'
      BY <2>1 DEF vars, TypeOK, Ports
    <2> QED  BY <2>1, StepTypes
  <1> QED  BY <1>1, InitTypes, PTL DEF Spec

\* The streams, the calls under way and the counters of the blocks keep their types.
THEOREM PipelineTyped == Spec => []TypeOK
  <1> QED  BY TypesAndPorts, PTL

-----------------------------------------------------------------------------
(* The messages of order_gen, counted from the last one that was complete. *)

\* What mb has read, g, what is in the stream, q, and what order_gen has still to
\* write, o, are together whole messages, and every word has the place that its
\* distance from the reader gives it.
WholeWords(g, q, o) ==
  /\ Len(g) < MessageWords
  /\ \A i \in 1 .. Len(g) : g[i].part = i
  /\ \A i \in 1 .. Len(q) : q[i].part = ((Len(g) + i - 1) % MessageWords) + 1
  /\ Len(o) <= MessageWords
  /\ \A i \in 1 .. Len(o) : o[i][2].part = MessageWords - Len(o) + i
  /\ (Len(g) + Len(q) + Len(o)) % MessageWords = 0

Whole == WholeWords(got["mb"], stream["orders"], out["order_gen"])

\* The arithmetic of a complete message.
LEMMA MessageEnds ==
  ASSUME NEW M \in Nat \ {0}, NEW a \in Nat, a + 1 = M, NEW i \in Nat \ {0}
  PROVE  (a + (i + 1) - 1) % M = (0 + i - 1) % M
  <1>1. PICK y \in Nat : y = 0 + i - 1  OBVIOUS
  <1>2. a + (i + 1) - 1 = y + M  BY <1>1
  <1>3. (y + M) % M = y % M  BY ModShift
  <1> QED  BY <1>1, <1>2, <1>3

\* One whole message more leaves the remainder at 0.
LEMMA MessageBegins ==
  ASSUME NEW M \in Nat \ {0}, NEW a \in Nat, NEW b \in Nat, (a + b + 0) % M = 0
  PROVE  (a + b + M) % M = 0
  <1>1. PICK x \in Nat : x = a + b  OBVIOUS
  <1>2. (x + M) % M = x % M  BY ModShift
  <1> QED  BY <1>1, <1>2

IsRest(t, s) == Len(t) = Len(s) - 1 /\ \A i \in 1 .. Len(t) : t[i] = s[i + 1]

\* mb takes a word, and the message is complete or not.
LEMMA WholeRead ==
  ASSUME NEW g \in Seq(Word), NEW q \in Seq(Word), NEW o \in Seq(Streams \X Word),
         WholeWords(g, q, o), Len(q) >= 1, NEW t \in Seq(Word), IsRest(t, q)
  PROVE  /\ q[1].part = Len(g) + 1
         /\ \A h \in Seq(Word) :
              /\ Len(h) = Len(g) + 1 /\ Len(h) < MessageWords
              /\ \A i \in 1 .. Len(g) : h[i] = g[i]
              /\ h[Len(g) + 1] = q[1]
              => WholeWords(h, t, o)
         /\ Len(g) + 1 = MessageWords => WholeWords(<<>>, t, o)
  <1> DEFINE M == MessageWords
  <1>1. /\ Len(g) \in Nat /\ Len(q) \in Nat /\ Len(o) \in Nat /\ Len(t) \in Nat
        /\ M \in Nat \ {0} /\ M > 1
    BY Sizes
  <1>0. Len(t) = Len(q) - 1 /\ \A i \in 1 .. Len(t) : t[i] = q[i + 1]  BY DEF IsRest
  <1>2. /\ Len(g) < M /\ Len(o) <= M /\ (Len(g) + Len(q) + Len(o)) % M = 0
        /\ \A i \in 1 .. Len(g) : g[i].part = i
        /\ \A i \in 1 .. Len(q) : q[i].part = ((Len(g) + i - 1) % M) + 1
        /\ \A i \in 1 .. Len(o) : o[i][2].part = M - Len(o) + i
    BY DEF WholeWords
  <1> HIDE DEF M
  <1>3. q[1].part = Len(g) + 1
    <2>1. q[1].part = ((Len(g) + 1 - 1) % M) + 1  BY <1>1, <1>2
    <2>2. Len(g) + 1 - 1 = Len(g)  BY <1>1
    <2>3. Len(g) % M = Len(g)  BY <1>1, <1>2, ModOfSmall
    <2> QED  BY <2>1, <2>2, <2>3
  <1>4. ASSUME NEW h \in Seq(Word), Len(h) = Len(g) + 1, Len(h) < M,
               \A i \in 1 .. Len(g) : h[i] = g[i], h[Len(g) + 1] = q[1]
        PROVE  WholeWords(h, t, o)
    <2>1. ASSUME NEW i \in 1 .. Len(h) PROVE h[i].part = i
      <3>1. i = Len(g) + 1 \/ i \in 1 .. Len(g)  BY <1>1, <1>4
      <3> QED  BY <1>2, <1>3, <1>4, <3>1
    <2>2. ASSUME NEW i \in 1 .. Len(t) PROVE t[i].part = ((Len(h) + i - 1) % M) + 1
      <3>1. /\ i + 1 \in 1 .. Len(q) /\ Len(h) + i - 1 = Len(g) + (i + 1) - 1
            /\ t[i] = q[i + 1]
        BY <1>0, <1>1, <1>4
      <3>2. q[i + 1].part = ((Len(g) + (i + 1) - 1) % M) + 1  BY <1>2, <3>1
      <3> QED  BY <3>1, <3>2
    <2>3. Len(h) + Len(t) + Len(o) = Len(g) + Len(q) + Len(o)  BY <1>0, <1>1, <1>4
    <2> QED  BY <1>2, <1>4, <2>1, <2>2, <2>3 DEF WholeWords, M
  <1>5. ASSUME Len(g) + 1 = M PROVE WholeWords(<<>>, t, o)
    <2>1. ASSUME NEW i \in 1 .. Len(t) PROVE t[i].part = ((0 + i - 1) % M) + 1
      <3>1. i + 1 \in 1 .. Len(q) /\ i \in Nat \ {0} /\ t[i] = q[i + 1]  BY <1>0, <1>1
      <3>2. q[i + 1].part = ((Len(g) + (i + 1) - 1) % M) + 1  BY <1>2, <3>1
      <3>3. (Len(g) + (i + 1) - 1) % M = (0 + i - 1) % M
        BY <1>1, <1>5, <3>1, MessageEnds
      <3> QED  BY <3>1, <3>2, <3>3
    <2>2. (0 + Len(t) + Len(o)) % M = 0
      <3>1. Len(q) = Len(t) + 1  BY <1>0, <1>1
      <3>2. (Len(g) + (Len(t) + 1) + Len(o)) % M = 0  BY <1>2, <3>1
      <3>3. PICK a \in Nat, b \in Nat, c \in Nat : a = Len(g) /\ b = Len(t) /\ c = Len(o)
        BY <1>1
      <3>4. (a + (b + 1) + c) % M = 0 /\ a + 1 = M  BY <1>5, <3>2, <3>3
      <3>5. PICK x \in Nat : x = 0 + b + c  OBVIOUS
      <3>6. (x + M) % M = 0 /\ (x + M) % M = x % M
        <4>1. a + (b + 1) + c = x + M  BY <1>1, <3>4, <3>5
        <4> QED  BY <1>1, <3>4, <4>1, ModShift
      <3> QED  BY <3>3, <3>5, <3>6
    <2>3. Len(<<>>) = 0 /\ \A i \in 1 .. 0 : <<>>[i].part = i  OBVIOUS
    <2> QED  BY <1>1, <1>2, <2>1, <2>2, <2>3 DEF WholeWords, M
  <1> QED  BY <1>3, <1>4, <1>5 DEF M

\* order_gen writes a word, or begins a message.
LEMMA WholeWrite ==
  ASSUME NEW g \in Seq(Word), NEW q \in Seq(Word), NEW o \in Seq(Streams \X Word),
         WholeWords(g, q, o)
  PROVE  /\ \A t \in Seq(Streams \X Word) :
              /\ Len(o) >= 1 /\ Len(t) = Len(o) - 1
              /\ \A i \in 1 .. Len(t) : t[i] = o[i + 1]
              => WholeWords(g, Append(q, o[1][2]), t)
         /\ \A w \in Seq(Streams \X Word) :
              /\ Len(o) = 0 /\ Len(w) = MessageWords
              /\ \A i \in 1 .. MessageWords : w[i][2].part = i
              => WholeWords(g, q, w)
  <1> DEFINE M == MessageWords
  <1>1. /\ Len(g) \in Nat /\ Len(q) \in Nat /\ Len(o) \in Nat
        /\ M \in Nat \ {0} /\ M > 1
    BY Sizes
  <1>2. /\ Len(g) < M /\ Len(o) <= M /\ (Len(g) + Len(q) + Len(o)) % M = 0
        /\ \A i \in 1 .. Len(g) : g[i].part = i
        /\ \A i \in 1 .. Len(q) : q[i].part = ((Len(g) + i - 1) % M) + 1
        /\ \A i \in 1 .. Len(o) : o[i][2].part = M - Len(o) + i
    BY DEF WholeWords
  <1> HIDE DEF M
  <1>3. PICK x \in Nat : x = Len(g) + Len(q)  BY <1>1
  <1>4. ASSUME NEW t \in Seq(Streams \X Word), Len(o) >= 1, Len(t) = Len(o) - 1,
               \A i \in 1 .. Len(t) : t[i] = o[i + 1]
        PROVE  WholeWords(g, Append(q, o[1][2]), t)
    <2> DEFINE p == Append(q, o[1][2])
    <2>1. Len(p) = Len(q) + 1 /\ p[Len(q) + 1] = o[1][2]
          /\ \A i \in 1 .. Len(q) : p[i] = q[i]
      <3>1. o[1] \in Streams \X Word  BY <1>1, <1>4
      <3>2. o[1][2] \in Word  BY <3>1
      <3> QED  BY <3>2
    <2> HIDE DEF p
    <2>2. o[1][2].part = (x % M) + 1
      <3>1. o[1][2].part = M - Len(o) + 1  BY <1>1, <1>2, <1>4
      <3>2. Len(o) \in 1 .. M /\ (x + Len(o)) % M = 0  BY <1>1, <1>2, <1>3, <1>4
      <3>3. x % M = M - Len(o)  BY <1>1, <3>2, ModRest
      <3> QED  BY <3>1, <3>3
    <2>3. ASSUME NEW i \in 1 .. Len(t) PROVE t[i][2].part = M - Len(t) + i
      <3>1. i + 1 \in 1 .. Len(o) /\ t[i] = o[i + 1]  BY <1>1, <1>4
      <3>2. o[i + 1][2].part = M - Len(o) + (i + 1)  BY <1>2, <3>1
      <3>3. M - Len(o) + (i + 1) = M - Len(t) + i  BY <1>1, <1>4
      <3> QED  BY <3>1, <3>2, <3>3
    <2>4. Len(g) + Len(p) + Len(t) = Len(g) + Len(q) + Len(o) /\ Len(t) <= M
      BY <1>1, <1>2, <1>4, <2>1
    <2>5. ASSUME NEW i \in 1 .. Len(p) PROVE p[i].part = ((Len(g) + i - 1) % M) + 1
      <3>1. CASE i \in 1 .. Len(q)  BY <1>2, <2>1, <3>1
      <3>2. CASE i = Len(q) + 1
        <4>1. Len(g) + i - 1 = x  BY <1>1, <1>3, <3>2
        <4> QED  BY <2>1, <2>2, <3>2, <4>1
      <3> QED  BY <1>1, <2>1, <3>1, <3>2
    <2> QED  BY <1>2, <2>3, <2>4, <2>5 DEF WholeWords, M, p
  <1>5. ASSUME NEW w \in Seq(Streams \X Word), Len(o) = 0, Len(w) = M,
               \A i \in 1 .. M : w[i][2].part = i
        PROVE  WholeWords(g, q, w)
    <2>1. (Len(g) + Len(q) + 0) % M = 0  BY <1>2, <1>5
    <2>2. (Len(g) + Len(q) + M) % M = 0  BY <1>1, <2>1, MessageBegins
    <2>3. \A i \in 1 .. M : w[i][2].part = M - M + i  BY <1>1, <1>5
    <2> QED  BY <1>1, <1>2, <1>5, <2>1, <2>2, <2>3 DEF WholeWords, M
  <1> QED  BY <1>4, <1>5 DEF M

LEMMA WholeStep ==
  ASSUME TypeOK, Ports, Whole, Next
  PROVE  Whole'
  <1>1. /\ "mb" \in Blocks /\ "order_gen" \in Blocks /\ "orders" \in Streams
    BY DEF Blocks, Streams
  <1>2. /\ got["mb"] \in Seq(Word) /\ stream["orders"] \in Seq(Word)
        /\ out["order_gen"] \in Seq(Streams \X Word)
        /\ WholeWords(got["mb"], stream["orders"], out["order_gen"])
    BY <1>1 DEF TypeOK, Whole
  <1>3. TypeOK'  BY StepTypes
  <1>4. CASE publish \/ ta_parser \/ cov_update \/ qr_decomp
    <2>1. /\ got'["mb"] = got["mb"] /\ stream'["orders"] = stream["orders"]
          /\ out'["order_gen"] = out["order_gen"]
      BY <1>4 DEF publish, ta_parser, cov_update, qr_decomp, ReadOn, ReadLast, Pull,
                  TypeOK, Blocks, Streams
    <2> QED  BY <2>1 DEF Whole
  <1>5. CASE order_gen
    <2>1. got'["mb"] = got["mb"] /\ stream'["orders"] = stream["orders"]
      BY <1>5 DEF order_gen, ReadOn, ReadLast, Pull, TypeOK, Blocks, Streams
    <2>2. CASE out'["order_gen"] = out["order_gen"]
      BY <2>1, <2>2 DEF Whole
    <2>3. CASE ReadLast("order_gen", "weights", 2 * NumStocks,
                        OrderWrites(FrameOf(Words("order_gen", "weights"))))
      <3> DEFINE f == FrameOf(Words("order_gen", "weights"))
                 w == OrderWrites(f)
      <3>1. f \in Origin
        BY <1>1, <2>3, WordsFacts, FrameOfFacts DEF ReadLast, Streams
      <3> HIDE DEF f
      <3>2. w \in Seq(Streams \X Word) /\ Len(w) = MessageWords
            /\ \A i \in 1 .. MessageWords :
                 w[i] = <<"orders", [frame |-> f, part |-> i, valid |-> TRUE]>>
        BY <3>1, WritesType, WritesTargets
      <3>3. out'["order_gen"] = w /\ Len(out["order_gen"]) = 0
        BY <1>1, <2>3 DEF ReadLast, MayRead, TypeOK, f
      <3> HIDE DEF w
      <3>4. \A i \in 1 .. MessageWords : w[i][2].part = i  BY <3>2
      <3> QED  BY <1>2, <2>1, <3>2, <3>3, <3>4, WholeWrite DEF Whole
    <2> QED  BY <1>5, <2>2, <2>3 DEF order_gen, ReadOn
  <1>6. CASE mb
    <2> DEFINE g == got["mb"]
               q == stream["orders"]
               o == out["order_gen"]
               h == Words("mb", "orders")
    <2>1. MayRead("mb", "orders") /\ Pull("orders") /\ out'["order_gen"] = o
      BY <1>1, <1>6 DEF mb, ReadOn, ReadLast, TypeOK
    <2>2. /\ Len(q) >= 1 /\ h \in Seq(Word) /\ Len(h) = Len(g) + 1
          /\ \A i \in 1 .. Len(g) : h[i] = g[i]
          /\ h[Len(g) + 1] = q[1]
          /\ Tail(q) \in Seq(Word) /\ Len(Tail(q)) = Len(q) - 1
          /\ \A i \in 1 .. Len(q) - 1 : Tail(q)[i] = q[i + 1]
          /\ stream'["orders"] = Tail(q)
      BY <1>1, <2>1, WordsFacts, PullFacts
    <2>3. \/ got'["mb"] = h /\ Len(g) + 1 < MessageWords
          \/ got'["mb"] = <<>> /\ Len(g) + 1 = MessageWords
      BY <1>1, <1>6 DEF mb, ReadOn, ReadLast, TypeOK
    <2>4. g \in Seq(Word) /\ q \in Seq(Word) /\ o \in Seq(Streams \X Word)
          /\ WholeWords(g, q, o)
      BY <1>2
    <2> HIDE DEF g, q, o, h
    <2>5. PICK t \in Seq(Word) : t = Tail(q)  BY <2>2
    <2>6. IsRest(t, q)  BY <2>2, <2>5 DEF IsRest
    <2>7. \/ WholeWords(h, t, o) /\ got'["mb"] = h
          \/ WholeWords(<<>>, t, o) /\ got'["mb"] = <<>>
      BY ZenonT(60), <2>2, <2>3, <2>4, <2>6, WholeRead
    <2> QED  BY <2>1, <2>2, <2>5, <2>7 DEF Whole
  <1>7. ASSUME NEW b \in Blocks, Write(b) PROVE Whole'
    <2>1. CASE b = "order_gen"
      <3> DEFINE q == stream["orders"]
                 o == out["order_gen"]
                 t == Tail(o)
      <3>1. Len(o) >= 1 /\ o[1][1] = "orders"
        BY <1>1, <1>2, <1>7, <2>1, WriteFacts DEF Ports, Target
      <3>2. /\ got'["mb"] = got["mb"]
            /\ stream'["orders"] = Append(q, o[1][2])
            /\ out'["order_gen"] = t /\ Len(t) = Len(o) - 1
            /\ \A i \in 1 .. Len(t) : t[i] = o[i + 1]
        BY SMTT(30), <1>7, <2>1, <3>1, WriteFacts
      <3>3. t \in Seq(Streams \X Word)  BY SMTT(30), <1>1, <1>3, <3>2 DEF TypeOK
      <3>4. WholeWords(got["mb"], q, o) /\ q \in Seq(Word) /\ o \in Seq(Streams \X Word)
        BY <1>2
      <3> HIDE DEF q, o, t
      <3>5. WholeWords(got["mb"], Append(q, o[1][2]), t)
        BY <1>2, <3>1, <3>2, <3>3, <3>4, WholeWrite
      <3> QED  BY <3>2, <3>5 DEF Whole
    <2>2. CASE b # "order_gen"
      <3>1. out[b][1][1] \in Target[b] /\ "orders" \notin Target[b]
        BY <1>7, <2>2, WriteFacts DEF Ports, Target
      <3>2. /\ got'["mb"] = got["mb"] /\ stream'["orders"] = stream["orders"]
            /\ out'["order_gen"] = out["order_gen"]
        BY <1>1, <1>7, <2>2, <3>1, WriteFacts
      <3> QED  BY <3>2 DEF Whole
    <2> QED  BY <2>1, <2>2
  <1> QED  BY <1>4, <1>5, <1>6, <1>7 DEF Next

\* Whatever the weights are, the program takes the words of one message in order,
\* and the words that it has still to wait for are in the stream or about to be
\* written (the blocking reads of main.c, order_gen_axis).
THEOREM WholeMessages == Spec => []MessagesWhole
  <1> DEFINE W == TypeOK /\ Ports /\ Whole
  <1>1. Init => Whole
    <2> SUFFICES ASSUME Init PROVE Whole
      OBVIOUS
    <2>1. /\ got["mb"] = <<>> /\ stream["orders"] = <<>> /\ out["order_gen"] = <<>>
      BY DEF Init, Blocks, Streams
    <2>2. MessageWords \in Nat \ {0} /\ MessageWords > 1  BY Sizes
    <2>3. 0 % MessageWords = 0  BY <2>2
    <2> QED  BY <2>1, <2>2, <2>3 DEF Whole, WholeWords
  <1>2. W /\ [Next]_vars => W'
    <2>1. CASE UNCHANGED vars  BY <2>1 DEF vars, TypeOK, Ports, Whole
    <2>2. CASE Next  BY <2>2, StepTypes, WholeStep
    <2> QED  BY <2>1, <2>2
  <1>3. W => MessagesWhole
    <2> SUFFICES ASSUME W PROVE MessagesWhole
      OBVIOUS
    <2> DEFINE g == got["mb"]
               q == stream["orders"]
               o == out["order_gen"]
    <2>1. /\ g \in Seq(Word) /\ q \in Seq(Word) /\ o \in Seq(Streams \X Word)
      BY DEF TypeOK, Blocks, Streams
    <2>2. /\ \A i \in 1 .. Len(g) : g[i].part = i
          /\ (Len(g) + Len(q) + Len(o)) % MessageWords = 0
      BY DEF Whole, WholeWords
    <2> HIDE DEF g, q, o
    <2>3. /\ DOMAIN g = 1 .. Len(g) /\ Len(g) \in Nat /\ Len(q) \in Nat /\ Len(o) \in Nat
          /\ (g # <<>> => Len(g) > 0)
      BY <2>1
    <2>4. PICK x \in Nat : x = Len(g) + Len(q) + Len(o)  BY <2>3
    <2>5. x % MessageWords = 0 /\ MessageWords \in Nat \ {0}
      BY <2>2, <2>4, Sizes
    <2>6. x > 0 => x >= MessageWords  BY <2>5
    <2>7. \A i \in DOMAIN g : g[i].part = i  BY <2>2, <2>3
    <2>8. g # <<>> => Len(g) + Len(q) + Len(o) >= MessageWords
      BY <2>3, <2>4, <2>6
    <2> QED  BY <2>7, <2>8 DEF MessagesWhole, g, q, o
  <1> QED  BY <1>1, <1>2, <1>3, InitTypes, PTL DEF Spec

-----------------------------------------------------------------------------
(* The frames on the two paths, as long as every weight is valid.          *)

\* What the streams carry: the words of a message, and of which frame the next
\* message is.  Frame 0, the first, takes only the first part of the way.
Size == [s \in Streams |->
  IF s = "frames" THEN BookWords
  ELSE IF s \in {"prices_cov", "prices_og", "weights"} THEN NumStocks
  ELSE IF s = "matrix" THEN NumStocks * NumStocks ELSE MessageWords]

NonZero(f) == IF f = 0 THEN 1 ELSE f
Skip(f) == NonZero(Following(f))
NextFrame(s, f) == IF s \in {"frames", "prices_cov"} THEN Following(f) ELSE Skip(f)

\* A place in a stream is a frame and a place in its message.
At(w) == <<w.frame, w.part>>
Succ(s, x) == IF x[2] < Size[s] THEN <<x[1], x[2] + 1>> ELSE <<NextFrame(s, x[1]), 1>>

\* The words q follow each other from place x on, up to place y.
Chain(s, q, x, y) ==
  /\ \A i \in 1 .. Len(q) : q[i].frame \in Frame
  /\ Len(q) = 0 => x = y
  /\ Len(q) > 0 => At(q[1]) = x /\ Succ(s, At(q[Len(q)])) = y
  /\ \A i \in 1 .. Len(q) - 1 : At(q[i + 1]) = Succ(s, At(q[i]))

\* The writes o that are left of the writer's last message; the next is of frame f.
Writes(s, o, f) ==
  /\ Len(o) <= Size[s]
  /\ \A i \in 1 .. Len(o) :
       /\ o[i][1] = s /\ o[i][2].part = Size[s] - Len(o) + i
       /\ o[i][2].frame = o[1][2].frame
  /\ Len(o) > 0 => o[1][2].frame \in Frame /\ NextFrame(s, o[1][2].frame) = f

WritePlace(o, f) == IF Len(o) = 0 THEN <<f, 1>> ELSE At(o[1][2])

\* A stream with its writer: what it holds leads from the reader's place to the
\* writer's.
Link(s, q, x, o, f) == Writes(s, o, f) /\ Chain(s, q, x, WritePlace(o, f))

Reads(g, f, n) == Len(g) < n /\ \A i \in 1 .. Len(g) : g[i].frame = f

\* The places of order_gen's call that has read l words: the prices come first.
PricePlace(l, e) == IF l < NumStocks THEN <<e, l + 1>> ELSE <<Skip(e), 1>>
WeightPlace(l, e) == <<e, IF l < NumStocks THEN 1 ELSE l - NumStocks + 1>>

\* The links of the pipeline: q is the frame that qr_decomp expects and e the one
\* that order_gen does; c and g are the writes that ta_parser has left for each of
\* its streams.
AlignedAt(e, q, c, g) ==
  LET ta == num_updates["ta_parser"]
      cv == num_updates["cov_update"]
      og == got["order_gen"]
  IN  /\ out["ta_parser"] = c \o g
      /\ got["book"] = <<>>
      /\ Reads(got["ta_parser"], ta, BookWords)
      /\ Reads(got["cov_update"], cv, NumStocks)
      /\ Reads(got["qr_decomp"], q, Size["matrix"])
      /\ Reads(og, e, 2 * NumStocks)
      /\ Reads(got["mb"], Skip(ordered), MessageWords)
      /\ Link("frames", stream["frames"], <<ta, Len(got["ta_parser"]) + 1>>,
              out["book"], published)
      /\ Link("prices_cov", stream["prices_cov"], <<cv, Len(got["cov_update"]) + 1>>, c, ta)
      /\ Link("prices_og", stream["prices_og"], PricePlace(Len(og), e), g, NonZero(ta))
      /\ Link("matrix", stream["matrix"], <<q, Len(got["qr_decomp"]) + 1>>,
              out["cov_update"], NonZero(cv))
      /\ Link("weights", stream["weights"], WeightPlace(Len(og), e), out["qr_decomp"], q)
      /\ Link("orders", stream["orders"], <<Skip(ordered), Len(got["mb"]) + 1>>,
              out["order_gen"], e)

\* Without a fault there are only valid weights.
AllValid ==
  /\ \A i \in 1 .. Len(stream["weights"]) : stream["weights"][i].valid
  /\ \A i \in 1 .. Len(out["qr_decomp"]) : out["qr_decomp"][i][2].valid

Aligned ==
  /\ ordered \in Frame /\ AllValid
  /\ \E e, q \in Frame \ {0} : \E c, g \in Seq(Streams \X Word) : AlignedAt(e, q, c, g)

LEMMA SizeFacts ==
  /\ \A s \in Streams : Size[s] \in Nat /\ Size[s] >= 1
  /\ Size["frames"] = BookWords /\ Size["prices_cov"] = NumStocks
  /\ Size["prices_og"] = NumStocks /\ Size["matrix"] = NumStocks * NumStocks
  /\ Size["weights"] = NumStocks /\ Size["orders"] = MessageWords
  <1>1. /\ Size["frames"] = BookWords /\ Size["prices_cov"] = NumStocks
        /\ Size["prices_og"] = NumStocks /\ Size["matrix"] = NumStocks * NumStocks
        /\ Size["weights"] = NumStocks /\ Size["orders"] = MessageWords
    BY DEF Size, Streams
  <1> DEFINE n == NumStocks * NumStocks
  <1>2. /\ BookWords \in Nat \ {0} /\ NumStocks \in Nat \ {0} /\ n \in Nat \ {0}
        /\ MessageWords \in Nat \ {0} /\ Size["matrix"] = n
    BY <1>1, Sizes
  <1> HIDE DEF n
  <1>3. ASSUME NEW s \in Streams PROVE Size[s] \in Nat /\ Size[s] >= 1
    BY <1>1, <1>2 DEF Streams
  <1> QED  BY <1>1, <1>3

LEMMA FrameFacts ==
  /\ 0 \in Frame /\ 1 \in Frame /\ Frame \subseteq Nat
  /\ \A f \in Frame : /\ Following(f) \in Frame /\ NonZero(f) \in Frame \ {0}
                      /\ Skip(f) \in Frame \ {0}
                      /\ \A s \in Streams : NextFrame(s, f) \in Frame
  <1>1. 0 \in Frame /\ 1 \in Frame /\ Frame \subseteq Nat  BY Sizes DEF Frame
  <1> QED  BY <1>1, FollowingFacts DEF NonZero, Skip, NextFrame

\* The reader takes a word.
LEMMA LinkRead ==
  ASSUME NEW s \in Streams, NEW q \in Seq(Word), NEW x, NEW o, NEW f,
         Link(s, q, x, o, f), Len(q) >= 1, NEW t \in Seq(Word), IsRest(t, q)
  PROVE  /\ q[1].frame = x[1] /\ q[1].part = x[2] /\ q[1].frame \in Frame
         /\ Link(s, t, Succ(s, x), o, f)
  <1> DEFINE y == WritePlace(o, f)
  <1>1. Chain(s, q, x, y) /\ Len(q) \in Nat /\ Len(t) \in Nat  BY DEF Link
  <1>2. /\ \A i \in 1 .. Len(q) : q[i].frame \in Frame
        /\ At(q[1]) = x /\ Succ(s, At(q[Len(q)])) = y
        /\ \A i \in 1 .. Len(q) - 1 : At(q[i + 1]) = Succ(s, At(q[i]))
    BY <1>1 DEF Chain
  <1>3. Len(t) = Len(q) - 1 /\ \A i \in 1 .. Len(t) : t[i] = q[i + 1]  BY DEF IsRest
  <1> HIDE DEF y
  <1>4. Chain(s, t, Succ(s, x), y)
    <2>1. ASSUME NEW i \in 1 .. Len(t) PROVE t[i].frame \in Frame
      <3>1. i + 1 \in 1 .. Len(q) /\ t[i] = q[i + 1]  BY <1>1, <1>3
      <3> QED  BY <1>2, <3>1
    <2>2. Len(t) = 0 => Succ(s, x) = y
      <3>1. Len(t) = 0 => Len(q) = 1  BY <1>1, <1>3
      <3> QED  BY <1>2, <3>1
    <2>3. Len(t) > 0 => At(t[1]) = Succ(s, x) /\ Succ(s, At(t[Len(t)])) = y
      <3>1. Len(t) > 0 => 1 \in 1 .. Len(t) /\ Len(t) \in 1 .. Len(t) /\ 1 \in 1 .. Len(q) - 1
                          /\ Len(t) + 1 = Len(q) /\ 1 + 1 = 2
        BY <1>1, <1>3
      <3>2. Len(t) > 0 => t[1] = q[1 + 1] /\ t[Len(t)] = q[Len(q)]  BY <1>3, <3>1
      <3>3. Len(t) > 0 => At(q[1 + 1]) = Succ(s, At(q[1]))  BY <1>2, <3>1
      <3> QED  BY <1>2, <3>2, <3>3
    <2>4. ASSUME NEW i \in 1 .. Len(t) - 1 PROVE At(t[i + 1]) = Succ(s, At(t[i]))
      <3>1. /\ i + 1 \in 1 .. Len(q) - 1 /\ i \in 1 .. Len(t) /\ i + 1 \in 1 .. Len(t)
        BY <1>1, <1>3
      <3>2. t[i] = q[i + 1] /\ t[i + 1] = q[(i + 1) + 1]  BY <1>3, <3>1
      <3>3. At(q[(i + 1) + 1]) = Succ(s, At(q[i + 1]))  BY <1>2, <3>1
      <3> QED  BY <3>2, <3>3
    <2> QED  BY <2>1, <2>2, <2>3, <2>4 DEF Chain
  <1>5. q[1].frame = x[1] /\ q[1].part = x[2] /\ q[1].frame \in Frame
    <2>1. 1 \in 1 .. Len(q)  BY <1>1
    <2> QED  BY <1>2, <2>1 DEF At
  <1> QED  BY <1>4, <1>5 DEF Link, y

\* The writer writes a word.
LEMMA LinkWrite ==
  ASSUME NEW s \in Streams, NEW q \in Seq(Word), NEW x,
         NEW o \in Seq(Streams \X Word), NEW f,
         Link(s, q, x, o, f), Len(o) >= 1, NEW t \in Seq(Streams \X Word), IsRest(t, o)
  PROVE  o[1][1] = s /\ Link(s, Append(q, o[1][2]), x, t, f)
  <1> DEFINE w == o[1][2]
             p == Append(q, w)
             n == Size[s]
  <1>1. Len(q) \in Nat /\ Len(t) \in Nat /\ Len(o) \in Nat /\ n \in Nat /\ n >= 1
    BY SizeFacts
  <1>2. /\ Len(o) <= n
        /\ \A i \in 1 .. Len(o) :
             o[i][1] = s /\ o[i][2].part = n - Len(o) + i /\ o[i][2].frame = w.frame
        /\ w.frame \in Frame /\ NextFrame(s, w.frame) = f
    BY DEF Link, Writes
  <1>3. WritePlace(o, f) = At(w)  BY DEF WritePlace
  <1>4. /\ \A i \in 1 .. Len(q) : q[i].frame \in Frame
        /\ Len(q) = 0 => x = At(w)
        /\ Len(q) > 0 => At(q[1]) = x /\ Succ(s, At(q[Len(q)])) = At(w)
        /\ \A i \in 1 .. Len(q) - 1 : At(q[i + 1]) = Succ(s, At(q[i]))
    BY <1>3 DEF Link, Chain
  <1>5. Len(t) = Len(o) - 1 /\ \A i \in 1 .. Len(t) : t[i] = o[i + 1]  BY DEF IsRest
  <1>6. w \in Word
    <2>1. o[1] \in Streams \X Word  BY <1>1
    <2> QED  BY <2>1
  <1>7. Len(p) = Len(q) + 1 /\ p[Len(q) + 1] = w /\ \A i \in 1 .. Len(q) : p[i] = q[i]
    BY <1>6
  <1>8. 1 \in 1 .. Len(o) /\ o[1][1] = s  BY <1>1, <1>2
  <1>9. w.part = n - Len(o) + 1  BY <1>2, <1>8
  <1> HIDE DEF p, w, n
  <1>10. Writes(s, t, f)
    <2>1. ASSUME NEW i \in 1 .. Len(t)
          PROVE  t[i][1] = s /\ t[i][2].part = n - Len(t) + i /\ t[i][2].frame = w.frame
      <3>1. i + 1 \in 1 .. Len(o) /\ t[i] = o[i + 1]  BY <1>1, <1>5
      <3>2. /\ o[i + 1][1] = s /\ o[i + 1][2].part = n - Len(o) + (i + 1)
            /\ o[i + 1][2].frame = w.frame
        BY <1>2, <3>1
      <3>3. n - Len(o) + (i + 1) = n - Len(t) + i  BY <1>1, <1>5
      <3> QED  BY <3>1, <3>2, <3>3
    <2>2. Len(t) > 0 => t[1][2].frame = w.frame
      <3>1. Len(t) > 0 => 1 \in 1 .. Len(t)  BY <1>1
      <3> QED  BY <2>1, <3>1
    <2>3. Len(t) <= n  BY <1>1, <1>2, <1>5
    <2>4. \A i \in 1 .. Len(t) : t[i][2].frame = t[1][2].frame
      <3>1. \A i \in 1 .. Len(t) : Len(t) > 0  BY <1>1
      <3> QED  BY <2>1, <2>2, <3>1
    <2> QED  BY <1>2, <2>1, <2>2, <2>3, <2>4 DEF Writes, n
  <1>11. WritePlace(t, f) = Succ(s, At(w))
    <2>1. CASE Len(t) = 0
      <3>1. w.part = n
        <4>1. Len(o) = 1  BY <1>1, <1>5, <2>1
        <4>2. n - 1 + 1 = n  BY <1>1
        <4> QED  BY <1>9, <4>1, <4>2
      <3> QED  BY <1>1, <1>2, <2>1, <3>1 DEF WritePlace, Succ, At, n
    <2>2. CASE Len(t) # 0
      <3>1. 1 + 1 \in 1 .. Len(o) /\ 1 \in 1 .. Len(t)  BY <1>1, <1>5, <2>2
      <3>2. t[1] = o[1 + 1]  BY <1>5, <3>1
      <3>3. t[1][2].part = n - Len(o) + (1 + 1) /\ t[1][2].frame = w.frame
        BY <1>2, <3>1, <3>2
      <3>4. w.part + 1 = n - Len(o) + (1 + 1) /\ w.part < n
        BY <1>1, <1>5, <1>9, <2>2
      <3> QED  BY <2>2, <3>3, <3>4 DEF WritePlace, Succ, At, n
    <2> QED  BY <2>1, <2>2
  <1>12. Chain(s, p, x, Succ(s, At(w)))
    <2>1. ASSUME NEW i \in 1 .. Len(p) PROVE p[i].frame \in Frame
      <3>1. i = Len(q) + 1 \/ i \in 1 .. Len(q)  BY <1>1, <1>7
      <3> QED  BY <1>2, <1>4, <1>7, <3>1
    <2>2. At(p[1]) = x
      <3>1. CASE Len(q) = 0  BY <1>4, <1>7, <3>1
      <3>2. CASE Len(q) > 0
        <4>1. 1 \in 1 .. Len(q)  BY <1>1, <3>2
        <4> QED  BY <1>4, <1>7, <3>2, <4>1
      <3> QED  BY <1>1, <3>1, <3>2
    <2>3. p[Len(p)] = w  BY <1>7
    <2>4. ASSUME NEW i \in 1 .. Len(p) - 1 PROVE At(p[i + 1]) = Succ(s, At(p[i]))
      <3>1. CASE i = Len(q)
        <4>1. Len(q) > 0 /\ Len(q) \in 1 .. Len(q)  BY <1>1, <3>1
        <4> QED  BY <1>4, <1>7, <3>1, <4>1
      <3>2. CASE i # Len(q)
        <4>1. i \in 1 .. Len(q) - 1 /\ i \in 1 .. Len(q) /\ i + 1 \in 1 .. Len(q)
          BY <1>1, <1>7, <3>2
        <4> QED  BY <1>4, <1>7, <4>1
      <3> QED  BY <3>1, <3>2
    <2>5. Len(p) > 0 /\ Len(p) # 0  BY <1>1, <1>7
    <2> QED  BY <2>1, <2>2, <2>3, <2>4, <2>5 DEF Chain
  <1> QED  BY <1>8, <1>10, <1>11, <1>12 DEF Link, p, w

\* A writer that has nothing left begins the message of the frame that is due.
LEMMA LinkNewWords ==
  ASSUME NEW s \in Streams, NEW q, NEW x, NEW f \in Frame, Link(s, q, x, <<>>, f),
         NEW o, Len(o) = Size[s],
         \A i \in 1 .. Len(o) : o[i][1] = s /\ At(o[i][2]) = <<f, i>>
  PROVE  Link(s, q, x, o, NextFrame(s, f))
  <1>1. Size[s] \in Nat /\ Size[s] >= 1 /\ 1 \in 1 .. Len(o)  BY SizeFacts
  <1>2. \A i \in 1 .. Len(o) : o[i][2].frame = f /\ o[i][2].part = i  BY DEF At
  <1>3. Writes(s, o, NextFrame(s, f))
    <2>1. \A i \in 1 .. Len(o) : Size[s] - Len(o) + i = i  BY <1>1
    <2> QED  BY <1>1, <1>2, <2>1 DEF Writes
  <1>4. WritePlace(o, NextFrame(s, f)) = <<f, 1>>  BY <1>1, <1>2 DEF WritePlace, At
  <1>5. Chain(s, q, x, <<f, 1>>)  BY DEF Link, WritePlace
  <1> QED  BY <1>3, <1>4, <1>5 DEF Link

LEMMA LinkNew ==
  ASSUME NEW s \in Streams, NEW q, NEW x, NEW f \in Frame, Link(s, q, x, <<>>, f),
         NEW o, o = To(s, Message(Size[s], f))
  PROVE  Link(s, q, x, o, NextFrame(s, f))
  <1>1. Size[s] \in Nat /\ Size[s] >= 1 /\ f \in Origin  BY SizeFacts DEF Origin
  <1>2. /\ Len(o) = Size[s]
        /\ \A i \in 1 .. Size[s] : o[i] = <<s, [frame |-> f, part |-> i, valid |-> TRUE]>>
    BY <1>1, MessageToFacts
  <1>3. ASSUME NEW i \in 1 .. Len(o) PROVE o[i][1] = s /\ At(o[i][2]) = <<f, i>>
    <2>1. o[i] = <<s, [frame |-> f, part |-> i, valid |-> TRUE]>>  BY <1>2
    <2> QED  BY <2>1 DEF At
  <1> QED  BY <1>1, <1>2, <1>3, LinkNewWords

\* A read, as its two ends see it.
LEMMA ReadFacts ==
  ASSUME TypeOK, NEW b \in Blocks, NEW s \in Streams, MayRead(b, s), Pull(s),
         NEW f \in Frame, NEW k, NEW o, NEW x, Link(s, stream[s], <<f, k>>, o, x),
         \A i \in 1 .. Len(got[b]) : got[b][i].frame = f
  PROVE  /\ \A i \in 1 .. Len(Words(b, s)) : Words(b, s)[i].frame = f
         /\ FrameOf(Words(b, s)) = f /\ Len(Words(b, s)) = Len(got[b]) + 1
         /\ Len(got[b]) \in Nat
         /\ Link(s, stream'[s], Succ(s, <<f, k>>), o, x)
  <1> DEFINE h == Words(b, s)
             q == stream[s]
             t == Tail(q)
  <1>1. /\ q \in Seq(Word) /\ Len(q) \in Nat /\ Len(q) >= 1
        /\ h \in Seq(Word) /\ Len(h) = Len(got[b]) + 1 /\ Len(got[b]) \in Nat
        /\ \A i \in 1 .. Len(got[b]) : h[i] = got[b][i]
        /\ h[Len(got[b]) + 1] = q[1]
        /\ t \in Seq(Word) /\ Len(t) = Len(q) - 1
        /\ \A i \in 1 .. Len(q) - 1 : t[i] = q[i + 1]
    BY WordsFacts DEF TypeOK
  <1>2. stream'[s] = t  BY PullFacts
  <1> HIDE DEF h, q, t
  <1>3. IsRest(t, q)  BY <1>1 DEF IsRest
  <1>4. Link(s, q, <<f, k>>, o, x)  BY DEF q
  <1>5. q[1].frame = f /\ Link(s, t, Succ(s, <<f, k>>), o, x)
    <2>1. q[1].frame = <<f, k>>[1] /\ Link(s, t, Succ(s, <<f, k>>), o, x)
      BY <1>1, <1>3, <1>4, LinkRead
    <2> QED  BY <2>1
  <1>6. ASSUME NEW i \in 1 .. Len(h) PROVE h[i].frame = f
    <2>1. i = Len(got[b]) + 1 \/ i \in 1 .. Len(got[b])  BY <1>1
    <2> QED  BY <1>1, <1>5, <2>1
  <1>7. FrameOf(h) = f
    <2>1. Len(h) >= 1  BY <1>1
    <2> QED  BY <1>1, <1>6, <2>1, FrameOfFacts
  <1> QED  BY <1>1, <1>2, <1>5, <1>6, <1>7 DEF h

\* A block that reads its words from one stream.
LEMMA ReadOnFacts ==
  ASSUME TypeOK, NEW b \in Blocks, NEW s \in Streams, NEW n, n = Size[s],
         ReadOn(b, s, n), NEW f \in Frame, Reads(got[b], f, n), NEW o, NEW x,
         Link(s, stream[s], <<f, Len(got[b]) + 1>>, o, x)
  PROVE  /\ Reads(got'[b], f, n)
         /\ Link(s, stream'[s], <<f, Len(got'[b]) + 1>>, o, x)
         /\ \A c \in Blocks \ {b} : got'[c] = got[c]
         /\ \A t \in Streams \ {s} : stream'[t] = stream[t]
         /\ UNCHANGED <<out, num_updates, published, ordered, faults>>
  <1>1. /\ MayRead(b, s) /\ Pull(s) /\ Len(got[b]) + 1 < n
        /\ got' = [got EXCEPT ![b] = Words(b, s)]
        /\ UNCHANGED <<out, num_updates, published, ordered, faults>>
    BY DEF ReadOn
  <1>2. /\ got'[b] = Words(b, s) /\ \A c \in Blocks \ {b} : got'[c] = got[c]
    BY <1>1 DEF TypeOK
  <1>3. \A i \in 1 .. Len(got[b]) : got[b][i].frame = f  BY DEF Reads
  <1>4. PICK k : k = Len(got[b]) + 1  OBVIOUS
  <1>5. /\ \A i \in 1 .. Len(got'[b]) : got'[b][i].frame = f
        /\ Len(got'[b]) = Len(got[b]) + 1 /\ Len(got[b]) \in Nat
        /\ Link(s, stream'[s], Succ(s, <<f, k>>), o, x)
    <2>1. Link(s, stream[s], <<f, k>>, o, x)  BY <1>4
    <2>2. /\ \A i \in 1 .. Len(Words(b, s)) : Words(b, s)[i].frame = f
          /\ Len(Words(b, s)) = Len(got[b]) + 1 /\ Len(got[b]) \in Nat
          /\ Link(s, stream'[s], Succ(s, <<f, k>>), o, x)
      BY <1>1, <1>3, <2>1, ReadFacts
    <2> QED  BY <1>2, <2>2
  <1>6. Succ(s, <<f, k>>) = <<f, Len(got'[b]) + 1>>
    BY <1>1, <1>4, <1>5 DEF Succ
  <1> QED  BY <1>1, <1>2, <1>5, <1>6, PullFacts DEF Reads

LEMMA ReadLastFacts ==
  ASSUME TypeOK, NEW b \in Blocks, NEW s \in Streams, NEW n, n = Size[s], NEW w,
         ReadLast(b, s, n, w), NEW f \in Frame, Reads(got[b], f, n), NEW o, NEW x,
         Link(s, stream[s], <<f, Len(got[b]) + 1>>, o, x)
  PROVE  /\ FrameOf(Words(b, s)) = f /\ got'[b] = <<>> /\ Len(got'[b]) = 0
         /\ \A g : Reads(got'[b], g, n)
         /\ Link(s, stream'[s], <<NextFrame(s, f), Len(got'[b]) + 1>>, o, x)
         /\ out[b] = <<>> /\ out'[b] = w
         /\ \A c \in Blocks \ {b} : got'[c] = got[c] /\ out'[c] = out[c]
         /\ \A t \in Streams \ {s} : stream'[t] = stream[t]
  <1>1. /\ MayRead(b, s) /\ Pull(s) /\ Len(got[b]) + 1 = n
        /\ got' = [got EXCEPT ![b] = <<>>] /\ out' = [out EXCEPT ![b] = w]
    BY DEF ReadLast
  <1>2. /\ got'[b] = <<>> /\ out'[b] = w /\ out[b] = <<>>
        /\ \A c \in Blocks \ {b} : got'[c] = got[c] /\ out'[c] = out[c]
    BY <1>1 DEF TypeOK, MayRead
  <1>3. \A i \in 1 .. Len(got[b]) : got[b][i].frame = f  BY DEF Reads
  <1>4. FrameOf(Words(b, s)) = f
        /\ Link(s, stream'[s], Succ(s, <<f, n>>), o, x)
    BY <1>1, <1>3, ReadFacts
  <1>5. Len(got'[b]) = 0 /\ 0 + 1 = 1  BY <1>2
  <1>6. n \in Nat /\ n >= 1 /\ ~ (n < n)  BY SizeFacts
  <1>7. Succ(s, <<f, n>>) = <<NextFrame(s, f), Len(got'[b]) + 1>>
    BY <1>5, <1>6 DEF Succ
  <1>8. \A g : Reads(got'[b], g, n)  BY <1>5, <1>6 DEF Reads
  <1> QED  BY <1>1, <1>2, <1>4, <1>5, <1>7, <1>8, PullFacts

\* What the invariant says of the numbers of frames.
LEMMA AlignedNumbers ==
  ASSUME TypeOK, ordered \in Frame
  PROVE  /\ num_updates["ta_parser"] \in Frame /\ num_updates["cov_update"] \in Frame
         /\ published \in Frame /\ Skip(ordered) \in Frame \ {0}
         /\ \A b \in Blocks : got[b] \in Seq(Word) /\ Len(got[b]) \in Nat
                              /\ out[b] \in Seq(Streams \X Word)
         /\ NumStocks \in Nat /\ NumStocks >= 1
  BY FrameFacts, Sizes DEF TypeOK

\* The book publishes.
LEMMA PublishAligned ==
  ASSUME TypeOK, Aligned, publish
  PROVE  Aligned'
  <1>1. PICK e \in Frame \ {0}, q \in Frame \ {0},
             c \in Seq(Streams \X Word), g \in Seq(Streams \X Word) : AlignedAt(e, q, c, g)
    BY DEF Aligned
  <1> DEFINE x == <<num_updates["ta_parser"], Len(got["ta_parser"]) + 1>>
             o == To("frames", Message(BookWords, published))
  <1>2. /\ out["book"] = <<>> /\ out'["book"] = o
        /\ \A b \in Blocks \ {"book"} : out'[b] = out[b]
        /\ published' = Following(published) /\ published \in Frame
        /\ UNCHANGED <<stream, got, num_updates, ordered, faults>>
    BY DEF publish, TypeOK, Blocks
  <1>3. Link("frames", stream["frames"], x, o, Following(published))
    <2>1. Link("frames", stream["frames"], x, <<>>, published)
      BY <1>1, <1>2 DEF AlignedAt
    <2>2. "frames" \in Streams /\ BookWords = Size["frames"]
          /\ NextFrame("frames", published) = Following(published)
      BY SizeFacts DEF Streams, NextFrame
    <2> HIDE DEF x
    <2> QED  BY <1>2, <2>1, <2>2, LinkNew
  <1>4. AlignedAt(e, q, c, g)'
    <2> HIDE DEF o
    <2> QED  BY <1>1, <1>2, <1>3 DEF AlignedAt, Blocks
  <1>5. AllValid'  BY <1>2 DEF Aligned, AllValid, Blocks
  <1> QED  BY <1>2, <1>4, <1>5 DEF Aligned

LEMMA StreamNames ==
  /\ {"frames", "prices_cov", "prices_og", "matrix", "weights", "orders"} = Streams
  /\ {"book", "ta_parser", "cov_update", "qr_decomp", "order_gen", "mb"} = Blocks
  BY DEF Streams, Blocks

\* A frame's prices go on: the first frame's only to cov_update.
LEMMA PriceLinks ==
  ASSUME NEW ta \in Frame, NEW q, NEW x, NEW r, NEW y,
         Link("prices_cov", q, x, <<>>, ta), Link("prices_og", r, y, <<>>, NonZero(ta))
  PROVE  LET c == To("prices_cov", Message(NumStocks, ta))
             g == IF ta > 0 THEN To("prices_og", Message(NumStocks, ta)) ELSE <<>>
         IN  /\ c \in Seq(Streams \X Word) /\ g \in Seq(Streams \X Word)
             /\ Link("prices_cov", q, x, c, Following(ta))
             /\ Link("prices_og", r, y, g, NonZero(Following(ta)))
  <1> DEFINE c == To("prices_cov", Message(NumStocks, ta))
             h == To("prices_og", Message(NumStocks, ta))
  <1>1. /\ "prices_cov" \in Streams /\ "prices_og" \in Streams /\ ta \in Origin
        /\ Size["prices_cov"] = NumStocks /\ Size["prices_og"] = NumStocks /\ NumStocks \in Nat
    BY SizeFacts, Sizes, StreamNames DEF Origin
  <1>2. c \in Seq(Streams \X Word) /\ h \in Seq(Streams \X Word)
    BY <1>1, MessageToFacts
  <1>3. Link("prices_cov", q, x, c, Following(ta))
    <2>1. Link("prices_cov", q, x, c, NextFrame("prices_cov", ta))
      <3>1. c = To("prices_cov", Message(Size["prices_cov"], ta))  BY <1>1
      <3> HIDE DEF c
      <3> QED  BY <1>1, <3>1, LinkNew
    <2> QED  BY <2>1 DEF NextFrame
  <1>4. ta > 0 => Link("prices_og", r, y, h, NonZero(Following(ta)))
    <2>1. ASSUME ta > 0 PROVE Link("prices_og", r, y, h, NextFrame("prices_og", ta))
      <3>1. NonZero(ta) = ta  BY <2>1 DEF NonZero
      <3>2. h = To("prices_og", Message(Size["prices_og"], ta))  BY <1>1
      <3> HIDE DEF h
      <3> QED  BY <1>1, <3>1, <3>2, LinkNew
    <2> QED  BY <2>1 DEF NextFrame, Skip
  <1>5. ~ (ta > 0) => NonZero(Following(ta)) = NonZero(ta)
    <2>1. ~ (ta > 0) => ta = 0  BY FrameFacts
    <2>2. 0 \in Frame /\ 0 # CounterSize - 1  BY FrameFacts, Sizes
    <2>3. Following(0) = 1
      <3>1. PICK z \in Frame : z = 0  BY <2>2
      <3>2. Following(z) = z + 1  BY <2>2, <3>1, FollowingFacts
      <3> QED  BY <3>1, <3>2
    <2> QED  BY <2>1, <2>3 DEF NonZero
  <1>6. <<>> \in Seq(Streams \X Word)  OBVIOUS
  <1> QED  BY <1>2, <1>3, <1>4, <1>5, <1>6

LEMMA EmptyConcat ==
  ASSUME NEW S, NEW c \in Seq(S), NEW g \in Seq(S), c \o g = <<>>
  PROVE  c = <<>> /\ g = <<>>
  <1>1. Len(c \o g) = Len(c) + Len(g) /\ Len(c) \in Nat /\ Len(g) \in Nat  OBVIOUS
  <1>2. Len(c \o g) = 0  OBVIOUS
  <1>3. Len(c) = 0 /\ Len(g) = 0  BY <1>1, <1>2
  <1> QED  BY <1>3

LEMMA TailOfConcat ==
  ASSUME NEW S, NEW c \in Seq(S), NEW g \in Seq(S), Len(c) >= 1
  PROVE  /\ Tail(c) \in Seq(S) /\ Len(Tail(c)) = Len(c) - 1
         /\ \A i \in 1 .. Len(Tail(c)) : Tail(c)[i] = c[i + 1]
         /\ (c \o g)[1] = c[1] /\ Tail(c \o g) = Tail(c) \o g
  <1>1. /\ Tail(c) \in Seq(S) /\ Len(Tail(c)) = Len(c) - 1 /\ Len(c) \in Nat
        /\ \A i \in 1 .. Len(Tail(c)) : Tail(c)[i] = c[i + 1]
        /\ Len(g) \in Nat
    OBVIOUS
  <1> DEFINE a == Tail(c \o g)
             d == Tail(c) \o g
  <1>2. /\ c \o g \in Seq(S) /\ Len(c \o g) = Len(c) + Len(g) /\ (c \o g)[1] = c[1]
        /\ \A i \in 1 .. Len(c) + Len(g) :
             (c \o g)[i] = IF i <= Len(c) THEN c[i] ELSE g[i - Len(c)]
    BY <1>1
  <1>3. /\ a \in Seq(S) /\ Len(a) = Len(c) + Len(g) - 1
        /\ \A i \in 1 .. Len(a) : a[i] = (c \o g)[i + 1]
    <2>1. c \o g # <<>>  BY <1>1, <1>2
    <2> QED  BY <1>1, <1>2, <2>1
  <1>4. /\ d \in Seq(S) /\ Len(d) = Len(c) - 1 + Len(g)
        /\ \A i \in 1 .. Len(d) :
             d[i] = IF i <= Len(c) - 1 THEN Tail(c)[i] ELSE g[i - (Len(c) - 1)]
    BY <1>1
  <1> HIDE DEF a, d
  <1>5. Len(a) = Len(d)  BY <1>1, <1>3, <1>4
  <1>6. ASSUME NEW i \in 1 .. Len(a) PROVE a[i] = d[i]
    <2>1. i + 1 \in 1 .. Len(c) + Len(g) /\ (i + 1 <= Len(c) <=> i <= Len(c) - 1)
          /\ i + 1 - Len(c) = i - (Len(c) - 1)
      BY <1>1, <1>3
    <2>2. a[i] = IF i + 1 <= Len(c) THEN c[i + 1] ELSE g[i + 1 - Len(c)]
      BY <1>2, <1>3, <2>1
    <2>3. i <= Len(c) - 1 => Tail(c)[i] = c[i + 1]  BY <1>1
    <2> QED  BY <1>4, <1>5, <2>1, <2>2, <2>3
  <1>7. a = d  BY SMTT(30), <1>3, <1>4, <1>5, <1>6
  <1> QED  BY <1>1, <1>2, <1>7 DEF a, d

\* ta_parser reads a word; after the last one it has the prices to write.
LEMMA ParserAligned ==
  ASSUME TypeOK, Aligned, ta_parser
  PROVE  Aligned'
  <1>1. PICK e \in Frame \ {0}, q \in Frame \ {0},
             c \in Seq(Streams \X Word), g \in Seq(Streams \X Word) : AlignedAt(e, q, c, g)
    BY DEF Aligned
  <1>2. PICK ta : ta = num_updates["ta_parser"]  OBVIOUS
  <1>3. /\ ta \in Frame /\ "ta_parser" \in Blocks /\ "frames" \in Streams
        /\ BookWords = Size["frames"] /\ ordered \in Frame
    BY <1>2, AlignedNumbers, StreamNames, SizeFacts DEF Aligned
  <1>4. /\ Reads(got["ta_parser"], ta, BookWords)
        /\ Link("frames", stream["frames"], <<ta, Len(got["ta_parser"]) + 1>>,
                out["book"], published)
    BY <1>1, <1>2 DEF AlignedAt
  <1>5. CASE ReadOn("ta_parser", "frames", BookWords)
    <2>1. /\ Reads(got'["ta_parser"], ta, BookWords)
          /\ Link("frames", stream'["frames"], <<ta, Len(got'["ta_parser"]) + 1>>,
                  out["book"], published)
          /\ \A b \in Blocks \ {"ta_parser"} : got'[b] = got[b]
          /\ \A s \in Streams \ {"frames"} : stream'[s] = stream[s]
          /\ UNCHANGED <<out, num_updates, published, ordered, faults>>
      BY <1>3, <1>4, <1>5, ReadOnFacts
    <2>2. AlignedAt(e, q, c, g)'  BY <1>1, <1>2, <2>1, StreamNames DEF AlignedAt
    <2>3. AllValid'  BY <2>1, StreamNames DEF Aligned, AllValid
    <2> QED  BY <1>3, <2>1, <2>2, <2>3 DEF Aligned
  <1>6. CASE /\ ReadLast("ta_parser", "frames", BookWords,
                         PriceWrites(FrameOf(Words("ta_parser", "frames"))))
             /\ num_updates' = [num_updates EXCEPT !["ta_parser"] = Following(@)]
             /\ UNCHANGED <<published, ordered, faults>>
    <2>1. PICK w : w = PriceWrites(FrameOf(Words("ta_parser", "frames")))  OBVIOUS
    <2>2. /\ FrameOf(Words("ta_parser", "frames")) = ta
          /\ \A f : Reads(got'["ta_parser"], f, BookWords)
          /\ Link("frames", stream'["frames"],
                  <<NextFrame("frames", ta), Len(got'["ta_parser"]) + 1>>,
                  out["book"], published)
          /\ out["ta_parser"] = <<>> /\ out'["ta_parser"] = w
          /\ \A b \in Blocks \ {"ta_parser"} : got'[b] = got[b] /\ out'[b] = out[b]
          /\ \A s \in Streams \ {"frames"} : stream'[s] = stream[s]
      <3>1. ReadLast("ta_parser", "frames", BookWords, w)  BY <1>6, <2>1
      <3> QED  BY <1>3, <1>4, <3>1, ReadLastFacts
    <2>3. /\ num_updates'["ta_parser"] = Following(ta)
          /\ num_updates'["cov_update"] = num_updates["cov_update"]
          /\ UNCHANGED <<published, ordered, faults>>
      BY <1>2, <1>6 DEF TypeOK
    <2>4. c = <<>> /\ g = <<>>
      <3>1. c \o g = <<>>  BY <1>1, <2>2 DEF AlignedAt
      <3> QED  BY <3>1, EmptyConcat
    <2>5. PICK cn : cn = To("prices_cov", Message(NumStocks, ta))  OBVIOUS
    <2>6. PICK gn : gn = IF ta > 0 THEN To("prices_og", Message(NumStocks, ta)) ELSE <<>>
      OBVIOUS
    <2>7. w = cn \o gn  BY <1>2, <2>1, <2>2, <2>5, <2>6 DEF PriceWrites
    <2>8. PICK y : y = PricePlace(Len(got["order_gen"]), e)  OBVIOUS
    <2>9. PICK x : x = <<num_updates["cov_update"], Len(got["cov_update"]) + 1>>
      OBVIOUS
    <2>10. /\ Link("prices_cov", stream["prices_cov"], x, <<>>, ta)
           /\ Link("prices_og", stream["prices_og"], y, <<>>, NonZero(ta))
      BY <1>1, <1>2, <2>4, <2>8, <2>9 DEF AlignedAt
    <2>11. /\ cn \in Seq(Streams \X Word) /\ gn \in Seq(Streams \X Word)
           /\ Link("prices_cov", stream["prices_cov"], x, cn, Following(ta))
           /\ Link("prices_og", stream["prices_og"], y, gn, NonZero(Following(ta)))
      BY <1>3, <2>5, <2>6, <2>10, PriceLinks
    <2>12. NextFrame("frames", ta) = Following(ta)  BY DEF NextFrame
    <2>13. AlignedAt(e, q, cn, gn)'
      BY <1>1, <2>2, <2>3, <2>7, <2>8, <2>9, <2>11, <2>12, StreamNames DEF AlignedAt
    <2>14. AllValid'  BY <2>2, StreamNames DEF Aligned, AllValid
    <2> QED  BY <1>3, <2>3, <2>11, <2>13, <2>14 DEF Aligned
  <1> QED  BY <1>5, <1>6 DEF ta_parser

\* A frame's matrix: none for the first frame.
LEMMA MatrixLink ==
  ASSUME NEW cv \in Frame, NEW r, NEW x, Link("matrix", r, x, <<>>, NonZero(cv)),
         NEW w, w = IF cv = 0 THEN <<>> ELSE To("matrix", Message(NumStocks * NumStocks, cv))
  PROVE  Link("matrix", r, x, w, NonZero(Following(cv)))
  <1>1. "matrix" \in Streams /\ Size["matrix"] = NumStocks * NumStocks
    BY SizeFacts, StreamNames
  <1>2. CASE cv = 0
    <2>1. 0 \in Frame /\ 0 # CounterSize - 1  BY FrameFacts, Sizes
    <2>2. PICK z \in Frame : z = 0  BY <2>1
    <2>3. Following(z) = z + 1  BY <2>1, <2>2, FollowingFacts
    <2>4. NonZero(Following(cv)) = NonZero(cv)  BY <1>2, <2>2, <2>3 DEF NonZero
    <2> QED  BY <1>2, <2>4
  <1>3. CASE cv # 0
    <2>1. NonZero(cv) = cv /\ w = To("matrix", Message(Size["matrix"], cv))
      BY <1>1, <1>3 DEF NonZero
    <2>2. Link("matrix", r, x, w, NextFrame("matrix", cv))  BY <1>1, <2>1, LinkNew
    <2> QED  BY <2>2 DEF NextFrame, Skip
  <1> QED  BY <1>2, <1>3

\* cov_update reads a price; after the last one it has a matrix to write.
LEMMA CovarianceAligned ==
  ASSUME TypeOK, Aligned, cov_update
  PROVE  Aligned'
  <1>1. PICK e \in Frame \ {0}, q \in Frame \ {0},
             c \in Seq(Streams \X Word), g \in Seq(Streams \X Word) : AlignedAt(e, q, c, g)
    BY DEF Aligned
  <1>2. PICK cv : cv = num_updates["cov_update"]  OBVIOUS
  <1>3. /\ cv \in Frame /\ "cov_update" \in Blocks /\ "prices_cov" \in Streams
        /\ NumStocks = Size["prices_cov"] /\ ordered \in Frame
    BY <1>2, AlignedNumbers, StreamNames, SizeFacts DEF Aligned
  <1>4. PICK ta : ta = num_updates["ta_parser"]  OBVIOUS
  <1>5. /\ Reads(got["cov_update"], cv, NumStocks)
        /\ Link("prices_cov", stream["prices_cov"], <<cv, Len(got["cov_update"]) + 1>>, c, ta)
    BY <1>1, <1>2, <1>4 DEF AlignedAt
  <1>6. CASE ReadOn("cov_update", "prices_cov", NumStocks)
    <2>1. /\ Reads(got'["cov_update"], cv, NumStocks)
          /\ Link("prices_cov", stream'["prices_cov"],
                  <<cv, Len(got'["cov_update"]) + 1>>, c, ta)
          /\ \A b \in Blocks \ {"cov_update"} : got'[b] = got[b]
          /\ \A s \in Streams \ {"prices_cov"} : stream'[s] = stream[s]
          /\ UNCHANGED <<out, num_updates, published, ordered, faults>>
      BY <1>3, <1>5, <1>6, ReadOnFacts
    <2>2. AlignedAt(e, q, c, g)'  BY <1>1, <1>2, <1>4, <2>1, StreamNames DEF AlignedAt
    <2>3. AllValid'  BY <2>1, StreamNames DEF Aligned, AllValid
    <2> QED  BY <1>3, <2>1, <2>2, <2>3 DEF Aligned
  <1>7. CASE /\ ReadLast("cov_update", "prices_cov", NumStocks,
                         MatrixWrites(FrameOf(Words("cov_update", "prices_cov"))))
             /\ num_updates' = [num_updates EXCEPT !["cov_update"] = Following(@)]
             /\ UNCHANGED <<published, ordered, faults>>
    <2>1. PICK w : w = MatrixWrites(FrameOf(Words("cov_update", "prices_cov")))  OBVIOUS
    <2>2. /\ FrameOf(Words("cov_update", "prices_cov")) = cv
          /\ \A f : Reads(got'["cov_update"], f, NumStocks)
          /\ Link("prices_cov", stream'["prices_cov"],
                  <<NextFrame("prices_cov", cv), Len(got'["cov_update"]) + 1>>, c, ta)
          /\ out["cov_update"] = <<>> /\ out'["cov_update"] = w
          /\ \A b \in Blocks \ {"cov_update"} : got'[b] = got[b] /\ out'[b] = out[b]
          /\ \A s \in Streams \ {"prices_cov"} : stream'[s] = stream[s]
      <3>1. ReadLast("cov_update", "prices_cov", NumStocks, w)  BY <1>7, <2>1
      <3> QED  BY <1>3, <1>5, <3>1, ReadLastFacts
    <2>3. /\ num_updates'["cov_update"] = Following(cv)
          /\ num_updates'["ta_parser"] = ta
          /\ UNCHANGED <<published, ordered, faults>>
      BY <1>2, <1>4, <1>7 DEF TypeOK
    <2>4. w = IF cv = 0 THEN <<>> ELSE To("matrix", Message(NumStocks * NumStocks, cv))
      BY <1>2, <2>1, <2>2 DEF MatrixWrites
    <2>5. PICK x : x = <<q, Len(got["qr_decomp"]) + 1>>  OBVIOUS
    <2>6. Link("matrix", stream["matrix"], x, w, NonZero(Following(cv)))
      <3>1. Link("matrix", stream["matrix"], x, <<>>, NonZero(cv))
        BY <1>1, <1>2, <2>2, <2>5 DEF AlignedAt
      <3> QED  BY <1>3, <2>4, <3>1, MatrixLink
    <2>7. NextFrame("prices_cov", cv) = Following(cv)  BY DEF NextFrame
    <2>8. AlignedAt(e, q, c, g)'
      BY <1>1, <1>4, <2>2, <2>3, <2>5, <2>6, <2>7, StreamNames DEF AlignedAt
    <2>9. AllValid'  BY <2>2, StreamNames DEF Aligned, AllValid
    <2> QED  BY <1>3, <2>3, <2>8, <2>9 DEF Aligned
  <1> QED  BY <1>6, <1>7 DEF cov_update

\* The weights of a frame, when all of them are valid.
LEMMA WeightsLink ==
  ASSUME NEW q \in Frame, NEW r, NEW x, Link("weights", r, x, <<>>, q),
         NEW v \in [1 .. NumStocks -> BOOLEAN], \A i \in 1 .. NumStocks : v[i],
         NEW w, w = To("weights",
                       [i \in 1 .. NumStocks |-> [frame |-> q, part |-> i, valid |-> v[i]]])
  PROVE  /\ Link("weights", r, x, w, Skip(q))
         /\ \A i \in 1 .. Len(w) : w[i][2].valid
  <1> DEFINE m == [i \in 1 .. NumStocks |-> [frame |-> q, part |-> i, valid |-> v[i]]]
  <1>1. /\ "weights" \in Streams /\ Size["weights"] = NumStocks /\ NumStocks \in Nat
        /\ NextFrame("weights", q) = Skip(q)
    BY SizeFacts, Sizes, StreamNames DEF NextFrame
  <1>2. /\ m \in Seq(Word) /\ Len(m) = NumStocks
        /\ \A i \in 1 .. NumStocks : m[i] = [frame |-> q, part |-> i, valid |-> v[i]]
    <2>1. \A i \in 1 .. NumStocks : [frame |-> q, part |-> i, valid |-> v[i]] \in Word
      BY DEF Word
    <2>2. m \in [1 .. NumStocks -> Word]  BY <2>1
    <2> QED  BY <1>1, <2>2
  <1> HIDE DEF m
  <1>3. w = To("weights", m)  BY DEF m
  <1>4. Len(w) = NumStocks /\ \A i \in 1 .. NumStocks : w[i] = <<"weights", m[i]>>
    <2>1. /\ Len(To("weights", m)) = Len(m)
          /\ \A i \in 1 .. Len(m) : To("weights", m)[i] = <<"weights", m[i]>>
      BY <1>1, <1>2, ToFacts
    <2> QED  BY <1>2, <1>3, <2>1
  <1>5. ASSUME NEW i \in 1 .. Len(w)
        PROVE  w[i][1] = "weights" /\ At(w[i][2]) = <<q, i>> /\ w[i][2].valid
    <2>1. i \in 1 .. NumStocks /\ v[i] = TRUE  BY <1>4, <1>5
    <2>2. w[i] = <<"weights", m[i]>> /\ m[i] = [frame |-> q, part |-> i, valid |-> TRUE]
      BY <1>2, <1>4, <2>1
    <2>3. w[i][1] = "weights" /\ w[i][2] = [frame |-> q, part |-> i, valid |-> TRUE]
      <3>1. PICK u : u = m[i]  OBVIOUS
      <3>2. w[i] = <<"weights", u>>  BY <2>2, <3>1
      <3>3. PICK y : y = w[i]  OBVIOUS
      <3>4. y = <<"weights", u>>  BY <3>2, <3>3
      <3>5. y[1] = "weights" /\ y[2] = u  BY ONLY <3>4
      <3> QED  BY <2>2, <3>1, <3>3, <3>5
    <2> QED  BY <2>3 DEF At
  <1>6. Link("weights", r, x, w, NextFrame("weights", q))
    BY <1>1, <1>4, <1>5, LinkNewWords
  <1> QED  BY <1>1, <1>5, <1>6

\* qr_decomp reads a word of the matrix; after the last one it has the weights to
\* write.
LEMMA SolverAligned ==
  ASSUME TypeOK, Aligned, qr_decomp, faults' = 0
  PROVE  Aligned'
  <1>1. PICK e \in Frame \ {0}, q \in Frame \ {0},
             c \in Seq(Streams \X Word), g \in Seq(Streams \X Word) : AlignedAt(e, q, c, g)
    BY DEF Aligned
  <1>2. PICK n : n = NumStocks * NumStocks  OBVIOUS
  <1>3. /\ "qr_decomp" \in Blocks /\ "matrix" \in Streams /\ n = Size["matrix"]
        /\ ordered \in Frame
    BY <1>2, StreamNames, SizeFacts DEF Aligned
  <1>4. PICK z : z = NonZero(num_updates["cov_update"])  OBVIOUS
  <1>5. /\ Reads(got["qr_decomp"], q, n)
        /\ Link("matrix", stream["matrix"], <<q, Len(got["qr_decomp"]) + 1>>,
                out["cov_update"], z)
    BY <1>1, <1>3, <1>4 DEF AlignedAt
  <1>6. CASE ReadOn("qr_decomp", "matrix", n)
    <2>1. /\ Reads(got'["qr_decomp"], q, n)
          /\ Link("matrix", stream'["matrix"], <<q, Len(got'["qr_decomp"]) + 1>>,
                  out["cov_update"], z)
          /\ \A b \in Blocks \ {"qr_decomp"} : got'[b] = got[b]
          /\ \A s \in Streams \ {"matrix"} : stream'[s] = stream[s]
          /\ UNCHANGED <<out, num_updates, published, ordered, faults>>
      BY <1>3, <1>5, <1>6, ReadOnFacts
    <2>2. AlignedAt(e, q, c, g)'  BY <1>1, <1>3, <1>4, <2>1, StreamNames DEF AlignedAt
    <2>3. AllValid'  BY <2>1, StreamNames DEF Aligned, AllValid
    <2> QED  BY <1>3, <2>1, <2>2, <2>3 DEF Aligned
  <1>7. ASSUME NEW v \in [1 .. NumStocks -> BOOLEAN], NEW f,
               f = FrameOf(Words("qr_decomp", "matrix")),
               NEW w, w = To("weights", [i \in 1 .. NumStocks |->
                                           [frame |-> f, part |-> i, valid |-> v[i]]]),
               ReadLast("qr_decomp", "matrix", n, w),
               faults' = IF \E i \in 1 .. NumStocks : ~ v[i] THEN faults + 1 ELSE faults,
               UNCHANGED <<num_updates, published, ordered>>
        PROVE  Aligned'
    <2>1. /\ f = q
          /\ \A h : Reads(got'["qr_decomp"], h, n)
          /\ Link("matrix", stream'["matrix"],
                  <<NextFrame("matrix", q), Len(got'["qr_decomp"]) + 1>>,
                  out["cov_update"], z)
          /\ out["qr_decomp"] = <<>> /\ out'["qr_decomp"] = w
          /\ \A b \in Blocks \ {"qr_decomp"} : got'[b] = got[b] /\ out'[b] = out[b]
          /\ \A s \in Streams \ {"matrix"} : stream'[s] = stream[s]
      <3>1. ReadLast("qr_decomp", "matrix", n, w)  BY <1>7
      <3>2. /\ FrameOf(Words("qr_decomp", "matrix")) = q
            /\ \A h : Reads(got'["qr_decomp"], h, n)
            /\ Link("matrix", stream'["matrix"],
                    <<NextFrame("matrix", q), Len(got'["qr_decomp"]) + 1>>,
                    out["cov_update"], z)
            /\ out["qr_decomp"] = <<>> /\ out'["qr_decomp"] = w
            /\ \A b \in Blocks \ {"qr_decomp"} : got'[b] = got[b] /\ out'[b] = out[b]
            /\ \A s \in Streams \ {"matrix"} : stream'[s] = stream[s]
        BY <1>3, <1>5, <3>1, ReadLastFacts
      <3>3. f = FrameOf(Words("qr_decomp", "matrix"))  BY <1>7
      <3> QED  BY <3>2, <3>3
    <2>2. \A i \in 1 .. NumStocks : v[i]
      <3>1. faults \in Nat  BY DEF TypeOK
      <3>2. faults + 1 # 0  BY <3>1
      <3> QED  BY <1>7, <3>2
    <2>3. PICK x : x = WeightPlace(Len(got["order_gen"]), e)  OBVIOUS
    <2>4. Link("weights", stream["weights"], x, <<>>, q)
      BY <1>1, <2>1, <2>3 DEF AlignedAt
    <2>5. /\ Link("weights", stream["weights"], x, w, Skip(q))
          /\ \A i \in 1 .. Len(w) : w[i][2].valid
      <3>1. w = To("weights",
                   [i \in 1 .. NumStocks |-> [frame |-> q, part |-> i, valid |-> v[i]]])
        BY <1>7, <2>1
      <3>2. q \in Frame  OBVIOUS
      <3> QED  BY <2>2, <2>4, <3>1, <3>2, WeightsLink
    <2>6. NextFrame("matrix", q) = Skip(q) /\ Skip(q) \in Frame \ {0}
      BY FrameFacts DEF NextFrame
    <2>7. AlignedAt(e, Skip(q), c, g)'
      BY <1>1, <1>3, <1>4, <1>7, <2>1, <2>3, <2>5, <2>6, StreamNames DEF AlignedAt
    <2>8. AllValid'  BY <2>1, <2>5, StreamNames DEF Aligned, AllValid
    <2> QED  BY <1>3, <1>7, <2>6, <2>7, <2>8 DEF Aligned
  <1>8. PICK f : f = FrameOf(Words("qr_decomp", "matrix"))  OBVIOUS
  <1>9. ReadOn("qr_decomp", "matrix", n)
        \/ \E v \in [1 .. NumStocks -> BOOLEAN] :
             /\ ReadLast("qr_decomp", "matrix", n,
                         To("weights", [i \in 1 .. NumStocks |->
                                          [frame |-> f, part |-> i, valid |-> v[i]]]))
             /\ faults' = IF \E i \in 1 .. NumStocks : ~ v[i] THEN faults + 1 ELSE faults
             /\ UNCHANGED <<num_updates, published, ordered>>
    BY <1>2, <1>8, Zenon DEF qr_decomp
  <1> QED  BY <1>6, <1>7, <1>8, <1>9

LEMMA OrderPlaces ==
  ASSUME NEW l \in Nat, NEW e
  PROVE  /\ l < NumStocks =>
              /\ PricePlace(l, e) = <<e, l + 1>>
              /\ PricePlace(l + 1, e) = Succ("prices_og", <<e, l + 1>>)
              /\ WeightPlace(l + 1, e) = WeightPlace(l, e)
         /\ l >= NumStocks =>
              /\ WeightPlace(l, e) = <<e, l - NumStocks + 1>>
              /\ PricePlace(l + 1, e) = PricePlace(l, e)
              /\ l + 1 < 2 * NumStocks =>
                   WeightPlace(l + 1, e) = Succ("weights", <<e, l - NumStocks + 1>>)
              /\ l + 1 = 2 * NumStocks =>
                   /\ WeightPlace(0, Skip(e)) = Succ("weights", <<e, l - NumStocks + 1>>)
                   /\ PricePlace(0, Skip(e)) = PricePlace(l, e)
  <1>1. NumStocks \in Nat /\ NumStocks >= 1 /\ Size["prices_og"] = NumStocks
        /\ Size["weights"] = NumStocks
    BY Sizes, SizeFacts
  <1>2. NextFrame("prices_og", e) = Skip(e) /\ NextFrame("weights", e) = Skip(e)
    BY DEF NextFrame
  <1>3. ASSUME l < NumStocks
        PROVE  /\ PricePlace(l, e) = <<e, l + 1>>
               /\ PricePlace(l + 1, e) = Succ("prices_og", <<e, l + 1>>)
               /\ WeightPlace(l + 1, e) = WeightPlace(l, e)
    <2>1. PICK n : n = l + 1  OBVIOUS
    <2>2. Succ("prices_og", <<e, n>>) = IF n < NumStocks THEN <<e, n + 1>> ELSE <<Skip(e), 1>>
      BY <1>1, <1>2 DEF Succ
    <2>3. WeightPlace(n, e) = WeightPlace(l, e)
      <3>1. n < NumStocks \/ n - NumStocks + 1 = 1  BY <1>1, <1>3, <2>1
      <3> QED  BY <1>3, <3>1 DEF WeightPlace
    <2> QED  BY <1>3, <2>1, <2>2, <2>3 DEF PricePlace
  <1>4. ASSUME l >= NumStocks
        PROVE  /\ WeightPlace(l, e) = <<e, l - NumStocks + 1>>
               /\ PricePlace(l + 1, e) = PricePlace(l, e)
               /\ l + 1 < 2 * NumStocks =>
                    WeightPlace(l + 1, e) = Succ("weights", <<e, l - NumStocks + 1>>)
               /\ l + 1 = 2 * NumStocks =>
                    /\ WeightPlace(0, Skip(e)) = Succ("weights", <<e, l - NumStocks + 1>>)
                    /\ PricePlace(0, Skip(e)) = PricePlace(l, e)
    <2>1. PICK k : k = l - NumStocks + 1  OBVIOUS
    <2>2. PICK n : n = l + 1  OBVIOUS
    <2>3. Succ("weights", <<e, k>>) = IF k < NumStocks THEN <<e, k + 1>> ELSE <<Skip(e), 1>>
      BY <1>1, <1>2 DEF Succ
    <2>4. /\ ~ (l < NumStocks) /\ ~ (n < NumStocks) /\ n - NumStocks + 1 = k + 1
          /\ (n < 2 * NumStocks => k < NumStocks)
          /\ (n = 2 * NumStocks => ~ (k < NumStocks))
          /\ 0 < NumStocks /\ 0 + 1 = 1
      BY <1>1, <1>4, <2>1, <2>2
    <2>5. WeightPlace(l, e) = <<e, k>> /\ PricePlace(l, e) = <<Skip(e), 1>>
      BY <2>1, <2>4 DEF WeightPlace, PricePlace
    <2>6. WeightPlace(n, e) = <<e, k + 1>> /\ PricePlace(n, e) = <<Skip(e), 1>>
      BY <2>4 DEF WeightPlace, PricePlace
    <2>7. WeightPlace(0, Skip(e)) = <<Skip(e), 1>> /\ PricePlace(0, Skip(e)) = <<Skip(e), 1>>
      BY <2>4 DEF WeightPlace, PricePlace
    <2> QED  BY <2>1, <2>2, <2>3, <2>4, <2>5, <2>6, <2>7
  <1>5. l < NumStocks \/ l >= NumStocks  BY <1>1
  <1> QED  BY <1>1, <1>3, <1>4, <1>5

\* order_gen reads a price or a weight; after the last one it has the orders to
\* write.
LEMMA OrderGenAligned ==
  ASSUME TypeOK, Aligned, order_gen
  PROVE  Aligned'
  <1>1. PICK e \in Frame \ {0}, q \in Frame \ {0},
             c \in Seq(Streams \X Word), g \in Seq(Streams \X Word) : AlignedAt(e, q, c, g)
    BY DEF Aligned
  <1>2. PICK l : l = Len(got["order_gen"])  OBVIOUS
  <1>3. /\ l \in Nat /\ "order_gen" \in Blocks /\ ordered \in Frame
        /\ "prices_og" \in Streams /\ "weights" \in Streams
        /\ NumStocks \in Nat /\ NumStocks >= 1
    BY <1>2, AlignedNumbers, StreamNames DEF Aligned
  <1>4. /\ l < 2 * NumStocks
        /\ \A i \in 1 .. Len(got["order_gen"]) : got["order_gen"][i].frame = e
    BY <1>1, <1>2 DEF AlignedAt, Reads
  <1>5. PICK z : z = NonZero(num_updates["ta_parser"])  OBVIOUS
  <1>6. /\ Link("prices_og", stream["prices_og"], PricePlace(l, e), g, z)
        /\ Link("weights", stream["weights"], WeightPlace(l, e), out["qr_decomp"], q)
    BY <1>1, <1>2, <1>5 DEF AlignedAt
  <1>7. CASE l < NumStocks /\ ReadOn("order_gen", "prices_og", 2 * NumStocks)
    <2>1. /\ MayRead("order_gen", "prices_og") /\ Pull("prices_og")
          /\ l + 1 < 2 * NumStocks
          /\ got' = [got EXCEPT !["order_gen"] = Words("order_gen", "prices_og")]
          /\ UNCHANGED <<out, num_updates, published, ordered, faults>>
      BY <1>2, <1>7 DEF ReadOn
    <2>2. /\ got'["order_gen"] = Words("order_gen", "prices_og")
          /\ \A b \in Blocks \ {"order_gen"} : got'[b] = got[b]
      BY <1>3, <2>1 DEF TypeOK
    <2>3. PICK k : k = l + 1  OBVIOUS
    <2>4. Link("prices_og", stream["prices_og"], <<e, k>>, g, z)
      BY <1>3, <1>6, <1>7, <2>3, OrderPlaces
    <2>5. /\ \A i \in 1 .. Len(got'["order_gen"]) : got'["order_gen"][i].frame = e
          /\ Len(got'["order_gen"]) = k
          /\ Link("prices_og", stream'["prices_og"], Succ("prices_og", <<e, k>>), g, z)
      <3>1. /\ \A i \in 1 .. Len(Words("order_gen", "prices_og")) :
                 Words("order_gen", "prices_og")[i].frame = e
            /\ Len(Words("order_gen", "prices_og")) = Len(got["order_gen"]) + 1
            /\ Link("prices_og", stream'["prices_og"], Succ("prices_og", <<e, k>>), g, z)
        BY <1>3, <1>4, <2>1, <2>4, ReadFacts
      <3> QED  BY <1>2, <2>2, <2>3, <3>1
    <2>6. /\ PricePlace(k, e) = Succ("prices_og", <<e, k>>)
          /\ WeightPlace(k, e) = WeightPlace(l, e)
      BY <1>3, <1>7, <2>3, OrderPlaces
    <2>7. \A s \in Streams \ {"prices_og"} : stream'[s] = stream[s]
      BY <1>3, <2>1, PullFacts
    <2>8. Reads(got'["order_gen"], e, 2 * NumStocks)
      BY <2>1, <2>3, <2>5 DEF Reads
    <2>9. AlignedAt(e, q, c, g)'
      BY <1>1, <1>2, <1>5, <2>1, <2>2, <2>5, <2>6, <2>7, <2>8, StreamNames DEF AlignedAt
    <2>10. AllValid'  BY <2>1, <2>7, StreamNames DEF Aligned, AllValid
    <2> QED  BY <1>3, <2>1, <2>9, <2>10 DEF Aligned
  <1>8. ASSUME l >= NumStocks, MayRead("order_gen", "weights"), Pull("weights"),
               NEW k, k = l - NumStocks + 1
        PROVE  /\ \A i \in 1 .. Len(Words("order_gen", "weights")) :
                    Words("order_gen", "weights")[i].frame = e
               /\ FrameOf(Words("order_gen", "weights")) = e
               /\ Len(Words("order_gen", "weights")) = l + 1
               /\ Link("weights", stream'["weights"], Succ("weights", <<e, k>>),
                       out["qr_decomp"], q)
               /\ \A s \in Streams \ {"weights"} : stream'[s] = stream[s]
               /\ Head(stream["weights"]).valid
               /\ \A i \in 1 .. Len(stream'["weights"]) : stream'["weights"][i].valid
    <2>1. Link("weights", stream["weights"], <<e, k>>, out["qr_decomp"], q)
      BY <1>3, <1>6, <1>8, OrderPlaces
    <2>2. /\ \A i \in 1 .. Len(Words("order_gen", "weights")) :
               Words("order_gen", "weights")[i].frame = e
          /\ FrameOf(Words("order_gen", "weights")) = e
          /\ Len(Words("order_gen", "weights")) = l + 1
          /\ Link("weights", stream'["weights"], Succ("weights", <<e, k>>),
                  out["qr_decomp"], q)
      BY <1>2, <1>3, <1>4, <1>8, <2>1, ReadFacts
    <2>3. /\ stream'["weights"] = Tail(stream["weights"])
          /\ \A s \in Streams \ {"weights"} : stream'[s] = stream[s]
      BY <1>3, <1>8, PullFacts
    <2>4. /\ Len(stream["weights"]) \in Nat /\ Len(stream["weights"]) >= 1
          /\ Head(stream["weights"]) = stream["weights"][1]
          /\ Len(stream'["weights"]) = Len(stream["weights"]) - 1
          /\ \A i \in 1 .. Len(stream["weights"]) - 1 :
               stream'["weights"][i] = stream["weights"][i + 1]
      BY <1>3, <1>8, <2>3, WordsFacts
    <2>5. \A i \in 1 .. Len(stream["weights"]) : stream["weights"][i].valid
      BY DEF Aligned, AllValid
    <2>6. Head(stream["weights"]).valid
      <3>1. 1 \in 1 .. Len(stream["weights"])  BY <2>4
      <3> QED  BY <2>4, <2>5, <3>1
    <2>7. ASSUME NEW i \in 1 .. Len(stream'["weights"]) PROVE stream'["weights"][i].valid
      <3>1. /\ i \in 1 .. Len(stream["weights"]) - 1 /\ i + 1 \in 1 .. Len(stream["weights"])
        BY <2>4
      <3> QED  BY <2>4, <2>5, <3>1
    <2> QED  BY <2>2, <2>3, <2>6, <2>7
  <1>9. CASE l >= NumStocks /\ ReadOn("order_gen", "weights", 2 * NumStocks)
    <2>1. /\ MayRead("order_gen", "weights") /\ Pull("weights")
          /\ l + 1 < 2 * NumStocks
          /\ got' = [got EXCEPT !["order_gen"] = Words("order_gen", "weights")]
          /\ UNCHANGED <<out, num_updates, published, ordered, faults>>
      BY <1>2, <1>9 DEF ReadOn
    <2>2. /\ got'["order_gen"] = Words("order_gen", "weights")
          /\ \A b \in Blocks \ {"order_gen"} : got'[b] = got[b]
      BY <1>3, <2>1 DEF TypeOK
    <2>3. PICK k : k = l - NumStocks + 1  OBVIOUS
    <2>4. /\ \A i \in 1 .. Len(got'["order_gen"]) : got'["order_gen"][i].frame = e
          /\ Len(got'["order_gen"]) = l + 1
          /\ Link("weights", stream'["weights"], Succ("weights", <<e, k>>),
                  out["qr_decomp"], q)
          /\ \A s \in Streams \ {"weights"} : stream'[s] = stream[s]
          /\ \A i \in 1 .. Len(stream'["weights"]) : stream'["weights"][i].valid
      BY <1>8, <1>9, <2>1, <2>2, <2>3
    <2>5. PICK n : n = l + 1  OBVIOUS
    <2>6. /\ WeightPlace(n, e) = Succ("weights", <<e, k>>)
          /\ PricePlace(n, e) = PricePlace(l, e)
      BY <1>3, <1>9, <2>1, <2>3, <2>5, OrderPlaces
    <2>7. Reads(got'["order_gen"], e, 2 * NumStocks)  BY <2>1, <2>4 DEF Reads
    <2>8. AlignedAt(e, q, c, g)'
      BY <1>1, <1>2, <1>5, <2>1, <2>2, <2>4, <2>5, <2>6, <2>7, StreamNames DEF AlignedAt
    <2>9. AllValid'  BY <2>1, <2>4, StreamNames DEF Aligned, AllValid
    <2> QED  BY <1>3, <2>1, <2>8, <2>9 DEF Aligned
  <1>10. CASE /\ l >= NumStocks
              /\ ReadLast("order_gen", "weights", 2 * NumStocks,
                          OrderWrites(FrameOf(Words("order_gen", "weights"))))
              /\ UNCHANGED <<num_updates, published, ordered, faults>>
    <2>1. PICK w : w = OrderWrites(FrameOf(Words("order_gen", "weights")))  OBVIOUS
    <2>2. /\ MayRead("order_gen", "weights") /\ Pull("weights") /\ out["order_gen"] = <<>>
          /\ l + 1 = 2 * NumStocks
          /\ got' = [got EXCEPT !["order_gen"] = <<>>]
          /\ out' = [out EXCEPT !["order_gen"] = w]
          /\ UNCHANGED <<num_updates, published, ordered, faults>>
      BY <1>2, <1>10, <2>1 DEF ReadLast, MayRead
    <2>3. /\ got'["order_gen"] = <<>> /\ out'["order_gen"] = w
          /\ \A b \in Blocks \ {"order_gen"} : got'[b] = got[b] /\ out'[b] = out[b]
      BY <1>3, <2>2 DEF TypeOK
    <2>4. PICK k : k = l - NumStocks + 1  OBVIOUS
    <2>5. /\ FrameOf(Words("order_gen", "weights")) = e
          /\ Link("weights", stream'["weights"], Succ("weights", <<e, k>>),
                  out["qr_decomp"], q)
          /\ \A s \in Streams \ {"weights"} : stream'[s] = stream[s]
          /\ \A i \in 1 .. Len(stream'["weights"]) : stream'["weights"][i].valid
      BY <1>8, <1>10, <2>2, <2>4
    <2>6. PICK d : d = Skip(e)  OBVIOUS
    <2>7. /\ WeightPlace(0, d) = Succ("weights", <<e, k>>)
          /\ PricePlace(0, d) = PricePlace(l, e)
      BY <1>3, <1>10, <2>2, <2>4, <2>6, OrderPlaces
    <2>8. d \in Frame \ {0} /\ NextFrame("orders", e) = d
      BY <2>6, FrameFacts DEF NextFrame
    <2>9. Len(got'["order_gen"]) = 0  BY <2>3
    <2>10. Reads(got'["order_gen"], d, 2 * NumStocks)
      <3>1. 0 < 2 * NumStocks  BY <1>3
      <3> QED  BY <2>9, <3>1 DEF Reads
    <2>11. PICK x : x = <<Skip(ordered), Len(got["mb"]) + 1>>  OBVIOUS
    <2>12. Link("orders", stream["orders"], x, w, d)
      <3>1. Link("orders", stream["orders"], x, <<>>, e)
        BY <1>1, <2>2, <2>11 DEF AlignedAt
      <3>2. "orders" \in Streams /\ Size["orders"] = MessageWords  BY SizeFacts, StreamNames
      <3>3. w = To("orders", Message(Size["orders"], e))
        BY <2>1, <2>5, <3>2 DEF OrderWrites
      <3>4. e \in Frame  OBVIOUS
      <3> QED  BY <2>8, <3>1, <3>2, <3>3, <3>4, LinkNew
    <2>13. AlignedAt(d, q, c, g)'
      BY ZenonT(60), <1>1, <1>2, <1>5, <1>6, <2>2, <2>3, <2>5, <2>7, <2>9, <2>10, <2>11, <2>12,
         StreamNames DEF AlignedAt
    <2>14. AllValid'  BY <2>3, <2>5, StreamNames DEF Aligned, AllValid
    <2> QED  BY <1>3, <2>2, <2>8, <2>13, <2>14 DEF Aligned
  <1>11. CASE /\ l >= NumStocks /\ MayRead("order_gen", "weights")
              /\ ~ Head(stream["weights"]).valid /\ Pull("weights")
    <2>1. PICK k : k = l - NumStocks + 1  OBVIOUS
    <2> QED  BY <1>8, <1>11, <2>1
  <1> QED  BY <1>2, <1>7, <1>9, <1>10, <1>11 DEF order_gen

\* The program reads a word; the last one completes a message.
LEMMA ProgramAligned ==
  ASSUME TypeOK, Aligned, mb
  PROVE  Aligned' /\ (ordered' # ordered => ordered' = Skip(ordered))
  <1>1. PICK e \in Frame \ {0}, q \in Frame \ {0},
             c \in Seq(Streams \X Word), g \in Seq(Streams \X Word) : AlignedAt(e, q, c, g)
    BY DEF Aligned
  <1>2. PICK f : f = Skip(ordered)  OBVIOUS
  <1>3. /\ f \in Frame \ {0} /\ "mb" \in Blocks /\ "orders" \in Streams
        /\ MessageWords = Size["orders"] /\ ordered \in Frame
    BY <1>2, AlignedNumbers, StreamNames, SizeFacts DEF Aligned
  <1>4. /\ Reads(got["mb"], f, MessageWords)
        /\ Link("orders", stream["orders"], <<f, Len(got["mb"]) + 1>>, out["order_gen"], e)
    BY <1>1, <1>2 DEF AlignedAt
  <1>5. CASE ReadOn("mb", "orders", MessageWords)
    <2>1. /\ Reads(got'["mb"], f, MessageWords)
          /\ Link("orders", stream'["orders"], <<f, Len(got'["mb"]) + 1>>,
                  out["order_gen"], e)
          /\ \A b \in Blocks \ {"mb"} : got'[b] = got[b]
          /\ \A s \in Streams \ {"orders"} : stream'[s] = stream[s]
          /\ UNCHANGED <<out, num_updates, published, ordered, faults>>
      BY <1>3, <1>4, <1>5, ReadOnFacts
    <2>2. AlignedAt(e, q, c, g)'  BY <1>1, <1>2, <2>1, StreamNames DEF AlignedAt
    <2>3. AllValid'  BY <2>1, StreamNames DEF Aligned, AllValid
    <2> QED  BY <1>3, <2>1, <2>2, <2>3 DEF Aligned
  <1>6. CASE /\ ReadLast("mb", "orders", MessageWords, <<>>)
             /\ ordered' = FrameOf(Words("mb", "orders"))
             /\ UNCHANGED <<num_updates, published, faults>>
    <2>1. /\ FrameOf(Words("mb", "orders")) = f
          /\ \A h : Reads(got'["mb"], h, MessageWords)
          /\ Link("orders", stream'["orders"],
                  <<NextFrame("orders", f), Len(got'["mb"]) + 1>>, out["order_gen"], e)
          /\ out["mb"] = <<>> /\ out'["mb"] = <<>>
          /\ \A b \in Blocks \ {"mb"} : got'[b] = got[b] /\ out'[b] = out[b]
          /\ \A s \in Streams \ {"orders"} : stream'[s] = stream[s]
      BY <1>3, <1>4, <1>6, ReadLastFacts
    <2>2. /\ ordered' = f /\ NextFrame("orders", f) = Skip(ordered')
          /\ UNCHANGED <<num_updates, published, faults>>
      BY <1>6, <2>1 DEF NextFrame
    <2>3. AlignedAt(e, q, c, g)'  BY <1>1, <2>1, <2>2, StreamNames DEF AlignedAt
    <2>4. AllValid'  BY <2>1, StreamNames DEF Aligned, AllValid
    <2> QED  BY <1>2, <1>3, <2>2, <2>3, <2>4 DEF Aligned
  <1> QED  BY <1>5, <1>6 DEF mb

\* A block writes a word.
LEMMA WriteAligned ==
  ASSUME TypeOK, Ports, Aligned, NEW b \in Blocks, Write(b)
  PROVE  Aligned'
  <1>1. PICK e \in Frame \ {0}, q \in Frame \ {0},
             c \in Seq(Streams \X Word), g \in Seq(Streams \X Word) : AlignedAt(e, q, c, g)
    BY DEF Aligned
  <1>2. /\ out[b] \in Seq(Streams \X Word) /\ Len(out[b]) \in Nat /\ Len(out[b]) >= 1
        /\ \A d \in Blocks \ {b} : out'[d] = out[d]
        /\ stream'[out[b][1][1]] = Append(stream[out[b][1][1]], out[b][1][2])
        /\ \A t \in Streams \ {out[b][1][1]} : stream'[t] = stream[t]
        /\ UNCHANGED <<got, num_updates, published, ordered, faults>>
        /\ out'[b] \in Seq(Streams \X Word) /\ IsRest(out'[b], out[b])
        /\ out'[b] = Tail(out[b]) /\ ordered \in Frame
    <2>1. /\ Len(out[b]) \in Nat /\ Len(out[b]) >= 1
          /\ \A d \in Blocks \ {b} : out'[d] = out[d]
          /\ stream'[out[b][1][1]] = Append(stream[out[b][1][1]], out[b][1][2])
          /\ \A t \in Streams \ {out[b][1][1]} : stream'[t] = stream[t]
          /\ UNCHANGED <<got, num_updates, published, ordered, faults>>
          /\ out'[b] = Tail(out[b]) /\ Len(out'[b]) = Len(out[b]) - 1
          /\ \A i \in 1 .. Len(out[b]) - 1 : out'[b][i] = out[b][i + 1]
          /\ TypeOK'
      BY WriteFacts
    <2>2. out[b] \in Seq(Streams \X Word) /\ out'[b] \in Seq(Streams \X Word)
      BY <2>1 DEF TypeOK
    <2>3. IsRest(out'[b], out[b])  BY <2>1 DEF IsRest
    <2>4. ordered \in Frame  BY DEF Aligned
    <2> QED  BY <2>1, <2>2, <2>3, <2>4
  <1>3. ASSUME NEW s \in Streams, NEW x, NEW f, Link(s, stream[s], x, out[b], f)
        PROVE  /\ Link(s, stream'[s], x, out'[b], f)
               /\ \A t \in Streams \ {s} : stream'[t] = stream[t]
               /\ stream'[s] = Append(stream[s], out[b][1][2])
    <2>1. stream[s] \in Seq(Word)  BY DEF TypeOK
    <2>2. out[b][1][1] = s /\ Link(s, Append(stream[s], out[b][1][2]), x, out'[b], f)
      BY <1>2, <1>3, <2>1, LinkWrite
    <2> QED  BY <1>2, <2>2
  <1>4. ASSUME b # "qr_decomp", stream'["weights"] = stream["weights"]
        PROVE  AllValid'
    BY <1>2, <1>4, StreamNames DEF Aligned, AllValid
  <1>5. CASE b = "book"
    <2>1. PICK x : x = <<num_updates["ta_parser"], Len(got["ta_parser"]) + 1>>  OBVIOUS
    <2>2. Link("frames", stream["frames"], x, out[b], published)
      BY <1>1, <1>5, <2>1 DEF AlignedAt
    <2>3. /\ Link("frames", stream'["frames"], x, out'[b], published)
          /\ \A t \in Streams \ {"frames"} : stream'[t] = stream[t]
      BY <1>3, <2>2, StreamNames
    <2>4. AlignedAt(e, q, c, g)'  BY <1>1, <1>2, <1>5, <2>1, <2>3, StreamNames DEF AlignedAt
    <2>5. AllValid'  BY <1>4, <1>5, <2>3, StreamNames
    <2> QED  BY <1>2, <2>4, <2>5 DEF Aligned
  <1>6. CASE b = "cov_update"
    <2>1. PICK x : x = <<q, Len(got["qr_decomp"]) + 1>>  OBVIOUS
    <2>2. PICK f : f = NonZero(num_updates["cov_update"])  OBVIOUS
    <2>3. Link("matrix", stream["matrix"], x, out[b], f)
      BY <1>1, <1>6, <2>1, <2>2 DEF AlignedAt
    <2>4. /\ Link("matrix", stream'["matrix"], x, out'[b], f)
          /\ \A t \in Streams \ {"matrix"} : stream'[t] = stream[t]
      BY <1>3, <2>3, StreamNames
    <2>5. AlignedAt(e, q, c, g)'
      BY <1>1, <1>2, <1>6, <2>1, <2>2, <2>4, StreamNames DEF AlignedAt
    <2>6. AllValid'  BY <1>4, <1>6, <2>4, StreamNames
    <2> QED  BY <1>2, <2>5, <2>6 DEF Aligned
  <1>7. CASE b = "qr_decomp"
    <2>1. PICK x : x = WeightPlace(Len(got["order_gen"]), e)  OBVIOUS
    <2>2. Link("weights", stream["weights"], x, out[b], q)
      BY <1>1, <1>7, <2>1 DEF AlignedAt
    <2>3. /\ Link("weights", stream'["weights"], x, out'[b], q)
          /\ \A t \in Streams \ {"weights"} : stream'[t] = stream[t]
          /\ stream'["weights"] = Append(stream["weights"], out[b][1][2])
      BY <1>3, <2>2, StreamNames
    <2>4. AlignedAt(e, q, c, g)'  BY <1>1, <1>2, <1>7, <2>1, <2>3, StreamNames DEF AlignedAt
    <2>5. AllValid'
      <3> DEFINE p == stream["weights"]
                 o == out[b]
                 w == o[1][2]
      <3>1. /\ p \in Seq(Word) /\ o \in Seq(Streams \X Word) /\ Len(o) >= 1
            /\ stream'["weights"] = Append(p, w) /\ IsRest(out'[b], o)
        BY <1>2, <2>3, StreamNames DEF TypeOK
      <3>2. /\ \A i \in 1 .. Len(p) : p[i].valid
            /\ \A i \in 1 .. Len(o) : o[i][2].valid
        BY <1>7 DEF Aligned, AllValid
      <3> HIDE DEF p, o
      <3>3. 1 \in 1 .. Len(o) /\ o[1] \in Streams \X Word  BY <3>1
      <3>4. w.valid /\ w \in Word  BY <3>2, <3>3
      <3> HIDE DEF w
      <3>5. ASSUME NEW i \in 1 .. Len(Append(p, w)) PROVE Append(p, w)[i].valid
        <4>1. \/ i = Len(p) + 1 /\ Append(p, w)[i] = w
              \/ i \in 1 .. Len(p) /\ Append(p, w)[i] = p[i]
          BY <3>1, <3>4
        <4> QED  BY <3>2, <3>4, <4>1
      <3>6. ASSUME NEW i \in 1 .. Len(out'[b]) PROVE out'[b][i][2].valid
        <4>1. i + 1 \in 1 .. Len(o) /\ out'[b][i] = o[i + 1]  BY <3>1 DEF IsRest
        <4> QED  BY <3>2, <4>1
      <3> QED  BY <1>7, <3>1, <3>5, <3>6 DEF AllValid
    <2> QED  BY <1>2, <2>4, <2>5 DEF Aligned
  <1>8. CASE b = "order_gen"
    <2>1. PICK x : x = <<Skip(ordered), Len(got["mb"]) + 1>>  OBVIOUS
    <2>2. Link("orders", stream["orders"], x, out[b], e)
      BY <1>1, <1>8, <2>1 DEF AlignedAt
    <2>3. /\ Link("orders", stream'["orders"], x, out'[b], e)
          /\ \A t \in Streams \ {"orders"} : stream'[t] = stream[t]
      BY <1>3, <2>2, StreamNames
    <2>4. AlignedAt(e, q, c, g)'  BY <1>1, <1>2, <1>8, <2>1, <2>3, StreamNames DEF AlignedAt
    <2>5. AllValid'  BY <1>4, <1>8, <2>3, StreamNames
    <2> QED  BY <1>2, <2>4, <2>5 DEF Aligned
  <1>9. CASE b = "mb"
    <2>1. 1 \in 1 .. Len(out[b]) /\ Target[b] = {}  BY <1>2, <1>9, StreamNames DEF Target
    <2> QED  BY <2>1 DEF Ports
  <1>10. CASE b = "ta_parser"
    <2>1. out[b] = c \o g  BY <1>1, <1>10 DEF AlignedAt
    <2>2. PICK ta : ta = num_updates["ta_parser"]  OBVIOUS
    <2>3. PICK x : x = <<num_updates["cov_update"], Len(got["cov_update"]) + 1>>
      OBVIOUS
    <2>4. PICK y : y = PricePlace(Len(got["order_gen"]), e)  OBVIOUS
    <2>5. /\ Link("prices_cov", stream["prices_cov"], x, c, ta)
          /\ Link("prices_og", stream["prices_og"], y, g, NonZero(ta))
      BY <1>1, <2>2, <2>3, <2>4 DEF AlignedAt
    <2>6. /\ stream["prices_cov"] \in Seq(Word) /\ stream["prices_og"] \in Seq(Word)
          /\ "prices_cov" \in Streams /\ "prices_og" \in Streams
      BY StreamNames DEF TypeOK
    <2>7. CASE Len(c) >= 1
      <3>1. /\ Tail(c) \in Seq(Streams \X Word) /\ IsRest(Tail(c), c)
            /\ out[b][1] = c[1] /\ Tail(out[b]) = Tail(c) \o g
        BY <2>1, <2>7, TailOfConcat DEF IsRest
      <3>2. /\ c[1][1] = "prices_cov"
            /\ Link("prices_cov", Append(stream["prices_cov"], c[1][2]), x, Tail(c), ta)
        BY <2>5, <2>6, <2>7, <3>1, LinkWrite
      <3>3. /\ stream'["prices_cov"] = Append(stream["prices_cov"], c[1][2])
            /\ \A t \in Streams \ {"prices_cov"} : stream'[t] = stream[t]
        BY <1>2, <3>1, <3>2
      <3>4. AlignedAt(e, q, Tail(c), g)'
        BY <1>1, <1>2, <1>10, <2>2, <2>3, <3>1, <3>2, <3>3, StreamNames DEF AlignedAt
      <3>5. AllValid'  BY <1>4, <1>10, <3>3, StreamNames
      <3> QED  BY <1>2, <3>1, <3>4, <3>5 DEF Aligned
    <2>8. CASE Len(c) = 0
      <3>1. c = <<>> /\ out[b] = g /\ Len(g) >= 1
        <4>1. c = <<>>  BY <2>8
        <4>2. c \o g = g  BY <4>1
        <4>3. out[b] = g  BY <2>1, <4>2
        <4> QED  BY <1>2, <4>1, <4>3
      <3>2. Tail(g) \in Seq(Streams \X Word) /\ IsRest(Tail(g), g)
        BY <1>2, <3>1
      <3>3. /\ g[1][1] = "prices_og"
            /\ Link("prices_og", Append(stream["prices_og"], g[1][2]), y, Tail(g), NonZero(ta))
        BY <2>5, <2>6, <3>1, <3>2, LinkWrite
      <3>4. /\ stream'["prices_og"] = Append(stream["prices_og"], g[1][2])
            /\ \A t \in Streams \ {"prices_og"} : stream'[t] = stream[t]
        BY <1>2, <3>1, <3>3
      <3>5. c \o Tail(g) = Tail(out[b])  BY <3>1, <3>2
      <3>6. AlignedAt(e, q, c, Tail(g))'
        BY <1>1, <1>2, <1>10, <2>2, <2>4, <3>3, <3>4, <3>5, StreamNames DEF AlignedAt
      <3>7. AllValid'  BY <1>4, <1>10, <3>4, StreamNames
      <3> QED  BY <1>2, <3>2, <3>6, <3>7 DEF Aligned
    <2>9. Len(c) \in Nat  OBVIOUS
    <2> QED  BY <2>7, <2>8, <2>9
  <1> QED  BY <1>5, <1>6, <1>7, <1>8, <1>9, <1>10, StreamNames

\* As long as no weight is invalid, every step keeps the links, and the program is
\* given the messages of successive frames.
LEMMA AlignedStep ==
  ASSUME TypeOK, Ports, faults = 0 => Aligned, Next, faults' = 0
  PROVE  Aligned' /\ (ordered' # ordered => ordered' = Skip(ordered))
  <1>1. faults = 0
    <2>1. faults \in Nat  BY DEF TypeOK
    <2>2. faults' = faults \/ faults' = faults + 1
      BY WriteFacts DEF Next, publish, ta_parser, cov_update, qr_decomp, order_gen, mb,
                        ReadOn, Write
    <2> QED  BY <2>1, <2>2
  <1>2. Aligned  BY <1>1
  <1>3. CASE mb  BY <1>2, <1>3, ProgramAligned
  <1>4. ASSUME ~ mb PROVE ordered' = ordered
    BY <1>4, WriteFacts DEF Next, publish, ta_parser, cov_update, qr_decomp, order_gen,
                            ReadOn, Write
  <1> QED
    BY <1>2, <1>3, <1>4, PublishAligned, ParserAligned, CovarianceAligned, SolverAligned,
       OrderGenAligned, WriteAligned DEF Next

LEMMA AlignedAtFirst == Init => Aligned
  <1> SUFFICES ASSUME Init PROVE Aligned
    OBVIOUS
  <1>1. /\ 0 \in Frame /\ 1 \in Frame /\ 1 \in Frame \ {0} /\ NonZero(0) = 1 /\ Skip(0) = 1
    <2>1. 0 \in Frame /\ 1 \in Frame /\ 0 # CounterSize - 1  BY FrameFacts, Sizes
    <2>2. PICK z \in Frame : z = 0  BY <2>1
    <2>3. Following(z) = z + 1  BY <2>1, <2>2, FollowingFacts
    <2> QED  BY <2>1, <2>2, <2>3 DEF NonZero, Skip
  <1>2. PICK z : z = <<>>  OBVIOUS
  <1>3. z \in Seq(Streams \X Word) /\ Len(z) = 0 /\ z \o z = z  BY <1>2
  <1>4. ASSUME NEW s \in Streams, NEW f PROVE Link(s, z, <<f, 1>>, z, f)
    BY <1>3, SizeFacts DEF Link, Chain, Writes, WritePlace
  <1>5. ASSUME NEW f, NEW n \in Nat, n >= 1 PROVE Reads(z, f, n)
    BY <1>3, <1>5 DEF Reads
  <1>6. /\ \A s \in Streams : stream[s] = z
        /\ \A b \in Blocks : got[b] = z /\ out[b] = z
        /\ num_updates["ta_parser"] = 0 /\ num_updates["cov_update"] = 0
        /\ published = 0 /\ ordered = 0
    BY <1>2 DEF Init
  <1>7. /\ BookWords \in Nat /\ BookWords >= 1 /\ NumStocks \in Nat /\ NumStocks >= 1
        /\ MessageWords \in Nat /\ MessageWords >= 1
        /\ 2 * NumStocks \in Nat /\ 2 * NumStocks >= 1
        /\ Size["matrix"] \in Nat /\ Size["matrix"] >= 1
    BY Sizes, SizeFacts, StreamNames
  <1>8. PricePlace(0, 1) = <<1, 1>> /\ WeightPlace(0, 1) = <<1, 1>>
    BY <1>7 DEF PricePlace, WeightPlace
  <1>9. AlignedAt(1, 1, z, z)
    <2>1. Len(z) + 1 = 1  BY <1>3
    <2>2. /\ out["ta_parser"] = z \o z /\ got["book"] = <<>>
          /\ got["ta_parser"] = z /\ got["cov_update"] = z /\ got["qr_decomp"] = z
          /\ got["order_gen"] = z /\ got["mb"] = z
          /\ out["book"] = z /\ out["cov_update"] = z /\ out["qr_decomp"] = z
          /\ out["order_gen"] = z
      BY <1>2, <1>3, <1>6, StreamNames
    <2>3. /\ stream["frames"] = z /\ stream["prices_cov"] = z /\ stream["prices_og"] = z
          /\ stream["matrix"] = z /\ stream["weights"] = z /\ stream["orders"] = z
      BY <1>6, StreamNames
    <2>4. /\ Reads(z, 0, BookWords) /\ Reads(z, 0, NumStocks) /\ Reads(z, 1, Size["matrix"])
          /\ Reads(z, 1, 2 * NumStocks) /\ Reads(z, 1, MessageWords)
      BY <1>5, <1>7
    <2>5. /\ Link("frames", z, <<0, 1>>, z, 0) /\ Link("prices_cov", z, <<0, 1>>, z, 0)
          /\ Link("prices_og", z, <<1, 1>>, z, 1) /\ Link("matrix", z, <<1, 1>>, z, 1)
          /\ Link("weights", z, <<1, 1>>, z, 1) /\ Link("orders", z, <<1, 1>>, z, 1)
      BY <1>4, StreamNames
    <2>6. /\ num_updates["ta_parser"] = 0 /\ num_updates["cov_update"] = 0
          /\ published = 0 /\ Skip(ordered) = 1 /\ NonZero(0) = 1
      BY <1>1, <1>6
    <2> QED  BY <1>3, <1>8, <2>1, <2>2, <2>3, <2>4, <2>5, <2>6, ZenonT(60) DEF AlignedAt
  <1>10. AllValid  BY <1>3, <1>6, StreamNames DEF AllValid
  <1> QED  BY <1>1, <1>3, <1>6, <1>9, <1>10 DEF Aligned

\* What the links say of the words.
LEMMA AlignedWords ==
  ASSUME TypeOK, Aligned
  PROVE  /\ \A s \in Streams : \A i \in DOMAIN stream[s] : stream[s][i].frame # Mixed
         /\ \A b \in Blocks : \A i \in DOMAIN got[b] : got[b][i].frame = got[b][1].frame
  <1>1. PICK e \in Frame \ {0}, q \in Frame \ {0},
             c \in Seq(Streams \X Word), g \in Seq(Streams \X Word) : AlignedAt(e, q, c, g)
    BY DEF Aligned
  <1>2. Mixed \notin Frame  BY DEF Mixed, Frame
  <1>3. ASSUME NEW s \in Streams, NEW i \in DOMAIN stream[s]
        PROVE  stream[s][i].frame # Mixed
    <2>1. stream[s] \in Seq(Word)  BY DEF TypeOK
    <2>2. i \in 1 .. Len(stream[s])  BY <2>1
    <2>3. \A j \in 1 .. Len(stream[s]) : stream[s][j].frame \in Frame
      BY <1>1, StreamNames DEF AlignedAt, Link, Chain
    <2> QED  BY <1>2, <2>2, <2>3
  <1>4. ASSUME NEW b \in Blocks, NEW i \in DOMAIN got[b]
        PROVE  got[b][i].frame = got[b][1].frame
    <2>1. got[b] \in Seq(Word)  BY DEF TypeOK
    <2>2. i \in 1 .. Len(got[b]) /\ 1 \in 1 .. Len(got[b]) /\ got[b] # <<>>  BY <2>1
    <2>3. b # "book"  BY <1>1, <2>2 DEF AlignedAt
    <2>4. PICK f : \A j \in 1 .. Len(got[b]) : got[b][j].frame = f
      BY ZenonT(60), <1>1, <2>3, StreamNames DEF AlignedAt, Reads
    <2> QED  BY <2>2, <2>4
  <1> QED  BY <1>3, <1>4

LEMMA AlignedInvariance == Spec => [](TypeOK /\ Ports /\ (faults = 0 => Aligned))
  <1> DEFINE A == TypeOK /\ Ports /\ (faults = 0 => Aligned)
  <1>1. Init => A  BY InitTypes, AlignedAtFirst
  <1>2. A /\ [Next]_vars => A'
    <2>1. ASSUME A, UNCHANGED vars PROVE A'
      <3>1. UNCHANGED <<stream, got, out, num_updates, published, ordered, faults>>
        BY <2>1 DEF vars
      <3>2. TypeOK' /\ Ports'  BY <2>1, <3>1 DEF TypeOK, Ports
      <3>3. ASSUME Aligned PROVE Aligned'
        <4>1. AllValid'  BY <3>1, <3>3 DEF Aligned, AllValid
        <4>2. PICK e \in Frame \ {0}, q \in Frame \ {0},
                   c \in Seq(Streams \X Word), g \in Seq(Streams \X Word) :
                AlignedAt(e, q, c, g)
          BY <3>3 DEF Aligned
        <4>3. AlignedAt(e, q, c, g)'  BY <3>1, <4>2, ZenonT(60) DEF AlignedAt
        <4>4. ordered' \in Frame  BY <3>1, <3>3 DEF Aligned
        <4> QED  BY <4>1, <4>3, <4>4 DEF Aligned
      <3> QED  BY <2>1, <3>1, <3>2, <3>3
    <2>2. ASSUME A, Next PROVE A'  BY <2>2, StepTypes, AlignedStep
    <2> QED  BY <2>1, <2>2
  <1> QED  BY <1>1, <1>2, PTL DEF Spec

\* The two paths stay aligned, whatever the blocks' pace and the streams' depth: as
\* long as every weight has been valid no block holds words of two frames and no
\* word was computed from two (ta_parser, cov_update, qr_decomp, order_gen_axis).
THEOREM PathsStayAligned == Spec => []PathsAligned
  <1>1. TypeOK /\ Ports /\ (faults = 0 => Aligned) => PathsAligned
    BY AlignedWords DEF PathsAligned
  <1> QED  BY <1>1, AlignedInvariance, PTL

\* As long as every weight has been valid, the messages that the program gives to
\* tcp_write are those of successive frames, from the second on: none is left out,
\* repeated or of an older frame (main.c, order_gen_axis).
THEOREM OrdersInTurn ==
  Spec => [][faults' = 0 /\ ordered' # ordered => ordered' = Skip(ordered)]_vars
  <1>1. /\ TypeOK /\ Ports /\ (faults = 0 => Aligned) /\ [Next]_vars
        => [faults' = 0 /\ ordered' # ordered => ordered' = Skip(ordered)]_vars
    BY AlignedStep DEF vars
  <1> QED  BY <1>1, AlignedInvariance, PTL DEF Spec

-----------------------------------------------------------------------------
(* How many frames are on the way.                                        *)

\* Remainders: of a difference, and of a sum with one summand already reduced.
LEMMA DifferenceMod ==
  ASSUME NEW M \in Nat \ {0}, NEW a \in 0 .. M - 1, NEW b \in 0 .. M - 1
  PROVE  (b - a) % M = IF b >= a THEN b - a ELSE b - a + M
  <1>1. CASE b >= a
    <2>1. b - a \in Nat /\ b - a < M  BY <1>1
    <2> QED  BY <1>1, <2>1, ModOfSmall
  <1>2. CASE b < a
    <2>1. PICK x \in Int : x = b - a  OBVIOUS
    <2>2. x = M * (x \div M) + (x % M) /\ x % M \in 0 .. M - 1 /\ x \div M \in Int  OBVIOUS
    <2>3. -M < x /\ x < 0  BY <1>2, <2>1
    <2>4. x \div M = -1  BY <2>2, <2>3
    <2> QED  BY <1>2, <2>1, <2>2, <2>4
  <1> QED  BY <1>1, <1>2

LEMMA ModOfSum ==
  ASSUME NEW M \in Nat \ {0}, NEW x \in Nat, NEW y \in Nat
  PROVE  ((x % M) + y) % M = (x + y) % M
  <1>1. PICK k \in Nat, r \in 0 .. M - 1 : x = k * M + r /\ x % M = r  BY ModSplit
  <1>2. PICK j \in Nat, q \in 0 .. M - 1 : r + y = j * M + q /\ (r + y) % M = q
    <2>1. r + y \in Nat  OBVIOUS
    <2> QED  BY <2>1, ModSplit
  <1>3. x + y = (k + j) * M + q /\ k + j \in Nat
    <2>1. (k + j) * M = k * M + j * M  OBVIOUS
    <2>2. k * M \in Nat /\ j * M \in Nat  OBVIOUS
    <2> QED  BY <1>1, <1>2, <2>1, <2>2
  <1>4. (x + y) % M = q  BY <1>3, ModOfMultiple
  <1> QED  BY <1>1, <1>2, <1>4

\* One more, and one less, of the same.
LEMMA MoreTimes ==
  ASSUME NEW k \in Nat, NEW n \in Nat \ {0}
  PROVE  /\ (k + 1) * n = k * n + n /\ k * n \in Nat
         /\ k * n >= n => k >= 1 /\ k - 1 \in Nat /\ (k - 1) * n = k * n - n
  <1>1. (k + 1) * n = k * n + n /\ k * n \in Nat  OBVIOUS
  <1>2. ASSUME k * n >= n PROVE k >= 1 /\ k - 1 \in Nat /\ (k - 1) * n = k * n - n
    <2>1. k # 0
      <3>1. 0 * n = 0  OBVIOUS
      <3> QED  BY <1>2, <3>1
    <2>2. k >= 1 /\ k - 1 \in Nat  BY <2>1
    <2>3. (k - 1) * n = k * n - n  BY <2>2
    <2> QED  BY <2>2, <2>3
  <1> QED  BY <1>1, <1>2

\* A product is smaller only if its factor is.
LEMMA LessTimes ==
  ASSUME NEW k \in Nat, NEW j \in Nat, NEW n \in Nat \ {0}, k * n < j * n
  PROVE  k < j
  <1>1. ASSUME k >= j PROVE FALSE
    <2>1. k * n = j * n + (k - j) * n /\ (k - j) * n >= 0 /\ j * n \in Nat /\ (k - j) * n \in Nat
      <3>1. PICK i \in Nat : k = j + i  BY <1>1
      <3>2. (j + i) * n = j * n + i * n /\ i * n \in Nat /\ j * n \in Nat  OBVIOUS
      <3>3. k - j = i  BY <3>1
      <3> QED  BY <3>1, <3>2, <3>3
    <2> QED  BY <2>1
  <1> QED  BY <1>1

-----------------------------------------------------------------------------
\* The frame that is d orders after frame f, which is not 0.
Ahead(f, d) == ((f - 1 + d) % (CounterSize - 1)) + 1

\* The words between the book and ta_parser (fw), between ta_parser and order_gen (pw)
\* and between order_gen and the program (ow) are whole messages.  As many frames are
\* there between the frame ta that ta_parser expects and the one to be published, and
\* between the one ordered last and ta.
CountedAs(ta, pub, ord, fw, pw, ow, f, p, o) ==
  /\ fw = f * BookWords /\ pw = p * NumStocks /\ ow = o * MessageWords
  /\ pub = (ta + f) % CounterSize
  /\ NonZero(ta) = Ahead(Skip(ord), p + o)

Counts(ta, pub, ord, fw, pw, ow) ==
  \E f, p, o \in Nat : CountedAs(ta, pub, ord, fw, pw, ow, f, p, o)

LEMMA CounterFacts ==
  /\ CounterSize \in Nat \ {0} /\ CounterSize - 1 \in Nat \ {0} /\ CounterSize >= 3
  /\ BookWords \in Nat \ {0} /\ NumStocks \in Nat \ {0} /\ MessageWords \in Nat \ {0}
  /\ StreamDepth \in Nat \ {0}
  /\ \A f \in Frame : /\ f \in Nat /\ f < CounterSize
                      /\ Following(f) = IF f = CounterSize - 1 THEN 0 ELSE f + 1
                      /\ Skip(f) = IF f = CounterSize - 1 THEN 1 ELSE f + 1
                      /\ Following(f) \in Frame /\ Skip(f) \in Frame \ {0}
                      /\ NonZero(f) \in Frame \ {0}
  <1>1. /\ CounterSize \in Nat \ {0} /\ CounterSize - 1 \in Nat \ {0} /\ CounterSize >= 3
        /\ BookWords \in Nat \ {0} /\ NumStocks \in Nat \ {0} /\ MessageWords \in Nat \ {0}
        /\ StreamDepth \in Nat \ {0}
    BY Sizes
  <1>2. ASSUME NEW f \in Frame
        PROVE  /\ f \in Nat /\ f < CounterSize
               /\ Following(f) = IF f = CounterSize - 1 THEN 0 ELSE f + 1
               /\ Skip(f) = IF f = CounterSize - 1 THEN 1 ELSE f + 1
               /\ Following(f) \in Frame /\ Skip(f) \in Frame \ {0}
               /\ NonZero(f) \in Frame \ {0}
    <2>1. f \in Nat /\ f < CounterSize  BY <1>1 DEF Frame
    <2>2. Following(f) = IF f = CounterSize - 1 THEN 0 ELSE f + 1  BY FollowingFacts
    <2>3. Skip(f) = IF f = CounterSize - 1 THEN 1 ELSE f + 1
      BY <2>1, <2>2 DEF Skip, NonZero
    <2> QED  BY <2>1, <2>2, <2>3, FrameFacts
  <1> QED  BY <1>1, <1>2

LEMMA AheadFacts ==
  ASSUME NEW f \in Frame \ {0}, NEW d \in Nat
  PROVE  /\ Ahead(f, d) \in Frame \ {0} /\ Ahead(f, 0) = f
         /\ Ahead(f, d + 1) = Skip(Ahead(f, d))
         /\ Ahead(Skip(f), d) = Ahead(f, d + 1)
         /\ d < CounterSize - 1 =>
              Ahead(f, d) = IF f + d < CounterSize THEN f + d ELSE f + d - (CounterSize - 1)
  <1> DEFINE M == CounterSize - 1
  <1>1. /\ M \in Nat \ {0} /\ CounterSize = M + 1 /\ M >= 2
        /\ f \in Nat /\ 1 <= f /\ f <= M /\ f - 1 \in Nat /\ f - 1 < M
    BY CounterFacts
  <1> HIDE DEF M
  <1>2. \A x : Ahead(f, x) = ((f - 1 + x) % M) + 1 /\ Ahead(Skip(f), x) = ((Skip(f) - 1 + x) % M) + 1
    BY DEF Ahead, M
  <1>3. \A x \in 0 .. M - 1 : x + 1 \in Frame \ {0}
    BY <1>1 DEF Frame
  <1>4. (f - 1 + d) % M \in 0 .. M - 1 /\ f - 1 + d \in Nat
    <2>1. f - 1 + d \in Nat  BY <1>1
    <2> QED  BY <1>1, <2>1, Division
  <1>5. Ahead(f, d) \in Frame \ {0}  BY <1>2, <1>3, <1>4
  <1>6. Ahead(f, 0) = f
    <2>1. (f - 1) % M = f - 1  BY <1>1, ModOfSmall
    <2>2. f - 1 + 0 = f - 1  BY <1>1
    <2> QED  BY <1>1, <1>2, <2>1, <2>2
  <1>7. Ahead(f, d + 1) = Skip(Ahead(f, d))
    <2>1. PICK x \in Nat : x = f - 1 + d  BY <1>4
    <2>2. f - 1 + (d + 1) = x + 1  BY <1>1, <2>1
    <2>3. (x + 1) % M = IF x % M = M - 1 THEN 0 ELSE (x % M) + 1  BY <1>1, ModNext
    <2>4. Ahead(f, d) = (x % M) + 1 /\ Ahead(f, d + 1) = ((x + 1) % M) + 1
      BY <1>2, <2>1, <2>2
    <2>5. PICK y \in 0 .. M - 1 : y = x % M  BY <1>4, <2>1
    <2>6. Skip(y + 1) = IF y + 1 = CounterSize - 1 THEN 1 ELSE (y + 1) + 1
      BY <1>3, CounterFacts
    <2> QED  BY <1>1, <2>3, <2>4, <2>5, <2>6
  <1>8. Ahead(Skip(f), d) = Ahead(f, d + 1)
    <2>1. CASE f = M
      <3>1. Skip(f) = 1  BY <1>1, <2>1, CounterFacts
      <3>2. f - 1 + (d + 1) = d + M /\ 1 - 1 + d = d  BY <1>1, <2>1
      <3>3. (d + M) % M = d % M  BY <1>1, ModShift
      <3> QED  BY <1>2, <3>1, <3>2, <3>3
    <2>2. CASE f # M
      <3>1. PICK h : h = Skip(f)  OBVIOUS
      <3>2. h = f + 1  BY <1>1, <2>2, <3>1, CounterFacts
      <3>3. Ahead(Skip(f), d) = ((h - 1 + d) % M) + 1  BY <1>2, <3>1
      <3>4. h - 1 + d = f - 1 + (d + 1)  BY <1>1, <3>2
      <3>5. Ahead(f, d + 1) = ((f - 1 + (d + 1)) % M) + 1  BY <1>2
      <3> QED  BY <3>3, <3>4, <3>5
    <2> QED  BY <2>1, <2>2
  <1>9. ASSUME d < M
        PROVE  Ahead(f, d) = IF f + d < CounterSize THEN f + d ELSE f + d - M
    <2>1. CASE f + d < CounterSize
      <3>1. f - 1 + d < M  BY <1>1, <2>1
      <3>2. (f - 1 + d) % M = f - 1 + d  BY <1>1, <1>4, <3>1, ModOfSmall
      <3> QED  BY <1>1, <1>2, <2>1, <3>2
    <2>2. CASE ~ (f + d < CounterSize)
      <3>1. PICK y : y = f - 1 + d - M  OBVIOUS
      <3>2. y \in Nat /\ y < M /\ f - 1 + d = y + M  BY <1>1, <1>9, <2>2, <3>1
      <3>3. (y + M) % M = y  BY <1>1, <3>2, ModShift, ModOfSmall
      <3> QED  BY <1>1, <1>2, <2>2, <3>1, <3>2, <3>3
    <2> QED  BY <2>1, <2>2
  <1> QED  BY <1>5, <1>6, <1>7, <1>8, <1>9 DEF M

\* What the steps of the pipeline do to the counts: a publication,
LEMMA CountPublished ==
  ASSUME NEW ta \in Frame, NEW pub \in Frame, NEW ord, NEW fw, NEW pw, NEW ow,
         Counts(ta, pub, ord, fw, pw, ow)
  PROVE  Counts(ta, Following(pub), ord, fw + BookWords, pw, ow)
  <1>1. PICK f \in Nat, p \in Nat, o \in Nat : CountedAs(ta, pub, ord, fw, pw, ow, f, p, o)
    BY DEF Counts
  <1>2. (f + 1) * BookWords = f * BookWords + BookWords /\ f + 1 \in Nat
    BY MoreTimes, CounterFacts
  <1>3. Following(pub) = (ta + (f + 1)) % CounterSize
    <2>1. pub = (ta + f) % CounterSize /\ ta + f \in Nat
      BY <1>1, CounterFacts DEF CountedAs
    <2>2. (((ta + f) % CounterSize) + 1) % CounterSize = (ta + f + 1) % CounterSize
      BY <2>1, CounterFacts, ModOfSum
    <2>3. ta + f + 1 = ta + (f + 1)
      <3>1. ta \in Nat  BY CounterFacts
      <3> QED  BY <3>1
    <2> QED  BY <2>1, <2>2, <2>3 DEF Following
  <1>4. CountedAs(ta, Following(pub), ord, fw + BookWords, pw, ow, f + 1, p, o)
    BY <1>1, <1>2, <1>3 DEF CountedAs
  <1> QED  BY <1>2, <1>4 DEF Counts

\* a frame read by ta_parser, whose prices go on unless it is the first,
LEMMA CountParsed ==
  ASSUME NEW ta \in Frame, NEW pub \in Frame, NEW ord \in Frame, NEW fw, NEW pw, NEW ow,
         Counts(ta, pub, ord, fw, pw, ow), fw >= BookWords
  PROVE  Counts(Following(ta), pub, ord, fw - BookWords,
                IF ta > 0 THEN pw + NumStocks ELSE pw, ow)
  <1>1. PICK f \in Nat, p \in Nat, o \in Nat : CountedAs(ta, pub, ord, fw, pw, ow, f, p, o)
    BY DEF Counts
  <1>2. f * BookWords >= BookWords  BY <1>1 DEF CountedAs
  <1>3. f >= 1 /\ f - 1 \in Nat /\ (f - 1) * BookWords = f * BookWords - BookWords
    BY <1>2, MoreTimes, CounterFacts
  <1>4. pub = (Following(ta) + (f - 1)) % CounterSize
    <2>1. (((ta + 1) % CounterSize) + (f - 1)) % CounterSize
            = (ta + 1 + (f - 1)) % CounterSize
      <3>1. ta + 1 \in Nat  BY CounterFacts
      <3> QED  BY <1>3, <3>1, CounterFacts, ModOfSum
    <2>2. ta + 1 + (f - 1) = ta + f  BY CounterFacts
    <2> QED  BY <1>1, <2>1, <2>2 DEF CountedAs, Following
  <1>5. CASE ta > 0
    <2>1. NonZero(ta) = ta /\ NonZero(Following(ta)) = Skip(ta)
      BY <1>5 DEF NonZero, Skip
    <2>2. ta = Ahead(Skip(ord), p + o) /\ p + o \in Nat /\ Skip(ord) \in Frame \ {0}
      BY <1>1, <2>1, CounterFacts DEF CountedAs
    <2>3. Skip(ta) = Ahead(Skip(ord), (p + o) + 1)  BY <2>2, AheadFacts
    <2>4. (p + o) + 1 = (p + 1) + o /\ p + 1 \in Nat  OBVIOUS
    <2>5. (p + 1) * NumStocks = p * NumStocks + NumStocks  BY MoreTimes, CounterFacts
    <2>6. CountedAs(Following(ta), pub, ord, fw - BookWords, pw + NumStocks, ow, f - 1, p + 1, o)
      BY <1>1, <1>3, <1>4, <2>1, <2>3, <2>4, <2>5 DEF CountedAs
    <2> QED  BY <1>3, <1>5, <2>4, <2>6 DEF Counts
  <1>6. CASE ~ (ta > 0)
    <2>1. ta = 0 /\ NonZero(Following(ta)) = NonZero(ta)
      BY <1>6, CounterFacts DEF NonZero
    <2>2. CountedAs(Following(ta), pub, ord, fw - BookWords, pw, ow, f - 1, p, o)
      BY <1>1, <1>3, <1>4, <2>1 DEF CountedAs
    <2> QED  BY <1>3, <1>6, <2>2 DEF Counts
  <1> QED  BY <1>5, <1>6

\* a call of order_gen, and a message ordered.
LEMMA CountComputed ==
  ASSUME NEW ta, NEW pub, NEW ord, NEW fw, NEW pw, NEW ow,
         Counts(ta, pub, ord, fw, pw, ow), pw >= NumStocks
  PROVE  Counts(ta, pub, ord, fw, pw - NumStocks, ow + MessageWords)
  <1>1. PICK f \in Nat, p \in Nat, o \in Nat : CountedAs(ta, pub, ord, fw, pw, ow, f, p, o)
    BY DEF Counts
  <1>2. p * NumStocks >= NumStocks  BY <1>1 DEF CountedAs
  <1>3. p >= 1 /\ p - 1 \in Nat /\ (p - 1) * NumStocks = p * NumStocks - NumStocks
    BY <1>2, MoreTimes, CounterFacts
  <1>4. (o + 1) * MessageWords = o * MessageWords + MessageWords /\ o + 1 \in Nat
    BY MoreTimes, CounterFacts
  <1>5. (p - 1) + (o + 1) = p + o  OBVIOUS
  <1>6. CountedAs(ta, pub, ord, fw, pw - NumStocks, ow + MessageWords, f, p - 1, o + 1)
    BY <1>1, <1>3, <1>4, <1>5 DEF CountedAs
  <1> QED  BY <1>3, <1>4, <1>6 DEF Counts

LEMMA CountOrdered ==
  ASSUME NEW ta, NEW pub, NEW ord \in Frame, NEW fw, NEW pw, NEW ow,
         Counts(ta, pub, ord, fw, pw, ow), ow >= MessageWords
  PROVE  Counts(ta, pub, Skip(ord), fw, pw, ow - MessageWords)
  <1>1. PICK f \in Nat, p \in Nat, o \in Nat : CountedAs(ta, pub, ord, fw, pw, ow, f, p, o)
    BY DEF Counts
  <1>2. o * MessageWords >= MessageWords  BY <1>1 DEF CountedAs
  <1>3. o >= 1 /\ o - 1 \in Nat /\ (o - 1) * MessageWords = o * MessageWords - MessageWords
    BY <1>2, MoreTimes, CounterFacts
  <1>4. Ahead(Skip(Skip(ord)), p + (o - 1)) = Ahead(Skip(ord), p + o)
    <2>1. Skip(ord) \in Frame \ {0} /\ p + (o - 1) \in Nat /\ (p + (o - 1)) + 1 = p + o
      BY <1>3, CounterFacts
    <2> QED  BY <2>1, AheadFacts
  <1>5. CountedAs(ta, pub, Skip(ord), fw, pw, ow - MessageWords, f, p, o - 1)
    BY <1>1, <1>3, <1>4 DEF CountedAs
  <1> QED  BY <1>3, <1>5 DEF Counts

\* How far the counts put the frame to be published from the one ordered last.
LEMMA CountDistance ==
  ASSUME NEW ta \in Frame, NEW pub \in Frame, NEW ord \in Frame, NEW fw, NEW pw, NEW ow,
         NEW f \in Nat, NEW p \in Nat, NEW o \in Nat,
         CountedAs(ta, pub, ord, fw, pw, ow, f, p, o), f + p + o + 2 < CounterSize
  PROVE  /\ (pub - ord) % CounterSize <= f + p + o + 2
         /\ o >= 1 => (Skip(ord) - ord) % CounterSize < (pub - ord) % CounterSize
  <1>1. PICK C \in Nat \ {0} : C = CounterSize /\ C >= 3  BY CounterFacts
  <1>2. PICK d \in Nat : d = p + o  OBVIOUS
  <1>3. f + d + 2 < C /\ d < C - 1  BY <1>1, <1>2
  <1>4. PICK a \in Nat : a = Skip(ord)  BY CounterFacts
  <1>5. /\ ord \in 0 .. C - 1 /\ ta \in 0 .. C - 1 /\ pub \in 0 .. C - 1 /\ a \in 1 .. C - 1
        /\ a = IF ord = C - 1 THEN 1 ELSE ord + 1
    <2>1. Frame = 0 .. C - 1  BY <1>1 DEF Frame
    <2>2. a \in Frame \ {0} /\ a = IF ord = C - 1 THEN 1 ELSE ord + 1
      BY <1>1, <1>4, CounterFacts
    <2> QED  BY <1>1, <2>1, <2>2
  <1>6. (IF ta = 0 THEN 1 ELSE ta) = IF a + d < C THEN a + d ELSE a + d - (C - 1)
    <2>1. NonZero(ta) = Ahead(a, d)  BY <1>2, <1>4 DEF CountedAs
    <2>2. a \in Frame \ {0}  BY <1>4, CounterFacts
    <2>3. Ahead(a, d) = IF a + d < C THEN a + d ELSE a + d - (C - 1)
      BY <1>1, <1>3, <2>2, AheadFacts
    <2> QED  BY <2>1, <2>3 DEF NonZero
  <1>7. pub = IF ta + f < C THEN ta + f ELSE ta + f - C
    <2>1. pub = (ta + f) % C  BY <1>1 DEF CountedAs
    <2>2. CASE ta + f < C
      <3>1. ta + f \in Nat  BY <1>5
      <3>2. (ta + f) % C = ta + f  BY <2>2, <3>1, ModOfSmall
      <3> QED  BY <2>1, <2>2, <3>2
    <2>3. CASE ~ (ta + f < C)
      <3>1. PICK y \in Nat : y = ta + f - C  BY <1>5, <2>3
      <3>2. y < C /\ ta + f = y + C  BY <1>3, <1>5, <3>1
      <3>3. (y + C) % C = y  BY <3>2, ModShift, ModOfSmall
      <3> QED  BY <2>1, <2>3, <3>1, <3>2, <3>3
    <2> QED  BY <2>2, <2>3
  <1>8. (pub - ord) % C = IF pub >= ord THEN pub - ord ELSE pub - ord + C
    BY <1>5, DifferenceMod
  <1>9. (a - ord) % C = IF a >= ord THEN a - ord ELSE a - ord + C
    <2>1. a \in 0 .. C - 1  BY <1>5
    <2> QED  BY <1>5, <2>1, DifferenceMod
  <1>10. (pub - ord) % C <= f + d + 2
    BY <1>3, <1>5, <1>6, <1>7, <1>8
  <1>11. o >= 1 => (a - ord) % C < (pub - ord) % C
    <2>1. o >= 1 => d >= 1  BY <1>2
    <2>2. d >= 1 => (a - ord) % C < (pub - ord) % C
      BY <1>3, <1>5, <1>6, <1>7, <1>8, <1>9
    <2> QED  BY <2>1, <2>2
  <1> QED  BY <1>1, <1>2, <1>4, <1>10, <1>11

\* How many frames the words can be, when a block that writes holds no words that it has
\* read.  The streams are never full all at once with every block at its fullest.
Holds(f, p, o, gt, sf, ob, go, sp, lg, gm, so, oo) ==
  /\ {gt, sf, ob, go, sp, lg, gm, so, oo} \subseteq Nat
  /\ f * BookWords = gt + sf + ob /\ p * NumStocks = go + sp + lg
  /\ o * MessageWords = gm + so + oo
  /\ gt < BookWords /\ ob <= BookWords /\ go <= NumStocks /\ lg <= NumStocks
  /\ gm < MessageWords /\ oo <= MessageWords
  /\ sf <= StreamDepth /\ sp <= StreamDepth /\ so <= StreamDepth
  /\ gt = 0 \/ lg = 0
  /\ go = 0 \/ oo = 0

LEMMA CountBound ==
  ASSUME NEW f \in Nat, NEW p \in Nat, NEW o \in Nat,
         NEW gt, NEW sf, NEW ob, NEW go, NEW sp, NEW lg, NEW gm, NEW so, NEW oo,
         Holds(f, p, o, gt, sf, ob, go, sp, lg, gm, so, oo)
  PROVE  f + p + o + 2 <= Window
  <1>0. /\ gt \in Nat /\ sf \in Nat /\ ob \in Nat /\ go \in Nat /\ sp \in Nat /\ lg \in Nat
        /\ gm \in Nat /\ so \in Nat /\ oo \in Nat
        /\ f * BookWords = gt + sf + ob /\ p * NumStocks = go + sp + lg
        /\ o * MessageWords = gm + so + oo
        /\ gt < BookWords /\ ob <= BookWords /\ go <= NumStocks /\ lg <= NumStocks
        /\ gm < MessageWords /\ oo <= MessageWords
        /\ sf <= StreamDepth /\ sp <= StreamDepth /\ so <= StreamDepth
        /\ gt = 0 \/ lg = 0
        /\ go = 0 \/ oo = 0
    BY DEF Holds
  <1>1. PICK B \in Nat \ {0}, N \in Nat \ {0}, M \in Nat \ {0}, S \in Nat \ {0} :
           B = BookWords /\ N = NumStocks /\ M = MessageWords /\ S = StreamDepth
    BY CounterFacts
  <1>2. PICK b \in Nat : b = S \div B /\ S < b * B + B
    <2>1. S \div B \in Nat /\ S % B \in 0 .. B - 1 /\ S = B * (S \div B) + (S % B)
      BY Division
    <2>2. PICK b \in Nat : b = S \div B  BY <2>1
    <2>3. B * b = b * B /\ b * B \in Nat  OBVIOUS
    <2> QED  BY <2>1, <2>2, <2>3
  <1>3. PICK n \in Nat : n = S \div N /\ S < n * N + N
    <2>1. S \div N \in Nat /\ S % N \in 0 .. N - 1 /\ S = N * (S \div N) + (S % N)
      BY Division
    <2>2. PICK n \in Nat : n = S \div N  BY <2>1
    <2>3. N * n = n * N /\ n * N \in Nat  OBVIOUS
    <2> QED  BY <2>1, <2>2, <2>3
  <1>4. PICK m \in Nat : m = (S - 1) \div M /\ S <= m * M + M
    <2>1. PICK T \in Nat : T = S - 1 /\ S = T + 1  OBVIOUS
    <2>2. T \div M \in Nat /\ T % M \in 0 .. M - 1 /\ T = M * (T \div M) + (T % M)
      BY Division
    <2>3. PICK m \in Nat : m = T \div M  BY <2>2
    <2>4. M * m = m * M /\ m * M \in Nat  OBVIOUS
    <2> QED  BY <2>1, <2>2, <2>3, <2>4
  <1>5. Window \in Nat /\ Window >= 6 + b + n + m
    <2>1. Window \in Nat  BY SizeAssumption
    <2>2. Window >= 6 + StreamDepth \div BookWords + StreamDepth \div NumStocks
                      + (StreamDepth - 1) \div MessageWords
      BY WindowAssumption
    <2> QED  BY <1>1, <1>2, <1>3, <1>4, <2>1, <2>2
  <1>6. ASSUME NEW k \in Nat, NEW y \in Nat, NEW n1 \in Nat \ {0}
        PROVE  (y + 1) * n1 = y * n1 + n1 /\ (y + 2) * n1 = y * n1 + n1 + n1
               /\ (y + 3) * n1 = y * n1 + n1 + n1 + n1 /\ y * n1 \in Nat
    OBVIOUS
  <1>7. f <= b + 2 /\ (gt = 0 => f <= b + 1)
    <2>1. f * B < b * B + B + B + B
      BY <1>0, <1>1, <1>2, <1>6
    <2>2. f < b + 3
      <3>1. f * B < (b + 3) * B  BY <1>6, <2>1
      <3> QED  BY <3>1, LessTimes
    <2>3. ASSUME gt = 0 PROVE f < b + 2
      <3>1. f * B < b * B + B + B  BY <1>0, <1>1, <1>2, <1>6, <2>3
      <3>2. f * B < (b + 2) * B  BY <1>6, <3>1
      <3> QED  BY <3>2, LessTimes
    <2> QED  BY <2>2, <2>3
  <1>8. p <= n + 2 /\ (go = 0 \/ lg = 0 => p <= n + 1) /\ (go = 0 /\ lg = 0 => p <= n)
    <2>1. p < n + 3
      <3>1. p * N < n * N + N + N + N  BY <1>0, <1>1, <1>3, <1>6
      <3>2. p * N < (n + 3) * N  BY <1>6, <3>1
      <3> QED  BY <3>2, LessTimes
    <2>2. ASSUME go = 0 \/ lg = 0 PROVE p < n + 2
      <3>1. p * N < n * N + N + N  BY <1>0, <1>1, <1>3, <1>6, <2>2
      <3>2. p * N < (n + 2) * N  BY <1>6, <3>1
      <3> QED  BY <3>2, LessTimes
    <2>3. ASSUME go = 0 /\ lg = 0 PROVE p < n + 1
      <3>1. p * N < n * N + N  BY <1>0, <1>1, <1>3, <1>6, <2>3
      <3>2. p * N < (n + 1) * N  BY <1>6, <3>1
      <3> QED  BY <3>2, LessTimes
    <2> QED  BY <2>1, <2>2, <2>3
  <1>9. o <= m + 2 /\ (oo = 0 => o <= m + 1)
    <2>1. o < m + 3
      <3>1. o * M < m * M + M + M + M  BY <1>0, <1>1, <1>4, <1>6
      <3>2. o * M < (m + 3) * M  BY <1>6, <3>1
      <3> QED  BY <3>2, LessTimes
    <2>2. ASSUME oo = 0 PROVE o < m + 2
      <3>1. o * M < m * M + M + M  BY <1>0, <1>1, <1>4, <1>6, <2>2
      <3>2. o * M < (m + 2) * M  BY <1>6, <3>1
      <3> QED  BY <3>2, LessTimes
    <2> QED  BY <2>1, <2>2
  <1>10. f + p + o <= b + n + m + 4
    <2>1. CASE gt = 0 /\ go = 0  BY <1>7, <1>8, <1>9, <2>1
    <2>2. CASE gt = 0 /\ oo = 0  BY <1>7, <1>8, <1>9, <2>2
    <2>3. CASE lg = 0 /\ go = 0  BY <1>7, <1>8, <1>9, <2>3
    <2>4. CASE lg = 0 /\ oo = 0  BY <1>7, <1>8, <1>9, <2>4
    <2> QED  BY <1>0, <2>1, <2>2, <2>3, <2>4
  <1> QED  BY <1>5, <1>10

-----------------------------------------------------------------------------
\* order_gen reads its prices first.
PricesTaken(l) == IF l < NumStocks THEN l ELSE NumStocks

\* The words on each part of the way; n of ta_parser's writes are for order_gen.  Reading
\* leaves the sum of what a stream and its reader hold as it is, unless a call ends;
\* writing leaves the sum of what the writer and the stream hold.
FrameWords == Len(got["ta_parser"]) + Len(stream["frames"]) + Len(out["book"])
PriceWords(n) == PricesTaken(Len(got["order_gen"])) + Len(stream["prices_og"]) + n
MessagesLeft == Len(got["mb"]) + Len(stream["orders"]) + Len(out["order_gen"])

\* A call has read less than it needs, writes no more than a message, and does not read
\* while it writes.
Calls ==
  /\ Len(got["book"]) = 0 /\ Len(out["book"]) <= BookWords
  /\ Len(got["ta_parser"]) < BookWords
  /\ Len(got["order_gen"]) < 2 * NumStocks /\ Len(out["order_gen"]) <= MessageWords
  /\ Len(got["mb"]) < MessageWords
  /\ \A b \in Blocks : Len(got[b]) = 0 \/ Len(out[b]) = 0

\* ta_parser's writes, for the one stream and then for the other.
SplitAs(t, c, g) ==
  /\ t = c \o g /\ Len(g) <= NumStocks
  /\ \A i \in 1 .. Len(c) : c[i][1] = "prices_cov"
  /\ \A i \in 1 .. Len(g) : g[i][1] = "prices_og"

Counted ==
  /\ ordered \in Frame /\ Calls
  /\ \E c, g \in Seq(Streams \X Word) :
       /\ SplitAs(out["ta_parser"], c, g)
       /\ Counts(num_updates["ta_parser"], published, ordered,
                 FrameWords, PriceWords(Len(g)), MessagesLeft)

\* What each kind of step does to the lengths.
LEMMA Lengths ==
  ASSUME TypeOK
  PROVE  /\ \A b \in Blocks : Len(got[b]) \in Nat /\ Len(out[b]) \in Nat
         /\ \A s \in Streams : Len(stream[s]) \in Nat /\ Len(stream[s]) <= StreamDepth
         /\ num_updates["ta_parser"] \in Frame /\ published \in Frame
  <1>1. /\ \A b \in Blocks : got[b] \in Seq(Word) /\ out[b] \in Seq(Streams \X Word)
        /\ \A s \in Streams : stream[s] \in Seq(Word) /\ Len(stream[s]) <= StreamDepth
        /\ num_updates["ta_parser"] \in Frame /\ published \in Frame
    BY DEF TypeOK
  <1> QED  BY <1>1

LEMMA ReadLengths ==
  ASSUME TypeOK, NEW b \in Blocks, NEW s \in Streams, MayRead(b, s), Pull(s)
  PROVE  /\ Len(out[b]) = 0 /\ Len(Words(b, s)) = Len(got[b]) + 1
         /\ Len(stream'[s]) = Len(stream[s]) - 1 /\ Len(stream[s]) \in Nat
         /\ Len(stream[s]) >= 1 /\ Len(got[b]) \in Nat
         /\ \A t \in Streams \ {s} : stream'[t] = stream[t]
  <1>1. Len(out[b]) = 0  BY DEF MayRead
  <1> QED  BY <1>1, WordsFacts, PullFacts

LEMMA ReadOnLengths ==
  ASSUME TypeOK, NEW b \in Blocks, NEW s \in Streams, NEW n, ReadOn(b, s, n)
  PROVE  /\ Len(out[b]) = 0 /\ Len(got'[b]) = Len(got[b]) + 1 /\ Len(got[b]) + 1 < n
         /\ Len(stream'[s]) = Len(stream[s]) - 1
         /\ Len(stream[s]) \in Nat /\ Len(got[b]) \in Nat
         /\ \A t \in Streams \ {s} : stream'[t] = stream[t]
         /\ \A d \in Blocks \ {b} : got'[d] = got[d]
         /\ UNCHANGED <<out, num_updates, published, ordered, faults>>
  <1>1. /\ MayRead(b, s) /\ Pull(s) /\ Len(got[b]) + 1 < n
        /\ got' = [got EXCEPT ![b] = Words(b, s)]
        /\ UNCHANGED <<out, num_updates, published, ordered, faults>>
    BY DEF ReadOn
  <1>2. got'[b] = Words(b, s) /\ \A d \in Blocks \ {b} : got'[d] = got[d]
    BY <1>1 DEF TypeOK
  <1> QED  BY <1>1, <1>2, ReadLengths

LEMMA ReadLastLengths ==
  ASSUME TypeOK, NEW b \in Blocks, NEW s \in Streams, NEW n, NEW w, ReadLast(b, s, n, w)
  PROVE  /\ Len(out[b]) = 0 /\ Len(got[b]) + 1 = n /\ Len(got'[b]) = 0 /\ out'[b] = w
         /\ Len(stream'[s]) = Len(stream[s]) - 1
         /\ Len(stream[s]) \in Nat /\ Len(stream[s]) >= 1 /\ Len(got[b]) \in Nat
         /\ \A t \in Streams \ {s} : stream'[t] = stream[t]
         /\ \A d \in Blocks \ {b} : got'[d] = got[d] /\ out'[d] = out[d]
  <1>1. /\ MayRead(b, s) /\ Pull(s) /\ Len(got[b]) + 1 = n
        /\ got' = [got EXCEPT ![b] = <<>>] /\ out' = [out EXCEPT ![b] = w]
    BY DEF ReadLast
  <1>2. /\ got'[b] = <<>> /\ out'[b] = w
        /\ \A d \in Blocks \ {b} : got'[d] = got[d] /\ out'[d] = out[d]
    BY <1>1 DEF TypeOK
  <1>3. Len(got'[b]) = 0  BY <1>2
  <1> QED  BY <1>1, <1>2, <1>3, ReadLengths

\* A step that leaves alone what is counted.
LEMMA CountedKept ==
  ASSUME Counted, Calls',
         UNCHANGED <<num_updates["ta_parser"], published, ordered, out["ta_parser"]>>,
         FrameWords' = FrameWords, MessagesLeft' = MessagesLeft,
         \A n \in Nat : PriceWords(n)' = PriceWords(n)
  PROVE  Counted'
  <1>1. PICK c \in Seq(Streams \X Word), g \in Seq(Streams \X Word) :
          /\ SplitAs(out["ta_parser"], c, g)
          /\ Counts(num_updates["ta_parser"], published, ordered,
                    FrameWords, PriceWords(Len(g)), MessagesLeft)
    BY DEF Counted
  <1>2. Len(g) \in Nat  OBVIOUS
  <1>3. /\ SplitAs(out'["ta_parser"], c, g)
        /\ Counts(num_updates'["ta_parser"], published', ordered',
                  FrameWords', PriceWords(Len(g))', MessagesLeft')
    BY <1>1, <1>2
  <1>4. ordered' \in Frame  BY DEF Counted
  <1> QED  BY <1>3, <1>4 DEF Counted

\* The book publishes.
LEMMA PublishCounted ==
  ASSUME TypeOK, Counted, publish
  PROVE  Counted'
  <1>1. PICK c \in Seq(Streams \X Word), g \in Seq(Streams \X Word) :
          /\ SplitAs(out["ta_parser"], c, g)
          /\ Counts(num_updates["ta_parser"], published, ordered,
                    FrameWords, PriceWords(Len(g)), MessagesLeft)
    BY DEF Counted
  <1>2. PICK w : w = To("frames", Message(BookWords, published))  OBVIOUS
  <1>3. Len(w) = BookWords
    <2>1. BookWords \in Nat /\ published \in Origin /\ "frames" \in Streams
      BY CounterFacts, StreamNames DEF TypeOK, Origin
    <2> QED  BY <1>2, <2>1, MessageToFacts
  <1>4. /\ Len(out["book"]) = 0 /\ out'["book"] = w
        /\ \A b \in Blocks \ {"book"} : out'[b] = out[b]
        /\ published' = Following(published)
        /\ UNCHANGED <<stream, got, num_updates, ordered, faults>>
    <2>1. /\ out["book"] = <<>> /\ out' = [out EXCEPT !["book"] = w]
          /\ published' = Following(published)
          /\ UNCHANGED <<stream, got, num_updates, ordered, faults>>
      BY <1>2 DEF publish
    <2> QED  BY <2>1, StreamNames DEF TypeOK
  <1>5. FrameWords' = FrameWords + BookWords
    <2>1. /\ Len(got["ta_parser"]) \in Nat /\ Len(stream["frames"]) \in Nat
          /\ BookWords \in Nat
      BY Lengths, CounterFacts, StreamNames
    <2>2. FrameWords = Len(got["ta_parser"]) + Len(stream["frames"]) + 0
      BY <1>4 DEF FrameWords
    <2>3. FrameWords' = Len(got["ta_parser"]) + Len(stream["frames"]) + BookWords
      <3>1. Len(out'["book"]) = BookWords  BY <1>3, <1>4
      <3>2. got'["ta_parser"] = got["ta_parser"] /\ stream'["frames"] = stream["frames"]
        BY <1>4
      <3> QED  BY <3>1, <3>2, Zenon DEF FrameWords
    <2> QED  BY <2>1, <2>2, <2>3
  <1>6. PriceWords(Len(g))' = PriceWords(Len(g)) /\ MessagesLeft' = MessagesLeft
        /\ out'["ta_parser"] = out["ta_parser"]
    BY <1>4, StreamNames DEF PriceWords, MessagesLeft
  <1>7. Counts(num_updates'["ta_parser"], published', ordered',
               FrameWords', PriceWords(Len(g))', MessagesLeft')
    <2>1. num_updates["ta_parser"] \in Frame /\ published \in Frame  BY Lengths
    <2>2. Counts(num_updates["ta_parser"], Following(published), ordered,
                 FrameWords + BookWords, PriceWords(Len(g)), MessagesLeft)
      BY <1>1, <2>1, CountPublished
    <2> QED  BY <1>4, <1>5, <1>6, <2>2
  <1>8. Calls'
    <2>1. Calls /\ Len(got["book"]) = 0  BY DEF Counted, Calls
    <2>2. Len(out'["book"]) <= BookWords  BY <1>3, <1>4, CounterFacts
    <2>3. out'["order_gen"] = out["order_gen"]  BY <1>4, StreamNames
    <2>4. \A b \in Blocks : Len(got[b]) = 0 \/ Len(out'[b]) = 0
      BY <1>4, <2>1 DEF Calls
    <2>5. got' = got  BY <1>4
    <2> QED  BY <2>1, <2>2, <2>3, <2>4, <2>5 DEF Calls
  <1> QED  BY <1>1, <1>4, <1>6, <1>7, <1>8 DEF Counted

\* The words of a call have a frame.
LEMMA FrameRead ==
  ASSUME TypeOK, NEW b \in Blocks, NEW s \in Streams, MayRead(b, s)
  PROVE  FrameOf(Words(b, s)) \in Origin
  <1>1. Words(b, s) \in Seq(Word) /\ Len(Words(b, s)) = Len(got[b]) + 1 /\ Len(got[b]) \in Nat
    BY WordsFacts
  <1>2. Len(Words(b, s)) >= 1  BY <1>1
  <1> QED  BY <1>1, <1>2, FrameOfFacts

LEMMA ParserCounted ==
  ASSUME TypeOK, Counted, ta_parser
  PROVE  Counted'
  <1>1. PICK c \in Seq(Streams \X Word), g \in Seq(Streams \X Word) :
          /\ SplitAs(out["ta_parser"], c, g)
          /\ Counts(num_updates["ta_parser"], published, ordered,
                    FrameWords, PriceWords(Len(g)), MessagesLeft)
    BY DEF Counted
  <1>2. /\ "ta_parser" \in Blocks /\ "frames" \in Streams /\ Calls /\ ordered \in Frame
        /\ Len(out["book"]) \in Nat /\ published \in Frame
        /\ num_updates["ta_parser"] \in Frame
    BY StreamNames, Lengths DEF Counted
  <1>3. CASE ReadOn("ta_parser", "frames", BookWords)
    <2>1. /\ Len(out["ta_parser"]) = 0 /\ Len(got'["ta_parser"]) = Len(got["ta_parser"]) + 1
          /\ Len(got["ta_parser"]) + 1 < BookWords
          /\ Len(stream'["frames"]) = Len(stream["frames"]) - 1
          /\ Len(stream["frames"]) \in Nat /\ Len(got["ta_parser"]) \in Nat
          /\ \A t \in Streams \ {"frames"} : stream'[t] = stream[t]
          /\ \A d \in Blocks \ {"ta_parser"} : got'[d] = got[d]
          /\ UNCHANGED <<out, num_updates, published, ordered, faults>>
      BY <1>2, <1>3, ReadOnLengths
    <2>2. FrameWords' = FrameWords
      <3>1. FrameWords' = (Len(got["ta_parser"]) + 1) + (Len(stream["frames"]) - 1)
                          + Len(out["book"])
        <4>1. out'["book"] = out["book"]  BY <2>1
        <4> QED  BY <2>1, <4>1, Zenon DEF FrameWords
      <3>2. FrameWords = Len(got["ta_parser"]) + Len(stream["frames"]) + Len(out["book"])
        BY DEF FrameWords
      <3>3. PICK x \in Nat, y \in Nat, z \in Nat :
              x = Len(got["ta_parser"]) /\ y = Len(stream["frames"]) /\ z = Len(out["book"])
        BY <1>2, <2>1
      <3>4. (x + 1) + (y - 1) + z = x + y + z  OBVIOUS
      <3> QED  BY <3>1, <3>2, <3>3, <3>4, Zenon
    <2>3. MessagesLeft' = MessagesLeft  BY <2>1, StreamNames DEF MessagesLeft
    <2>4. \A n \in Nat : PriceWords(n)' = PriceWords(n)
      BY <2>1, StreamNames DEF PriceWords
    <2>5. Calls'  BY <1>2, <2>1, StreamNames DEF Calls
    <2> QED  BY <2>1, <2>2, <2>3, <2>4, <2>5, CountedKept
  <1>4. CASE /\ ReadLast("ta_parser", "frames", BookWords,
                         PriceWrites(FrameOf(Words("ta_parser", "frames"))))
             /\ num_updates' = [num_updates EXCEPT !["ta_parser"] = Following(@)]
             /\ UNCHANGED <<published, ordered, faults>>
    <2>1. PICK h \in Origin : h = FrameOf(Words("ta_parser", "frames"))
      BY <1>2, <1>4, FrameRead DEF ReadLast
    <2>2. PICK w : w = PriceWrites(h)  OBVIOUS
    <2>3. /\ Len(out["ta_parser"]) = 0 /\ Len(got["ta_parser"]) + 1 = BookWords
          /\ Len(got'["ta_parser"]) = 0 /\ out'["ta_parser"] = w
          /\ Len(stream'["frames"]) = Len(stream["frames"]) - 1
          /\ Len(stream["frames"]) \in Nat /\ Len(stream["frames"]) >= 1
          /\ Len(got["ta_parser"]) \in Nat
          /\ \A t \in Streams \ {"frames"} : stream'[t] = stream[t]
          /\ \A d \in Blocks \ {"ta_parser"} : got'[d] = got[d] /\ out'[d] = out[d]
      <3>1. ReadLast("ta_parser", "frames", BookWords, w)  BY <1>4, <2>1, <2>2
      <3> QED  BY <1>2, <3>1, ReadLastLengths
    <2>4. PICK ta \in Frame : ta = num_updates["ta_parser"]  BY <1>2
    <2>5. /\ num_updates'["ta_parser"] = Following(ta)
          /\ UNCHANGED <<published, ordered, faults>>
      BY <1>4, <2>4 DEF TypeOK
    <2>6. Len(c) = 0 /\ Len(g) = 0
      <3>1. Len(c \o g) = 0 /\ Len(c \o g) = Len(c) + Len(g)
            /\ Len(c) \in Nat /\ Len(g) \in Nat
        BY <1>1, <2>3 DEF SplitAs
      <3> QED  BY <3>1
    <2>7. PICK cn : cn = To("prices_cov", Message(NumStocks, h))  OBVIOUS
    <2>8. PICK go : go = To("prices_og", Message(NumStocks, h))  OBVIOUS
    <2>9. PICK gn : gn = IF ta > 0 THEN go ELSE <<>>  OBVIOUS
    <2>10. /\ cn \in Seq(Streams \X Word) /\ \A i \in 1 .. Len(cn) : cn[i][1] = "prices_cov"
           /\ go \in Seq(Streams \X Word) /\ \A i \in 1 .. Len(go) : go[i][1] = "prices_og"
           /\ Len(go) = NumStocks
      <3>1. /\ NumStocks \in Nat /\ h \in Origin /\ "prices_cov" \in Streams
            /\ "prices_og" \in Streams
        BY CounterFacts, StreamNames
      <3>2. /\ cn \in Seq(Streams \X Word)
            /\ \A i \in 1 .. Len(cn) : cn[i][1] = "prices_cov"
        BY <2>7, <3>1, MessageToPort
      <3>3. /\ go \in Seq(Streams \X Word)
            /\ \A i \in 1 .. Len(go) : go[i][1] = "prices_og"
        BY <2>8, <3>1, MessageToPort
      <3>4. Len(go) = NumStocks  BY <2>8, <3>1, MessageToFacts
      <3> QED  BY <3>2, <3>3, <3>4
    <2>11. /\ gn \in Seq(Streams \X Word) /\ \A i \in 1 .. Len(gn) : gn[i][1] = "prices_og"
           /\ Len(gn) = (IF ta > 0 THEN NumStocks ELSE 0)
      <3>1. CASE ta > 0  BY <2>9, <2>10, <3>1
      <3>2. CASE ~ (ta > 0)
        <4>1. gn = <<>>  BY <2>9, <3>2
        <4> QED  BY <3>2, <4>1
      <3> QED  BY <3>1, <3>2
    <2>12. SplitAs(out'["ta_parser"], cn, gn)
      <3>1. w = cn \o gn  BY <2>2, <2>4, <2>7, <2>8, <2>9 DEF PriceWrites
      <3>2. Len(gn) <= NumStocks  BY <2>11, CounterFacts
      <3> QED  BY <2>3, <2>10, <2>11, <3>1, <3>2 DEF SplitAs
    <2>13. FrameWords >= BookWords /\ FrameWords' = FrameWords - BookWords
      <3>1. out'["book"] = out["book"]  BY <2>3, StreamNames
      <3>2. FrameWords' = 0 + (Len(stream["frames"]) - 1) + Len(out["book"])
        BY <2>3, <3>1, Zenon DEF FrameWords
      <3>3. FrameWords = Len(got["ta_parser"]) + Len(stream["frames"]) + Len(out["book"])
        BY DEF FrameWords
      <3>4. BookWords \in Nat  BY CounterFacts
      <3>5. PICK x \in Nat, y \in Nat, z \in Nat :
              x = Len(got["ta_parser"]) /\ y = Len(stream["frames"]) /\ z = Len(out["book"])
        BY <1>2, <2>3
      <3>6. x + 1 = BookWords /\ y >= 1  BY <2>3, <3>5
      <3>7. FrameWords' = 0 + (y - 1) + z /\ FrameWords = x + y + z
        BY <3>2, <3>3, <3>5, Zenon
      <3> QED  BY <3>4, <3>6, <3>7
    <2>14. MessagesLeft' = MessagesLeft  BY <2>3, StreamNames DEF MessagesLeft
    <2>15. PriceWords(Len(gn))' = IF ta > 0 THEN PriceWords(Len(g)) + NumStocks
                                  ELSE PriceWords(Len(g))
      <3>1. PICK x \in Nat : x = PricesTaken(Len(got["order_gen"])) + Len(stream["prices_og"])
        <4>1. Len(got["order_gen"]) \in Nat /\ Len(stream["prices_og"]) \in Nat
              /\ NumStocks \in Nat
          BY Lengths, StreamNames, CounterFacts
        <4>2. PICK l \in Nat, q \in Nat :
                l = Len(got["order_gen"]) /\ q = Len(stream["prices_og"])
          BY <4>1
        <4>3. PricesTaken(l) + q \in Nat  BY <4>1 DEF PricesTaken
        <4> QED  BY <4>2, <4>3
      <3>2. PriceWords(Len(gn))' = x + Len(gn)
        BY <2>3, <3>1, StreamNames DEF PriceWords
      <3>3. PriceWords(Len(g)) = x + 0  BY <2>6, <3>1 DEF PriceWords
      <3> QED  BY <2>11, <3>2, <3>3, CounterFacts
    <2>16. Counts(num_updates'["ta_parser"], published', ordered',
                  FrameWords', PriceWords(Len(gn))', MessagesLeft')
      <3>1. Counts(ta, published, ordered, FrameWords, PriceWords(Len(g)), MessagesLeft)
        BY <1>1, <2>4
      <3>2. Counts(Following(ta), published, ordered, FrameWords - BookWords,
                   IF ta > 0 THEN PriceWords(Len(g)) + NumStocks ELSE PriceWords(Len(g)),
                   MessagesLeft)
        BY <1>2, <2>13, <3>1, CountParsed
      <3> QED  BY <2>5, <2>13, <2>14, <2>15, <3>2
    <2>17. Calls'
      <3>1. \A d \in {"book", "order_gen", "mb"} : got'[d] = got[d] /\ out'[d] = out[d]
        BY <2>3, StreamNames
      <3>2. Len(got'["ta_parser"]) < BookWords  BY <2>3, CounterFacts
      <3>3. \A d \in Blocks : Len(got'[d]) = 0 \/ Len(out'[d]) = 0
        BY <1>2, <2>3 DEF Calls
      <3> QED  BY <1>2, <3>1, <3>2, <3>3 DEF Calls
    <2>18. ordered' \in Frame  BY <1>2, <2>5
    <2> QED  BY <2>10, <2>11, <2>12, <2>16, <2>17, <2>18 DEF Counted
  <1> QED  BY <1>3, <1>4 DEF ta_parser

\* The blocks between do not touch what is counted.
LEMMA BetweenCounted ==
  ASSUME TypeOK, Counted, cov_update \/ qr_decomp
  PROVE  Counted'
  <1>1. PICK b \in {"cov_update", "qr_decomp"}, s \in {"prices_cov", "matrix"} :
          /\ \E n : ReadOn(b, s, n) \/ \E w : ReadLast(b, s, n, w)
          /\ num_updates'["ta_parser"] = num_updates["ta_parser"]
          /\ UNCHANGED <<published, ordered>>
    <2>1. CASE cov_update
      <3>1. CASE ReadOn("cov_update", "prices_cov", NumStocks)
        BY <3>1 DEF ReadOn
      <3>2. CASE /\ ReadLast("cov_update", "prices_cov", NumStocks,
                             MatrixWrites(FrameOf(Words("cov_update", "prices_cov"))))
                 /\ num_updates' = [num_updates EXCEPT !["cov_update"] = Following(@)]
                 /\ UNCHANGED <<published, ordered, faults>>
        BY <3>2 DEF TypeOK
      <3> QED  BY <2>1, <3>1, <3>2 DEF cov_update
    <2>2. CASE qr_decomp
      <3>1. PICK n : n = NumStocks * NumStocks  OBVIOUS
      <3>2. CASE ReadOn("qr_decomp", "matrix", n)
        BY <3>2 DEF ReadOn
      <3>3. CASE /\ \E w : ReadLast("qr_decomp", "matrix", n, w)
                 /\ UNCHANGED <<num_updates, published, ordered>>
        BY <3>3
      <3> QED  BY <2>2, <3>1, <3>2, <3>3 DEF qr_decomp
    <2> QED  BY <2>1, <2>2
  <1>2. b \in Blocks /\ s \in Streams /\ Calls  BY StreamNames DEF Counted
  <1>3. /\ \A t \in Streams \ {s} : stream'[t] = stream[t]
        /\ \A d \in Blocks \ {b} : got'[d] = got[d] /\ out'[d] = out[d]
        /\ Len(got'[b]) = 0 \/ Len(out'[b]) = 0
    <2>1. ASSUME NEW n, ReadOn(b, s, n)
          PROVE  /\ \A t \in Streams \ {s} : stream'[t] = stream[t]
                 /\ \A d \in Blocks \ {b} : got'[d] = got[d] /\ out'[d] = out[d]
                 /\ Len(got'[b]) = 0 \/ Len(out'[b]) = 0
      BY <1>2, <2>1, ReadOnLengths
    <2>2. ASSUME NEW n, NEW w, ReadLast(b, s, n, w)
          PROVE  /\ \A t \in Streams \ {s} : stream'[t] = stream[t]
                 /\ \A d \in Blocks \ {b} : got'[d] = got[d] /\ out'[d] = out[d]
                 /\ Len(got'[b]) = 0 \/ Len(out'[b]) = 0
      BY <1>2, <2>2, ReadLastLengths
    <2> QED  BY <1>1, <2>1, <2>2
  <1>4. /\ \A d \in {"book", "ta_parser", "order_gen", "mb"} :
             got'[d] = got[d] /\ out'[d] = out[d]
        /\ \A t \in {"frames", "prices_og", "orders"} : stream'[t] = stream[t]
    BY <1>1, <1>3, StreamNames
  <1>5. FrameWords' = FrameWords /\ MessagesLeft' = MessagesLeft
    BY <1>4 DEF FrameWords, MessagesLeft
  <1>6. \A n \in Nat : PriceWords(n)' = PriceWords(n)  BY <1>4 DEF PriceWords
  <1>7. Calls'
    <2>1. \A d \in Blocks : Len(got'[d]) = 0 \/ Len(out'[d]) = 0
      BY <1>2, <1>3 DEF Calls
    <2> QED  BY <1>2, <1>4, <2>1 DEF Calls
  <1>8. UNCHANGED <<num_updates["ta_parser"], published, ordered, out["ta_parser"]>>
    BY <1>1, <1>4
  <1> QED  BY <1>5, <1>6, <1>7, <1>8, CountedKept

\* order_gen: NumStocks prices, then as many weights.
LEMMA ComputeCounted ==
  ASSUME TypeOK, Counted, order_gen,
         \A i \in 1 .. Len(stream["weights"]) : stream["weights"][i].valid
  PROVE  Counted'
  <1>1. PICK c \in Seq(Streams \X Word), g \in Seq(Streams \X Word) :
          /\ SplitAs(out["ta_parser"], c, g)
          /\ Counts(num_updates["ta_parser"], published, ordered,
                    FrameWords, PriceWords(Len(g)), MessagesLeft)
    BY DEF Counted
  <1>2. /\ "order_gen" \in Blocks /\ "prices_og" \in Streams /\ "weights" \in Streams
        /\ Calls /\ ordered \in Frame
    BY StreamNames DEF Counted
  <1>3. CASE Len(got["order_gen"]) < NumStocks /\ ReadOn("order_gen", "prices_og", 2 * NumStocks)
    <2>1. /\ Len(out["order_gen"]) = 0 /\ Len(got'["order_gen"]) = Len(got["order_gen"]) + 1
          /\ Len(got["order_gen"]) + 1 < 2 * NumStocks
          /\ Len(stream'["prices_og"]) = Len(stream["prices_og"]) - 1
          /\ Len(stream["prices_og"]) \in Nat /\ Len(got["order_gen"]) \in Nat
          /\ \A t \in Streams \ {"prices_og"} : stream'[t] = stream[t]
          /\ \A d \in Blocks \ {"order_gen"} : got'[d] = got[d]
          /\ UNCHANGED <<out, num_updates, published, ordered, faults>>
      BY <1>2, <1>3, ReadOnLengths
    <2>2. FrameWords' = FrameWords /\ MessagesLeft' = MessagesLeft
      BY <2>1, StreamNames DEF FrameWords, MessagesLeft
    <2>3. \A n \in Nat : PriceWords(n)' = PriceWords(n)
      <3>1. PricesTaken(Len(got["order_gen"])) = Len(got["order_gen"])
            /\ PricesTaken(Len(got'["order_gen"])) = Len(got["order_gen"]) + 1
        BY <1>3, <2>1, CounterFacts DEF PricesTaken
      <3>2. \A n \in Nat : PriceWords(n)' = PricesTaken(Len(got'["order_gen"]))
                                            + Len(stream'["prices_og"]) + n
        BY DEF PriceWords, PricesTaken
      <3>3. ASSUME NEW n \in Nat PROVE PriceWords(n)' = PriceWords(n)
        <4>1. PriceWords(n)' = (Len(got["order_gen"]) + 1) + (Len(stream["prices_og"]) - 1) + n
          BY <2>1, <3>1, <3>2
        <4>2. PriceWords(n) = Len(got["order_gen"]) + Len(stream["prices_og"]) + n
          BY <3>1 DEF PriceWords
        <4>3. PICK x \in Nat, y \in Nat :
                x = Len(got["order_gen"]) /\ y = Len(stream["prices_og"])
          BY <2>1
        <4>4. (x + 1) + (y - 1) + n = x + y + n  OBVIOUS
        <4> QED  BY <4>1, <4>2, <4>3, <4>4, Zenon
      <3> QED  BY <3>3
    <2>4. Calls'  BY <1>2, <2>1, StreamNames DEF Calls
    <2> QED  BY <2>1, <2>2, <2>3, <2>4, CountedKept
  <1>4. CASE Len(got["order_gen"]) >= NumStocks /\ ReadOn("order_gen", "weights", 2 * NumStocks)
    <2>1. /\ Len(out["order_gen"]) = 0 /\ Len(got'["order_gen"]) = Len(got["order_gen"]) + 1
          /\ Len(got["order_gen"]) + 1 < 2 * NumStocks /\ Len(got["order_gen"]) \in Nat
          /\ \A t \in Streams \ {"weights"} : stream'[t] = stream[t]
          /\ \A d \in Blocks \ {"order_gen"} : got'[d] = got[d]
          /\ UNCHANGED <<out, num_updates, published, ordered, faults>>
      BY <1>2, <1>4, ReadOnLengths
    <2>2. FrameWords' = FrameWords /\ MessagesLeft' = MessagesLeft
      BY <2>1, StreamNames DEF FrameWords, MessagesLeft
    <2>3. \A n \in Nat : PriceWords(n)' = PriceWords(n)
      <3>1. PricesTaken(Len(got["order_gen"])) = NumStocks
            /\ PricesTaken(Len(got'["order_gen"])) = NumStocks
        BY <1>4, <2>1, CounterFacts DEF PricesTaken
      <3>2. \A n \in Nat : PriceWords(n)' = PricesTaken(Len(got'["order_gen"]))
                                            + Len(stream'["prices_og"]) + n
        BY DEF PriceWords, PricesTaken
      <3>3. stream'["prices_og"] = stream["prices_og"]  BY <2>1, StreamNames
      <3> QED  BY <3>1, <3>2, <3>3 DEF PriceWords
    <2>4. Calls'  BY <1>2, <2>1, StreamNames DEF Calls
    <2> QED  BY <2>1, <2>2, <2>3, <2>4, CountedKept
  <1>5. CASE /\ Len(got["order_gen"]) >= NumStocks
             /\ ReadLast("order_gen", "weights", 2 * NumStocks,
                         OrderWrites(FrameOf(Words("order_gen", "weights"))))
             /\ UNCHANGED <<num_updates, published, ordered, faults>>
    <2>1. PICK w : w = OrderWrites(FrameOf(Words("order_gen", "weights")))  OBVIOUS
    <2>2. Len(w) = MessageWords
      <3>1. FrameOf(Words("order_gen", "weights")) \in Origin
        BY <1>2, <1>5, FrameRead DEF ReadLast
      <3> QED  BY <2>1, <3>1, WritesTargets
    <2>3. /\ Len(out["order_gen"]) = 0 /\ Len(got["order_gen"]) + 1 = 2 * NumStocks
          /\ Len(got'["order_gen"]) = 0 /\ out'["order_gen"] = w
          /\ Len(got["order_gen"]) \in Nat
          /\ \A t \in Streams \ {"weights"} : stream'[t] = stream[t]
          /\ \A d \in Blocks \ {"order_gen"} : got'[d] = got[d] /\ out'[d] = out[d]
      <3>1. ReadLast("order_gen", "weights", 2 * NumStocks, w)  BY <1>5, <2>1
      <3> QED  BY <1>2, <3>1, ReadLastLengths
    <2>4. FrameWords' = FrameWords  BY <2>3, StreamNames DEF FrameWords
    <2>5. MessagesLeft' = MessagesLeft + MessageWords
      <3>1. Len(got["mb"]) \in Nat /\ Len(stream["orders"]) \in Nat /\ MessageWords \in Nat
        BY Lengths, StreamNames, CounterFacts
      <3>2. got'["mb"] = got["mb"] /\ stream'["orders"] = stream["orders"]
            /\ Len(out'["order_gen"]) = MessageWords
        BY <2>2, <2>3, StreamNames
      <3>3. MessagesLeft' = Len(got["mb"]) + Len(stream["orders"]) + MessageWords
        BY <3>2, Zenon DEF MessagesLeft
      <3>4. MessagesLeft = Len(got["mb"]) + Len(stream["orders"]) + 0
        BY <2>3 DEF MessagesLeft
      <3> QED  BY <3>1, <3>3, <3>4
    <2>6. PriceWords(Len(g)) >= NumStocks
          /\ PriceWords(Len(g))' = PriceWords(Len(g)) - NumStocks
      <3>1. /\ PricesTaken(Len(got["order_gen"])) = NumStocks
            /\ PricesTaken(Len(got'["order_gen"])) = 0
        BY <1>5, <2>3, CounterFacts DEF PricesTaken
      <3>2. PriceWords(Len(g))' = PricesTaken(Len(got'["order_gen"]))
                                  + Len(stream'["prices_og"]) + Len(g)
        BY DEF PriceWords, PricesTaken
      <3>3. stream'["prices_og"] = stream["prices_og"]  BY <2>3, StreamNames
      <3>4. Len(stream["prices_og"]) \in Nat /\ Len(g) \in Nat /\ NumStocks \in Nat
        BY <1>2, Lengths, CounterFacts
      <3> QED  BY <3>1, <3>2, <3>3, <3>4 DEF PriceWords
    <2>7. Counts(num_updates'["ta_parser"], published', ordered',
                 FrameWords', PriceWords(Len(g))', MessagesLeft')
      <3>1. Counts(num_updates["ta_parser"], published, ordered, FrameWords,
                   PriceWords(Len(g)) - NumStocks, MessagesLeft + MessageWords)
        BY <1>1, <2>6, CountComputed
      <3> QED  BY <1>5, <2>4, <2>5, <2>6, <3>1
    <2>8. Calls'
      <3>1. \A d \in {"book", "ta_parser", "mb"} : got'[d] = got[d] /\ out'[d] = out[d]
        BY <2>3, StreamNames
      <3>2. Len(got'["order_gen"]) < 2 * NumStocks  BY <2>3, CounterFacts
      <3>3. Len(out'["order_gen"]) <= MessageWords  BY <2>2, <2>3, CounterFacts
      <3>4. \A d \in Blocks : Len(got'[d]) = 0 \/ Len(out'[d]) = 0
        BY <1>2, <2>3 DEF Calls
      <3> QED  BY <1>2, <3>1, <3>2, <3>3, <3>4 DEF Calls
    <2>9. SplitAs(out'["ta_parser"], c, g)  BY <1>1, <2>3, StreamNames
    <2>10. ordered' \in Frame  BY <1>2, <1>5
    <2> QED  BY <2>7, <2>8, <2>9, <2>10 DEF Counted
  <1>6. ASSUME MayRead("order_gen", "weights") PROVE Head(stream["weights"]).valid
    <2>1. /\ Len(stream["weights"]) \in Nat /\ Len(stream["weights"]) >= 1
          /\ Head(stream["weights"]) = stream["weights"][1]
      BY <1>2, <1>6, WordsFacts
    <2>2. 1 \in 1 .. Len(stream["weights"])  BY <2>1
    <2> QED  BY <2>1, <2>2
  <1> QED  BY <1>3, <1>4, <1>5, <1>6 DEF order_gen

\* The frame of the message that the program completes.
LEMMA ProgramOrders ==
  ASSUME TypeOK, Aligned, ReadLast("mb", "orders", MessageWords, <<>>)
  PROVE  FrameOf(Words("mb", "orders")) = Skip(ordered)
  <1>1. PICK e \in Frame \ {0}, q \in Frame \ {0},
             c \in Seq(Streams \X Word), g \in Seq(Streams \X Word) : AlignedAt(e, q, c, g)
    BY DEF Aligned
  <1>2. PICK f : f = Skip(ordered)  OBVIOUS
  <1>3. /\ f \in Frame \ {0} /\ "mb" \in Blocks /\ "orders" \in Streams
        /\ MessageWords = Size["orders"]
    BY <1>2, AlignedNumbers, StreamNames, SizeFacts DEF Aligned
  <1>4. /\ Reads(got["mb"], f, MessageWords)
        /\ Link("orders", stream["orders"], <<f, Len(got["mb"]) + 1>>, out["order_gen"], e)
    BY <1>1, <1>2 DEF AlignedAt
  <1>5. FrameOf(Words("mb", "orders")) = f
    BY <1>3, <1>4, ReadLastFacts
  <1> QED  BY <1>2, <1>5

LEMMA ProgramCounted ==
  ASSUME TypeOK, Aligned, Counted, mb
  PROVE  /\ Counted' /\ UNCHANGED <<published, faults>>
         /\ ordered' # ordered =>
              ordered' = Skip(ordered) /\ MessagesLeft >= MessageWords
  <1>1. PICK c \in Seq(Streams \X Word), g \in Seq(Streams \X Word) :
          /\ SplitAs(out["ta_parser"], c, g)
          /\ Counts(num_updates["ta_parser"], published, ordered,
                    FrameWords, PriceWords(Len(g)), MessagesLeft)
    BY DEF Counted
  <1>2. /\ "mb" \in Blocks /\ "orders" \in Streams /\ Calls /\ ordered \in Frame
        /\ Len(out["order_gen"]) \in Nat
    BY StreamNames, Lengths DEF Counted
  <1>3. CASE ReadOn("mb", "orders", MessageWords)
    <2>1. /\ Len(out["mb"]) = 0 /\ Len(got'["mb"]) = Len(got["mb"]) + 1
          /\ Len(got["mb"]) + 1 < MessageWords
          /\ Len(stream'["orders"]) = Len(stream["orders"]) - 1
          /\ Len(stream["orders"]) \in Nat /\ Len(got["mb"]) \in Nat
          /\ \A t \in Streams \ {"orders"} : stream'[t] = stream[t]
          /\ \A d \in Blocks \ {"mb"} : got'[d] = got[d]
          /\ UNCHANGED <<out, num_updates, published, ordered, faults>>
      BY <1>2, <1>3, ReadOnLengths
    <2>2. FrameWords' = FrameWords  BY <2>1, StreamNames DEF FrameWords
    <2>3. MessagesLeft' = MessagesLeft
      <3>1. MessagesLeft' = (Len(got["mb"]) + 1) + (Len(stream["orders"]) - 1)
                            + Len(out["order_gen"])
        <4>1. out'["order_gen"] = out["order_gen"]  BY <2>1
        <4> QED  BY <2>1, <4>1, Zenon DEF MessagesLeft
      <3>2. MessagesLeft = Len(got["mb"]) + Len(stream["orders"]) + Len(out["order_gen"])
        BY DEF MessagesLeft
      <3>3. PICK x \in Nat, y \in Nat, z \in Nat :
              x = Len(got["mb"]) /\ y = Len(stream["orders"]) /\ z = Len(out["order_gen"])
        BY <1>2, <2>1
      <3>4. (x + 1) + (y - 1) + z = x + y + z  OBVIOUS
      <3> QED  BY <3>1, <3>2, <3>3, <3>4, Zenon
    <2>4. \A n \in Nat : PriceWords(n)' = PriceWords(n)
      BY <2>1, StreamNames DEF PriceWords
    <2>5. Calls'
      <3>1. \A d \in {"book", "ta_parser", "order_gen"} : got'[d] = got[d]
        BY <2>1, StreamNames
      <3>2. \A d \in Blocks : Len(got'[d]) = 0 \/ Len(out[d]) = 0
        BY <1>2, <2>1 DEF Calls
      <3>3. out' = out /\ Len(got'["mb"]) < MessageWords  BY <2>1
      <3> QED  BY <1>2, <3>1, <3>2, <3>3 DEF Calls
    <2>6. Counted'  BY <2>1, <2>2, <2>3, <2>4, <2>5, CountedKept
    <2> QED  BY <2>1, <2>6
  <1>4. CASE /\ ReadLast("mb", "orders", MessageWords, <<>>)
             /\ ordered' = FrameOf(Words("mb", "orders"))
             /\ UNCHANGED <<num_updates, published, faults>>
    <2>1. /\ Len(out["mb"]) = 0 /\ Len(got["mb"]) + 1 = MessageWords
          /\ Len(got'["mb"]) = 0 /\ out'["mb"] = <<>>
          /\ Len(stream'["orders"]) = Len(stream["orders"]) - 1
          /\ Len(stream["orders"]) \in Nat /\ Len(stream["orders"]) >= 1
          /\ Len(got["mb"]) \in Nat
          /\ \A t \in Streams \ {"orders"} : stream'[t] = stream[t]
          /\ \A d \in Blocks \ {"mb"} : got'[d] = got[d] /\ out'[d] = out[d]
      BY <1>2, <1>4, ReadLastLengths
    <2>2. ordered' = Skip(ordered)  BY <1>4, ProgramOrders
    <2>3. FrameWords' = FrameWords  BY <2>1, StreamNames DEF FrameWords
    <2>4. MessagesLeft >= MessageWords /\ MessagesLeft' = MessagesLeft - MessageWords
      <3>1. out'["order_gen"] = out["order_gen"]  BY <2>1, StreamNames
      <3>2. MessagesLeft' = 0 + (Len(stream["orders"]) - 1) + Len(out["order_gen"])
        BY <2>1, <3>1, Zenon DEF MessagesLeft
      <3>3. MessagesLeft = Len(got["mb"]) + Len(stream["orders"]) + Len(out["order_gen"])
        BY DEF MessagesLeft
      <3>4. PICK x \in Nat, y \in Nat, z \in Nat :
              x = Len(got["mb"]) /\ y = Len(stream["orders"]) /\ z = Len(out["order_gen"])
        BY <1>2, <2>1
      <3>5. x + 1 = MessageWords /\ y >= 1  BY <2>1, <3>4
      <3>6. MessagesLeft' = 0 + (y - 1) + z /\ MessagesLeft = x + y + z
        BY <3>2, <3>3, <3>4, Zenon
      <3>7. MessageWords \in Nat  BY CounterFacts
      <3> QED  BY <3>5, <3>6, <3>7
    <2>5. PriceWords(Len(g))' = PriceWords(Len(g))
      BY <2>1, StreamNames DEF PriceWords
    <2>6. Counts(num_updates'["ta_parser"], published', ordered',
                 FrameWords', PriceWords(Len(g))', MessagesLeft')
      <3>1. Counts(num_updates["ta_parser"], published, Skip(ordered), FrameWords,
                   PriceWords(Len(g)), MessagesLeft - MessageWords)
        BY <1>1, <1>2, <2>4, CountOrdered
      <3> QED  BY <1>4, <2>2, <2>3, <2>4, <2>5, <3>1
    <2>7. Calls'
      <3>1. \A d \in {"book", "ta_parser", "order_gen"} : got'[d] = got[d] /\ out'[d] = out[d]
        BY <2>1, StreamNames
      <3>2. Len(got'["mb"]) < MessageWords  BY <2>1, CounterFacts
      <3>3. \A d \in Blocks : Len(got'[d]) = 0 \/ Len(out'[d]) = 0
        BY <1>2, <2>1 DEF Calls
      <3> QED  BY <1>2, <3>1, <3>2, <3>3 DEF Calls
    <2>8. SplitAs(out'["ta_parser"], c, g)  BY <1>1, <2>1, StreamNames
    <2>9. ordered' \in Frame  BY <1>2, <2>2, FrameFacts
    <2>10. Counted'  BY <2>6, <2>7, <2>8, <2>9 DEF Counted
    <2> QED  BY <1>4, <2>2, <2>4, <2>10
  <1> QED  BY <1>3, <1>4 DEF mb

\* A write moves a word from the writer to its stream.
LEMMA WriteLengths ==
  ASSUME TypeOK, Ports, NEW b \in Blocks, Write(b)
  PROVE  \E s \in Target[b] :
           /\ s \in Streams /\ out[b][1][1] = s /\ Len(out[b]) >= 1
           /\ Len(out'[b]) = Len(out[b]) - 1 /\ out'[b] = Tail(out[b])
           /\ Len(stream'[s]) = Len(stream[s]) + 1
           /\ \A t \in Streams \ {s} : stream'[t] = stream[t]
           /\ \A d \in Blocks \ {b} : out'[d] = out[d]
           /\ UNCHANGED <<got, num_updates, published, ordered, faults>>
  <1>1. /\ Len(out[b]) \in Nat /\ Len(out[b]) >= 1
        /\ out[b][1] \in Streams \X Word /\ out[b][1][1] \in Streams
        /\ out'[b] = Tail(out[b]) /\ \A c \in Blocks \ {b} : out'[c] = out[c]
        /\ Len(out'[b]) = Len(out[b]) - 1
        /\ stream'[out[b][1][1]] = Append(stream[out[b][1][1]], out[b][1][2])
        /\ \A t \in Streams \ {out[b][1][1]} : stream'[t] = stream[t]
        /\ UNCHANGED <<got, num_updates, published, ordered, faults>>
    BY WriteFacts
  <1>2. PICK s \in Streams : s = out[b][1][1]  BY <1>1
  <1>3. s \in Target[b]
    <2>1. 1 \in 1 .. Len(out[b])  BY <1>1
    <2> QED  BY <1>2, <2>1 DEF Ports
  <1>4. Len(stream'[s]) = Len(stream[s]) + 1
    <2>1. stream[s] \in Seq(Word)  BY DEF TypeOK
    <2>2. stream'[s] = Append(stream[s], out[b][1][2])  BY <1>1, <1>2
    <2> QED  BY <2>1, <2>2
  <1> QED  BY <1>1, <1>2, <1>3, <1>4

LEMMA WriteCounted ==
  ASSUME TypeOK, Ports, Counted, NEW b \in Blocks, Write(b)
  PROVE  Counted'
  <1>1. PICK s \in Target[b] :
           /\ s \in Streams /\ out[b][1][1] = s /\ Len(out[b]) >= 1
           /\ Len(out'[b]) = Len(out[b]) - 1 /\ out'[b] = Tail(out[b])
           /\ Len(stream'[s]) = Len(stream[s]) + 1
           /\ \A t \in Streams \ {s} : stream'[t] = stream[t]
           /\ \A d \in Blocks \ {b} : out'[d] = out[d]
           /\ UNCHANGED <<got, num_updates, published, ordered, faults>>
    BY WriteLengths
  <1>2. /\ Calls /\ ordered \in Frame /\ Len(out[b]) \in Nat /\ Len(stream[s]) \in Nat
        /\ BookWords \in Nat /\ MessageWords \in Nat
    BY <1>1, Lengths, CounterFacts DEF Counted
  <1>3. Calls'
    <2>1. \A d \in Blocks : Len(got[d]) = 0 \/ Len(out'[d]) = 0
      <3>1. Len(got[b]) = 0  BY <1>1, <1>2 DEF Calls
      <3> QED  BY <1>1, <1>2, <3>1 DEF Calls
    <2>2. ASSUME NEW d \in Blocks, NEW n \in Nat, Len(out[d]) <= n PROVE Len(out'[d]) <= n
      <3>1. CASE d = b
        <4>1. PICK y \in Nat : y = Len(out[b])  BY <1>2
        <4>2. Len(out'[d]) = y - 1 /\ y <= n  BY <1>1, <2>2, <3>1, <4>1
        <4> QED  BY <4>1, <4>2
      <3>2. CASE d # b  BY <1>1, <2>2, <3>2
      <3> QED  BY <3>1, <3>2
    <2>3. Len(out'["book"]) <= BookWords /\ Len(out'["order_gen"]) <= MessageWords
      BY <1>2, <2>2, StreamNames DEF Calls
    <2>4. got' = got  BY <1>1
    <2> QED  BY <1>2, <2>1, <2>3, <2>4 DEF Calls
  <1>4. PICK c \in Seq(Streams \X Word), g \in Seq(Streams \X Word) :
          /\ SplitAs(out["ta_parser"], c, g)
          /\ Counts(num_updates["ta_parser"], published, ordered,
                    FrameWords, PriceWords(Len(g)), MessagesLeft)
    BY DEF Counted
  <1>5. ASSUME NEW x \in Nat, NEW y \in Nat, NEW z \in Nat
        PROVE  /\ x + (y + 1) + (z - 1) = x + y + z
    OBVIOUS
  <1>6. /\ \A d \in Blocks : Len(got[d]) \in Nat /\ Len(out[d]) \in Nat
        /\ \A t \in Streams : Len(stream[t]) \in Nat
    BY Lengths
  <1>7. CASE b = "book"
    <2>1. s = "frames"  BY <1>1, <1>7, StreamNames DEF Target
    <2>2. /\ got' = got /\ Len(stream'["frames"]) = Len(stream["frames"]) + 1
          /\ Len(out'["book"]) = Len(out["book"]) - 1
      BY <1>1, <1>7, <2>1
    <2>3. FrameWords' = FrameWords
      <3>1. FrameWords' = Len(got["ta_parser"]) + (Len(stream["frames"]) + 1)
                          + (Len(out["book"]) - 1)
        BY <2>2, Zenon DEF FrameWords
      <3>2. FrameWords = Len(got["ta_parser"]) + Len(stream["frames"]) + Len(out["book"])
        BY DEF FrameWords
      <3>3. PICK x \in Nat, y \in Nat, z \in Nat :
              x = Len(got["ta_parser"]) /\ y = Len(stream["frames"]) /\ z = Len(out["book"])
        BY <1>6, StreamNames
      <3>4. x + (y + 1) + (z - 1) = x + y + z  BY <1>5
      <3> QED  BY <3>1, <3>2, <3>3, <3>4, Zenon
    <2>4. /\ MessagesLeft' = MessagesLeft /\ \A n \in Nat : PriceWords(n)' = PriceWords(n)
          /\ out'["ta_parser"] = out["ta_parser"]
      BY <1>1, <1>7, <2>1, StreamNames DEF MessagesLeft, PriceWords
    <2> QED  BY <1>1, <1>3, <2>3, <2>4, CountedKept
  <1>8. CASE b \in {"cov_update", "qr_decomp"}
    <2>1. s \in {"matrix", "weights"}  BY <1>1, <1>8, StreamNames DEF Target
    <2>2. /\ MessagesLeft' = MessagesLeft /\ FrameWords' = FrameWords
          /\ \A n \in Nat : PriceWords(n)' = PriceWords(n)
          /\ out'["ta_parser"] = out["ta_parser"]
      BY <1>1, <1>8, <2>1, StreamNames DEF MessagesLeft, FrameWords, PriceWords
    <2> QED  BY <1>1, <1>3, <2>2, CountedKept
  <1>9. CASE b = "order_gen"
    <2>1. s = "orders"  BY <1>1, <1>9, StreamNames DEF Target
    <2>2. /\ got' = got /\ Len(stream'["orders"]) = Len(stream["orders"]) + 1
          /\ Len(out'["order_gen"]) = Len(out["order_gen"]) - 1
      BY <1>1, <1>9, <2>1
    <2>3. MessagesLeft' = MessagesLeft
      <3>1. MessagesLeft' = Len(got["mb"]) + (Len(stream["orders"]) + 1)
                            + (Len(out["order_gen"]) - 1)
        BY <2>2, Zenon DEF MessagesLeft
      <3>2. MessagesLeft = Len(got["mb"]) + Len(stream["orders"]) + Len(out["order_gen"])
        BY DEF MessagesLeft
      <3>3. PICK x \in Nat, y \in Nat, z \in Nat :
              x = Len(got["mb"]) /\ y = Len(stream["orders"]) /\ z = Len(out["order_gen"])
        BY <1>6, StreamNames
      <3>4. x + (y + 1) + (z - 1) = x + y + z  BY <1>5
      <3> QED  BY <3>1, <3>2, <3>3, <3>4, Zenon
    <2>4. /\ FrameWords' = FrameWords /\ \A n \in Nat : PriceWords(n)' = PriceWords(n)
          /\ out'["ta_parser"] = out["ta_parser"]
      BY <1>1, <1>9, <2>1, StreamNames DEF FrameWords, PriceWords
    <2> QED  BY <1>1, <1>3, <2>3, <2>4, CountedKept
  <1>10. CASE b = "mb"
    <2>1. Target[b] = {}  BY <1>10, StreamNames DEF Target
    <2> QED  BY <1>1, <2>1
  <1>11. CASE b = "ta_parser"
    <2>1. /\ out["ta_parser"] = c \o g /\ Len(g) <= NumStocks
          /\ \A i \in 1 .. Len(c) : c[i][1] = "prices_cov"
          /\ \A i \in 1 .. Len(g) : g[i][1] = "prices_og"
          /\ Len(c) \in Nat /\ Len(g) \in Nat
      BY <1>4 DEF SplitAs
    <2>2. /\ got' = got /\ out'["ta_parser"] = Tail(out["ta_parser"])
          /\ Len(c \o g) >= 1 /\ (c \o g)[1][1] = s
          /\ UNCHANGED <<num_updates, published, ordered>>
      BY <1>1, <1>11, <2>1
    <2>3. FrameWords' = FrameWords /\ MessagesLeft' = MessagesLeft
      <3>1. Target["ta_parser"] = {"prices_cov", "prices_og"}
        BY StreamNames DEF Target
      <3>2. s \in {"prices_cov", "prices_og"}  BY <1>1, <1>11, <3>1
      <3> QED  BY <1>1, <1>11, <3>2, StreamNames DEF FrameWords, MessagesLeft
    <2>4. CASE Len(c) >= 1
      <3>1. /\ Tail(c) \in Seq(Streams \X Word) /\ Len(Tail(c)) = Len(c) - 1
            /\ \A i \in 1 .. Len(Tail(c)) : Tail(c)[i] = c[i + 1]
            /\ (c \o g)[1] = c[1] /\ Tail(c \o g) = Tail(c) \o g
        BY <2>4, TailOfConcat
      <3>2. SplitAs(out'["ta_parser"], Tail(c), g)
        <4>1. ASSUME NEW i \in 1 .. Len(Tail(c)) PROVE Tail(c)[i][1] = "prices_cov"
          <5>1. i + 1 \in 1 .. Len(c)  BY <2>1, <3>1
          <5> QED  BY <2>1, <3>1, <5>1
        <4>2. out'["ta_parser"] = Tail(c) \o g  BY <2>1, <2>2, <3>1
        <4> QED  BY <2>1, <4>1, <4>2 DEF SplitAs
      <3>3. PriceWords(Len(g))' = PriceWords(Len(g))
        <4>1. s = "prices_cov"
          <5>1. 1 \in 1 .. Len(c)  BY <2>1, <2>4
          <5> QED  BY <2>1, <2>2, <3>1, <5>1
        <4>2. stream'["prices_og"] = stream["prices_og"]  BY <1>1, <4>1, StreamNames
        <4> QED  BY <2>2, <4>2 DEF PriceWords
      <3>4. Counts(num_updates'["ta_parser"], published', ordered',
                   FrameWords', PriceWords(Len(g))', MessagesLeft')
        BY <1>4, <2>2, <2>3, <3>3
      <3> QED  BY <1>2, <1>3, <2>2, <3>1, <3>2, <3>4 DEF Counted
    <2>5. CASE Len(c) = 0
      <3>1. c \o g = g
        <4>1. c = <<>>  BY <2>5
        <4> QED  BY <4>1
      <3>2. /\ Len(g) >= 1 /\ Tail(g) \in Seq(Streams \X Word)
            /\ Len(Tail(g)) = Len(g) - 1
            /\ \A i \in 1 .. Len(Tail(g)) : Tail(g)[i] = g[i + 1]
        BY <2>1, <2>2, <3>1
      <3>3. SplitAs(out'["ta_parser"], c, Tail(g))
        <4>1. ASSUME NEW i \in 1 .. Len(Tail(g)) PROVE Tail(g)[i][1] = "prices_og"
          <5>1. i + 1 \in 1 .. Len(g)  BY <2>1, <3>2
          <5> QED  BY <2>1, <3>2, <5>1
        <4>2. out'["ta_parser"] = c \o Tail(g)
          <5>1. c = <<>>  BY <2>5
          <5>2. c \o Tail(g) = Tail(g)  BY <3>2, <5>1
          <5> QED  BY <2>1, <2>2, <3>1, <5>2
        <4>3. Len(Tail(g)) <= NumStocks  BY <2>1, <3>2, CounterFacts
        <4> QED  BY <2>1, <4>1, <4>2, <4>3 DEF SplitAs
      <3>4. PriceWords(Len(Tail(g)))' = PriceWords(Len(g))
        <4>1. s = "prices_og"
          <5>1. 1 \in 1 .. Len(g)  BY <2>1, <3>2
          <5> QED  BY <2>1, <2>2, <3>1, <5>1
        <4>2. Len(stream'["prices_og"]) = Len(stream["prices_og"]) + 1  BY <1>1, <4>1
        <4>3. PICK l \in Nat, y \in Nat, z \in Nat :
                /\ l = PricesTaken(Len(got["order_gen"])) /\ y = Len(stream["prices_og"])
                /\ z = Len(g)
          BY <1>6, <2>1, StreamNames, CounterFacts DEF PricesTaken
        <4>4. PriceWords(Len(g)) = l + y + z  BY <4>3, Zenon DEF PriceWords
        <4>5. PriceWords(Len(Tail(g)))' = l + (y + 1) + (z - 1)
          BY <2>2, <3>2, <4>2, <4>3, Zenon DEF PriceWords
        <4> QED  BY <1>5, <4>4, <4>5
      <3>5. Counts(num_updates'["ta_parser"], published', ordered',
                   FrameWords', PriceWords(Len(Tail(g)))', MessagesLeft')
        BY <1>4, <2>2, <2>3, <3>4
      <3> QED  BY <1>2, <1>3, <2>2, <3>2, <3>3, <3>5 DEF Counted
    <2> QED  BY <2>1, <2>4, <2>5
  <1> QED  BY <1>7, <1>8, <1>9, <1>10, <1>11, StreamNames

LEMMA CountedAtFirst == Init => Counted
  <1> SUFFICES ASSUME Init PROVE Counted
    OBVIOUS
  <1>1. PICK z : z = <<>>  OBVIOUS
  <1>2. z \in Seq(Streams \X Word) /\ Len(z) = 0 /\ z \o z = z  BY <1>1
  <1>3. /\ \A s \in Streams : stream[s] = z
        /\ \A b \in Blocks : got[b] = z /\ out[b] = z
        /\ num_updates["ta_parser"] = 0 /\ published = 0 /\ ordered = 0
    BY <1>1 DEF Init
  <1>4. ordered \in Frame /\ 0 \in Frame  BY <1>3, FrameFacts
  <1>5. Calls
    <2>1. \A b \in Blocks : Len(got[b]) = 0 /\ Len(out[b]) = 0  BY <1>2, <1>3
    <2>2. /\ 0 < BookWords /\ 0 <= BookWords /\ 0 < 2 * NumStocks /\ 0 <= MessageWords
          /\ 0 < MessageWords
      BY CounterFacts
    <2> QED  BY <2>1, <2>2, StreamNames DEF Calls
  <1>6. SplitAs(out["ta_parser"], z, z)
    <2>1. out["ta_parser"] = z  BY <1>3, StreamNames
    <2>2. Len(z) <= NumStocks  BY <1>2, CounterFacts
    <2> QED  BY <1>2, <2>1, <2>2 DEF SplitAs
  <1>7. FrameWords = 0 /\ PriceWords(Len(z)) = 0 /\ MessagesLeft = 0
    <2>1. PricesTaken(0) = 0  BY CounterFacts DEF PricesTaken
    <2>2. /\ Len(got["ta_parser"]) = 0 /\ Len(stream["frames"]) = 0 /\ Len(out["book"]) = 0
          /\ Len(got["order_gen"]) = 0 /\ Len(stream["prices_og"]) = 0
          /\ Len(got["mb"]) = 0 /\ Len(stream["orders"]) = 0 /\ Len(out["order_gen"]) = 0
      BY <1>2, <1>3, StreamNames
    <2> QED  BY <1>2, <2>1, <2>2 DEF FrameWords, PriceWords, MessagesLeft
  <1>8. Counts(0, 0, 0, 0, 0, 0)
    <2>1. 0 * BookWords = 0 /\ 0 * NumStocks = 0 /\ 0 * MessageWords = 0 /\ 0 + 0 = 0
      BY CounterFacts
    <2>2. 0 % CounterSize = 0  BY CounterFacts, ModOfSmall
    <2>3. PICK f \in Frame : f = 0  BY <1>4
    <2>4. Skip(0) = 1 /\ NonZero(0) = 1
      <3>1. Skip(f) = IF f = CounterSize - 1 THEN 1 ELSE f + 1  BY CounterFacts
      <3>2. Skip(f) = 1  BY <2>3, <3>1, CounterFacts
      <3> QED  BY <2>3, <3>2 DEF NonZero
    <2>5. Ahead(1, 0) = 1
      <3>1. 1 \in Frame \ {0}  BY FrameFacts
      <3> QED  BY <3>1, AheadFacts
    <2>6. CountedAs(0, 0, 0, 0, 0, 0, 0, 0, 0)
      BY <2>1, <2>2, <2>4, <2>5 DEF CountedAs
    <2> QED  BY <2>6 DEF Counts
  <1> QED  BY <1>2, <1>3, <1>4, <1>5, <1>6, <1>7, <1>8 DEF Counted

LEMMA CountedStep ==
  ASSUME TypeOK, Ports, Aligned, Counted, Next
  PROVE  Counted'
  <1>1. \A i \in 1 .. Len(stream["weights"]) : stream["weights"][i].valid
    BY DEF Aligned, AllValid
  <1> QED
    BY <1>1, PublishCounted, ParserCounted, BetweenCounted, ComputeCounted, ProgramCounted,
       WriteCounted DEF Next

\* While every weight is valid, the counts hold at every step.
LEMMA CountedInvariance ==
  Spec => [](TypeOK /\ Ports /\ (faults = 0 => Aligned /\ Counted))
  <1> DEFINE A == TypeOK /\ Ports /\ (faults = 0 => Aligned)
             B == A /\ (faults = 0 => Counted)
  <1>1. Init => B  BY InitTypes, AlignedAtFirst, CountedAtFirst
  <1>2. A /\ A' /\ B /\ [Next]_vars => B'
    <2> SUFFICES ASSUME A, A', B, [Next]_vars, faults' = 0 PROVE Counted'
      OBVIOUS
    <2>1. CASE UNCHANGED vars
      BY <2>1 DEF vars, Counted, Calls, FrameWords, PriceWords, MessagesLeft
    <2>2. CASE Next
      <3>1. faults = 0
        <4>1. faults \in Nat  BY DEF TypeOK
        <4>2. faults' = faults \/ faults' = faults + 1
          BY <2>2, WriteFacts DEF Next, publish, ta_parser, cov_update, qr_decomp, order_gen,
                                  mb, ReadOn, Write
        <4> QED  BY <4>1, <4>2
      <3> QED  BY <2>2, <3>1, CountedStep
    <2> QED  BY <2>1, <2>2
  <1>3. Spec => []A  BY AlignedInvariance
  <1>4. Spec => []B  BY <1>1, <1>2, <1>3, PTL DEF Spec
  <1>5. B => TypeOK /\ Ports /\ (faults = 0 => Aligned /\ Counted)  OBVIOUS
  <1> QED  BY <1>4, <1>5, PTL

\* How many frames are on the way.
Near == (published - ordered) % CounterSize <= Window

\* With them, published is never more than Window ahead of ordered, and when the program
\* writes a message its frame was published.
LEMMA OnTheWay ==
  ASSUME TypeOK, Counted
  PROVE  /\ Near
         /\ MessagesLeft >= MessageWords =>
              (Skip(ordered) - ordered) % CounterSize < (published - ordered) % CounterSize
  <1>1. PICK c \in Seq(Streams \X Word), g \in Seq(Streams \X Word) :
          /\ SplitAs(out["ta_parser"], c, g)
          /\ Counts(num_updates["ta_parser"], published, ordered,
                    FrameWords, PriceWords(Len(g)), MessagesLeft)
    BY DEF Counted
  <1>2. PICK f \in Nat, p \in Nat, o \in Nat :
          CountedAs(num_updates["ta_parser"], published, ordered,
                    FrameWords, PriceWords(Len(g)), MessagesLeft, f, p, o)
    BY <1>1 DEF Counts
  <1>3. PICK gt \in Nat, sf \in Nat, ob \in Nat, l \in Nat, sp \in Nat, lg \in Nat,
             gm \in Nat, so \in Nat, oo \in Nat :
          /\ gt = Len(got["ta_parser"]) /\ sf = Len(stream["frames"]) /\ ob = Len(out["book"])
          /\ l = Len(got["order_gen"]) /\ sp = Len(stream["prices_og"]) /\ lg = Len(g)
          /\ gm = Len(got["mb"]) /\ so = Len(stream["orders"]) /\ oo = Len(out["order_gen"])
    <2>1. /\ Len(got["ta_parser"]) \in Nat /\ Len(stream["frames"]) \in Nat
          /\ Len(out["book"]) \in Nat /\ Len(got["order_gen"]) \in Nat
          /\ Len(stream["prices_og"]) \in Nat /\ Len(g) \in Nat /\ Len(got["mb"]) \in Nat
          /\ Len(stream["orders"]) \in Nat /\ Len(out["order_gen"]) \in Nat
      BY Lengths, StreamNames
    <2> QED  BY <2>1
  <1>4. sf <= StreamDepth /\ sp <= StreamDepth /\ so <= StreamDepth
    BY <1>3, Lengths, StreamNames
  <1>5. PICK go \in Nat : go = PricesTaken(l) /\ go <= NumStocks /\ (l = 0 => go = 0)
    BY CounterFacts DEF PricesTaken
  <1>6. /\ f * BookWords = gt + sf + ob /\ p * NumStocks = go + sp + lg
        /\ o * MessageWords = gm + so + oo
    <2>1. FrameWords = gt + sf + ob  BY <1>3, Zenon DEF FrameWords
    <2>2. PriceWords(lg) = go + sp + lg  BY <1>3, <1>5, Zenon DEF PriceWords
    <2>3. MessagesLeft = gm + so + oo  BY <1>3, Zenon DEF MessagesLeft
    <2> QED  BY <1>2, <1>3, <2>1, <2>2, <2>3 DEF CountedAs
  <1>7. Calls  BY DEF Counted
  <1>8. gt < BookWords /\ ob <= BookWords /\ gm < MessageWords /\ oo <= MessageWords
    BY <1>3, <1>7 DEF Calls
  <1>9. lg <= NumStocks  BY <1>1, <1>3 DEF SplitAs
  <1>10. go = 0 \/ oo = 0
    <2>1. l = 0 \/ oo = 0  BY <1>3, <1>7, StreamNames DEF Calls
    <2> QED  BY <1>5, <2>1
  <1>11. gt = 0 \/ lg = 0
    <2>1. gt = 0 \/ Len(out["ta_parser"]) = 0  BY <1>3, <1>7, StreamNames DEF Calls
    <2>2. ASSUME Len(out["ta_parser"]) = 0 PROVE lg = 0
      <3>1. Len(c \o g) = 0 /\ Len(c \o g) = Len(c) + Len(g)
            /\ Len(c) \in Nat /\ Len(g) \in Nat
        BY <1>1, <2>2 DEF SplitAs
      <3> QED  BY <1>3, <3>1
    <2> QED  BY <2>1, <2>2
  <1>12. f + p + o + 2 <= Window
    <2>1. go \in Nat /\ go <= NumStocks  BY <1>5
    <2>2. Holds(f, p, o, gt, sf, ob, go, sp, lg, gm, so, oo)
      BY <1>4, <1>6, <1>8, <1>9, <1>10, <1>11, <2>1 DEF Holds
    <2> QED  BY <2>2, CountBound
  <1>13. Window < CounterSize /\ Window \in Nat /\ CounterSize \in Nat
    BY SizeAssumption
  <1>14. /\ num_updates["ta_parser"] \in Frame /\ published \in Frame /\ ordered \in Frame
    BY Lengths DEF Counted
  <1>15. f + p + o + 2 < CounterSize  BY <1>12, <1>13
  <1>16. /\ (published - ordered) % CounterSize <= f + p + o + 2
         /\ o >= 1 => (Skip(ordered) - ordered) % CounterSize
                        < (published - ordered) % CounterSize
    BY <1>2, <1>14, <1>15, CountDistance
  <1>17. MessagesLeft >= MessageWords => o >= 1
    <2>1. MessagesLeft = o * MessageWords  BY <1>2 DEF CountedAs
    <2> QED  BY <2>1, MoreTimes, CounterFacts
  <1>18. (published - ordered) % CounterSize <= Window
    <2>1. published \in 0 .. CounterSize - 1 /\ ordered \in 0 .. CounterSize - 1
      BY <1>14 DEF Frame
    <2>2. (published - ordered) % CounterSize \in Int
      BY <2>1, CounterFacts, DifferenceMod
    <2>3. PICK x \in Int : x = (published - ordered) % CounterSize  BY <2>2
    <2> QED  BY <1>12, <1>13, <1>16, <2>3
  <1> QED  BY <1>16, <1>17, <1>18 DEF Near

LEMMA PromiseDefs ==
  /\ \A a, b : Promise!Distance(a, b) = (b - a) % CounterSize
  /\ \A f : Promise!Following(f) = Following(f)
  /\ Promise!Due = Skip(ordered)
  <1>1. \A f : Promise!Following(f) = Following(f)
    BY DEF Promise!Following, Following
  <1>2. Promise!Due = Skip(ordered)  BY <1>1 DEF Promise!Due, Skip, NonZero
  <1>3. \A a, b : Promise!Distance(a, b) = (b - a) % CounterSize
    BY DEF Promise!Distance
  <1> QED  BY <1>1, <1>2, <1>3

\* One more frame is on the way, and there was room for it.
LEMMA PublishRefines ==
  ASSUME TypeOK, Counted, Near, Near', publish, faults = 0
  PROVE  Promise!Publish /\ ~ (faults > 0)
  <1>1. published' = Following(published) /\ ordered' = ordered /\ faults' = faults
    BY DEF publish
  <1>2. PICK C \in Nat \ {0} : C = CounterSize /\ C >= 3 /\ Window \in Nat /\ Window <= C - 2
    BY CounterFacts, SizeAssumption
  <1>3. published \in Frame /\ ordered \in Frame  BY DEF TypeOK, Counted
  <1>4. Frame = 0 .. C - 1  BY <1>2 DEF Frame
  <1>5. Following(published) = IF published = C - 1 THEN 0 ELSE published + 1
    BY <1>2, <1>3, CounterFacts
  <1>6. (published - ordered) % C <= Window /\ (Following(published) - ordered) % C <= Window
    BY <1>1, <1>2 DEF Near
  <1>7. (published - ordered) % C = IF published >= ordered THEN published - ordered
                                    ELSE published - ordered + C
    BY <1>3, <1>4, DifferenceMod
  <1>8. PICK n \in 0 .. C - 1 : n = Following(published)  BY <1>3, <1>4, <1>5
  <1>9. (n - ordered) % C = IF n >= ordered THEN n - ordered ELSE n - ordered + C
    BY <1>3, <1>4, DifferenceMod
  <1>10. (published - ordered) % C < Window
    BY <1>2, <1>3, <1>4, <1>5, <1>6, <1>7, <1>8, <1>9
  <1>11. Promise!Distance(ordered, published) < Window  BY <1>2, <1>10, PromiseDefs
  <1> QED  BY <1>1, <1>11, PromiseDefs DEF Promise!Publish

\* Every step of the pipeline is one that OrderPerFrame allows, or changes nothing of it.
LEMMA PromiseStep ==
  ASSUME TypeOK, Ports, faults = 0 => Aligned /\ Counted,
         TypeOK', faults = 0 => Near, faults' = 0 => Near', [Next]_vars
  PROVE  [Promise!Next]_<<published, ordered, faults > 0>>
  <1>1. faults \in Nat /\ faults' \in Nat  BY DEF TypeOK
  <1>2. CASE UNCHANGED vars  BY <1>2 DEF vars
  <1>3. ASSUME Next PROVE /\ faults' = faults \/ faults' = faults + 1
                          /\ faults' # faults => UNCHANGED <<published, ordered>>
    <2>1. CASE qr_decomp  BY <2>1 DEF qr_decomp, ReadOn
    <2>2. CASE ~ qr_decomp
      BY <1>3, <2>2, WriteFacts DEF Next, publish, ta_parser, cov_update, order_gen, mb,
                                    ReadOn, Write
    <2> QED  BY <2>1, <2>2
  <1>4. CASE Next /\ faults > 0
    <2>1. faults' > 0  BY <1>1, <1>3, <1>4
    <2> QED  BY <1>4, <2>1 DEF Promise!Next
  <1>5. CASE Next /\ faults = 0 /\ faults' # 0
    <2>1. faults' > 0 /\ ~ (faults > 0) /\ UNCHANGED <<published, ordered>>
      BY <1>1, <1>3, <1>5
    <2> QED  BY <2>1 DEF Promise!Next, Promise!GiveUp
  <1>6. CASE Next /\ faults = 0 /\ faults' = 0
    <2>1. Aligned /\ Counted /\ Near /\ Near'  BY <1>6
    <2>2. CASE publish  BY <1>6, <2>1, <2>2, PublishRefines DEF Promise!Next
    <2>3. CASE mb
      <3>1. /\ UNCHANGED <<published, faults>>
            /\ ordered' # ordered => ordered' = Skip(ordered) /\ MessagesLeft >= MessageWords
        BY <2>1, <2>3, ProgramCounted
      <3>2. CASE ordered' = ordered  BY <3>1, <3>2
      <3>3. CASE ordered' # ordered
        <4>1. (Skip(ordered) - ordered) % CounterSize < (published - ordered) % CounterSize
          BY <2>1, <3>1, <3>3, OnTheWay
        <4>2. Promise!Order  BY <3>1, <3>3, <4>1, PromiseDefs DEF Promise!Order
        <4> QED  BY <1>6, <4>2 DEF Promise!Next
      <3> QED  BY <3>2, <3>3
    <2>4. CASE ~ publish /\ ~ mb
      <3>1. UNCHANGED <<published, ordered, faults>>
        BY <1>6, <2>4, WriteFacts DEF Next, ta_parser, cov_update, qr_decomp, order_gen,
                                      ReadOn, Write
      <3> QED  BY <3>1
    <2> QED  BY <2>2, <2>3, <2>4
  <1> QED  BY <1>1, <1>2, <1>4, <1>5, <1>6

\* As long as every weight has been valid, a frame of the book that the counters do not
\* number 0 becomes one message, in the order of publication, and no more than Window
\* frames are on the way: the blocks and the program do what OrderPerFrame allows, for
\* any sizes, depth of the streams and width of the counters.  That they do it at all is
\* left to the fair specification.
THEOREM PipelineKeepsOrder == Spec => Promise!Safety
  <1> DEFINE A == TypeOK /\ Ports /\ (faults = 0 => Aligned /\ Counted)
             B == A /\ (faults = 0 => Near)
  <1>1. Init => Promise!Init  BY DEF Init, Promise!Init
  <1>2. A => B  BY OnTheWay
  <1>3. B /\ B' /\ [Next]_vars => [Promise!Next]_<<published, ordered, faults > 0>>
    BY PromiseStep
  <1>4. Spec => []A  BY CountedInvariance
  <1> QED  BY <1>1, <1>2, <1>3, <1>4, PTL DEF Spec, Promise!Safety

=============================================================================
