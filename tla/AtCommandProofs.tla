-------------------------- MODULE AtCommandProofs --------------------------
(***************************************************************************)
(* Proofs about AtCommand, for any number of commands and pieces.  What    *)
(* the current command may yet interpret is Unread: what it has read, and  *)
(* what waits at the port.  The lines in it, the answer the modem has      *)
(* begun and the answers it owes are in the order of the commands, and     *)
(* younger than the answer taken last (InOrder): nothing in the text ties  *)
(* an answer to its command, but the line and the modem keep their order.  *)
(***************************************************************************)
EXTENDS AtCommand, TLAPS

Ends(text) == {i \in DOMAIN text : text[i].text = "EOL"}

InOrder(text, s, o, t, n) ==
  /\ \A i \in DOMAIN text : text[i].of <= n
  /\ \A i \in Ends(text) :
       /\ t < text[i].of
       /\ s # 0 => text[i].of < s
       /\ \A k \in DOMAIN o : text[i].of < o[k]
  /\ \A i, j \in Ends(text) : i < j => text[i].of < text[j].of
  /\ s # 0 => t < s
  /\ \A k \in DOMAIN o : s < o[k] /\ t < o[k] /\ o[k] <= n
  /\ \A j, k \in DOMAIN o : j < k => o[j] < o[k]

Unread == IF pc = "idle" THEN uart ELSE txRxBuffer[spec] \o uart

OrderInv == InOrder(Unread, saying, owed, taken, number)

IInv == TypeOK /\ OrderInv

------------------------------------------------------------------------------
(* What becomes of the order when the modem speaks, a command is sent and an *)
(* answer is taken.                                                          *)

LEMMA PieceOf ==
  ASSUME NEW text \in Seq(Piece)
  PROVE  \A i \in DOMAIN text : i \in 1..Len(text) /\ text[i].of \in Nat
<1> SUFFICES ASSUME NEW i \in DOMAIN text
             PROVE  i \in 1..Len(text) /\ text[i].of \in Nat
  OBVIOUS
<1>1. i \in 1..Len(text) /\ text[i] \in Piece
  OBVIOUS
<1>2. text[i].of \in 0..MaxCommands
  BY <1>1 DEF Piece
<1> QED
  BY <1>1, <1>2, AtAssumption

LEMMA LinesAppended ==
  ASSUME NEW text \in Seq(Piece), NEW p \in Piece
  PROVE  /\ Append(text, p) \in Seq(Piece)
         /\ DOMAIN Append(text, p) = 1..Len(text) + 1
         /\ \A i \in 1..Len(text) : Append(text, p)[i] = text[i]
         /\ Append(text, p)[Len(text) + 1] = p
  OBVIOUS

LEMMA HeadOwed ==
  ASSUME NEW o \in Seq(1..MaxCommands), o # <<>>
  PROVE  /\ Head(o) = o[1] /\ 1 \in DOMAIN o /\ Head(o) \in 1..MaxCommands
         /\ Tail(o) \in Seq(1..MaxCommands) /\ Len(Tail(o)) <= Len(o) /\ Len(Tail(o)) \in Nat
<1>1. Head(o) = o[1] /\ 1 \in DOMAIN o
  OBVIOUS
<1>2. o[1] \in 1..MaxCommands
  <2>1. PICK C : C = 1..MaxCommands
    OBVIOUS
  <2>2. o \in Seq(C)
    BY <2>1
  <2>3. o[1] \in C
    BY <1>1, <2>2
  <2> QED
    BY <2>1, <2>3
<1>3. Tail(o) \in Seq(1..MaxCommands) /\ Len(Tail(o)) = Len(o) - 1
  OBVIOUS
<1> QED
  BY <1>1, <1>2, <1>3

LEMMA AnswerBegins ==
  ASSUME NEW text \in Seq(Piece), NEW o \in Seq(1..MaxCommands), NEW t \in Nat, NEW n \in Nat,
         NEW code \in ReturnCode, o # <<>>, InOrder(text, 0, o, t, n),
         NEW p \in Piece, p = [of |-> Head(o), text |-> code]
  PROVE  InOrder(Append(text, p), Head(o), Tail(o), t, n)
<1>1. /\ Head(o) = o[1] /\ 1 \in DOMAIN o /\ o[1] \in Nat
      /\ \A k \in DOMAIN Tail(o) : k + 1 \in DOMAIN o /\ Tail(o)[k] = o[k + 1]
      /\ DOMAIN Tail(o) \subseteq Nat \ {0}
  BY AtAssumption
<1>2. p.of = o[1] /\ p.text # "EOL"  BY <1>1 DEF ReturnCode
<1>3. Ends(Append(text, p)) = Ends(text)  BY <1>2, LinesAppended DEF Ends
<1>4. \A i \in DOMAIN Append(text, p) : Append(text, p)[i].of <= n
  BY <1>1, <1>2, LinesAppended DEF InOrder
<1>5. \A i \in Ends(text) : Append(text, p)[i] = text[i] /\ text[i].of \in Nat
  BY PieceOf, LinesAppended DEF Ends
<1>6. \A i \in Ends(text) : t < text[i].of /\ text[i].of < o[1]
                            /\ \A k \in DOMAIN Tail(o) : text[i].of < Tail(o)[k]
  BY <1>1 DEF InOrder
<1>7. \A k \in DOMAIN Tail(o) : o[1] < Tail(o)[k] /\ t < Tail(o)[k] /\ Tail(o)[k] <= n
  BY <1>1 DEF InOrder
<1>8. \A j, k \in DOMAIN Tail(o) : j < k => Tail(o)[j] < Tail(o)[k]
  BY <1>1 DEF InOrder
<1>9. t < o[1] /\ \A i, j \in Ends(text) : i < j => text[i].of < text[j].of
  BY <1>1 DEF InOrder
<1> QED  BY <1>1, <1>3, <1>4, <1>5, <1>6, <1>7, <1>8, <1>9 DEF InOrder

LEMMA AnswerEnds ==
  ASSUME NEW text \in Seq(Piece), NEW o \in Seq(1..MaxCommands), NEW t \in Nat, NEW n \in Nat,
         NEW s \in 1..n, InOrder(text, s, o, t, n),
         NEW p \in Piece, p = [of |-> s, text |-> "EOL"]
  PROVE  InOrder(Append(text, p), 0, o, t, n)
<1>1. p.of = s /\ p.text = "EOL"  OBVIOUS
<1>2. Ends(Append(text, p)) = Ends(text) \union {Len(text) + 1}
  BY <1>1, LinesAppended DEF Ends
<1>3. \A i \in Ends(text) : /\ i \in 1..Len(text) /\ Append(text, p)[i] = text[i]
                            /\ text[i].of \in Nat
  BY PieceOf, LinesAppended DEF Ends
<1>4. \A i \in DOMAIN Append(text, p) : Append(text, p)[i].of <= n
  BY <1>1, LinesAppended DEF InOrder
<1>5. t < s /\ \A i \in Ends(text) : t < text[i].of /\ text[i].of < s
  BY DEF InOrder
<1>6. \A k \in DOMAIN o : /\ s < o[k] /\ t < o[k] /\ o[k] <= n /\ 0 < o[k]
                          /\ \A i \in Ends(text) : text[i].of < o[k]
  BY AtAssumption DEF InOrder
<1>7. \A i, j \in Ends(Append(text, p)) : i < j => Append(text, p)[i].of < Append(text, p)[j].of
  BY <1>1, <1>2, <1>3, <1>5, LinesAppended DEF InOrder
<1>8. \A i \in Ends(Append(text, p)) : /\ t < Append(text, p)[i].of
                                       /\ \A k \in DOMAIN o : Append(text, p)[i].of < o[k]
  BY <1>1, <1>2, <1>3, <1>5, <1>6, LinesAppended
<1>9. \A j, k \in DOMAIN o : j < k => o[j] < o[k]  BY DEF InOrder
<1> QED  BY <1>4, <1>6, <1>7, <1>8, <1>9 DEF InOrder

LEMMA NoiseAdded ==
  ASSUME NEW text \in Seq(Piece), NEW o \in Seq(1..MaxCommands), NEW t \in Nat, NEW n \in Nat,
         InOrder(text, 0, o, t, n), NEW p \in Piece, p = [of |-> 0, text |-> "NOISE"]
  PROVE  InOrder(Append(text, p), 0, o, t, n)
<1>1. p.of = 0 /\ p.text # "EOL"  OBVIOUS
<1>2. Ends(Append(text, p)) = Ends(text)  BY <1>1, LinesAppended DEF Ends
<1>3. \A i \in Ends(text) : Append(text, p)[i] = text[i]
  BY LinesAppended DEF Ends
<1>4. \A i \in DOMAIN Append(text, p) : Append(text, p)[i].of <= n
  BY <1>1, LinesAppended DEF InOrder
<1> QED  BY <1>2, <1>3, <1>4 DEF InOrder

LEMMA ModemReset ==
  ASSUME NEW text, NEW s, NEW o, NEW t, NEW n, InOrder(text, s, o, t, n)
  PROVE  InOrder(text, 0, <<>>, t, n)
  BY DEF InOrder

\* A command is younger than all there is, whether it reaches the modem or not.
LEMMA CommandIsYoungest ==
  ASSUME NEW text \in Seq(Piece), NEW o \in Seq(1..MaxCommands), NEW n \in Nat,
         NEW s \in 0..n, NEW t \in 0..n, n + 1 <= MaxCommands, InOrder(text, s, o, t, n)
  PROVE  /\ InOrder(text, s, o, t, n + 1)
         /\ InOrder(text, s, Append(o, n + 1), t, n + 1)
<1>1. \A i \in DOMAIN text : text[i].of \in Nat /\ text[i].of <= n
  BY PieceOf DEF InOrder
<1>2. \A i \in Ends(text) : i \in DOMAIN text  BY DEF Ends
<1>3. \A k \in DOMAIN o : o[k] \in Nat /\ o[k] <= n  BY AtAssumption DEF InOrder
<1>4. /\ DOMAIN Append(o, n + 1) = 1..Len(o) + 1
      /\ \A k \in DOMAIN o : Append(o, n + 1)[k] = o[k]
      /\ Append(o, n + 1)[Len(o) + 1] = n + 1
      /\ DOMAIN o = 1..Len(o)
  OBVIOUS
<1>5. InOrder(text, s, o, t, n + 1)  BY <1>1, <1>2, <1>3 DEF InOrder
<1>6. \A i \in Ends(text) : \A k \in DOMAIN Append(o, n + 1) : text[i].of < Append(o, n + 1)[k]
  BY <1>1, <1>2, <1>4 DEF InOrder
<1>7. \A k \in DOMAIN Append(o, n + 1) :
        s < Append(o, n + 1)[k] /\ t < Append(o, n + 1)[k] /\ Append(o, n + 1)[k] <= n + 1
  BY <1>4, <1>5 DEF InOrder
<1>8. \A j, k \in DOMAIN Append(o, n + 1) : j < k => Append(o, n + 1)[j] < Append(o, n + 1)[k]
  BY <1>3, <1>4, <1>5 DEF InOrder
<1> QED  BY <1>5, <1>6, <1>7, <1>8 DEF InOrder

LEMMA Concatenated ==
  ASSUME NEW b \in Seq(Piece), NEW u \in Seq(Piece)
  PROVE  /\ b \o u \in Seq(Piece)
         /\ DOMAIN (b \o u) = 1..Len(b) + Len(u)
         /\ \A i \in DOMAIN b : i \in 1..Len(b) /\ (b \o u)[i] = b[i]
         /\ \A i \in DOMAIN u : i \in 1..Len(u) /\ (b \o u)[Len(b) + i] = u[i]
  OBVIOUS

\* What a command leaves unread is younger than the answer it takes.
LEMMA AnswerIsTaken ==
  ASSUME NEW b \in Seq(Piece), NEW u \in Seq(Piece), NEW o \in Seq(1..MaxCommands),
         NEW n \in Nat, NEW s \in 0..n, NEW t \in 0..n, InOrder(b \o u, s, o, t, n)
  PROVE  /\ InOrder(u, s, o, t, n)
         /\ \A i \in Ends(b) : i = Len(b) =>
              t < b[i].of /\ b[i].of <= n /\ InOrder(u, s, o, b[i].of, n)
<1> DEFINE text == b \o u
<1>1. \A i \in DOMAIN u : Len(b) + i \in DOMAIN text /\ text[Len(b) + i] = u[i] /\ i \in Nat
  BY Concatenated
<1>2. \A i \in Ends(u) : Len(b) + i \in Ends(text)  BY <1>1 DEF Ends
<1>3. \A i \in Ends(b) : i \in Ends(text) /\ text[i] = b[i] /\ i \in 1..Len(b)
                         /\ i \in DOMAIN text
  BY Concatenated DEF Ends
<1>4. Len(b) \in Nat /\ Ends(u) \subseteq DOMAIN u  BY DEF Ends
<1> HIDE DEF text
<1>5. InOrder(text, s, o, t, n)  BY DEF text
<1>6. \A i \in DOMAIN u : u[i].of <= n  BY <1>1, <1>5 DEF InOrder
<1>7. \A i \in Ends(u) : /\ t < u[i].of
                         /\ s # 0 => u[i].of < s
                         /\ \A k \in DOMAIN o : u[i].of < o[k]
  BY <1>1, <1>2, <1>4, <1>5 DEF InOrder
<1>8. \A i, j \in Ends(u) : i < j => u[i].of < u[j].of
  <2> SUFFICES ASSUME NEW i \in Ends(u), NEW j \in Ends(u), i < j PROVE u[i].of < u[j].of
    OBVIOUS
  <2>1. Len(b) + i < Len(b) + j  BY <1>1, <1>4
  <2> QED  BY <1>1, <1>2, <1>4, <1>5, <2>1 DEF InOrder
<1>9. InOrder(u, s, o, t, n)  BY <1>5, <1>6, <1>7, <1>8 DEF InOrder
<1>10. ASSUME NEW i \in Ends(b), i = Len(b)
       PROVE  t < b[i].of /\ b[i].of <= n /\ InOrder(u, s, o, b[i].of, n)
  <2>1. t < b[i].of /\ b[i].of <= n /\ (s # 0 => b[i].of < s) /\ \A k \in DOMAIN o : b[i].of < o[k]
    BY <1>3, <1>5 DEF InOrder
  <2>2. \A j \in Ends(u) : b[i].of < u[j].of
    <3> SUFFICES ASSUME NEW j \in Ends(u) PROVE b[i].of < u[j].of
      OBVIOUS
    <3>1. i < Len(b) + j  BY <1>1, <1>4, <1>10, Concatenated
    <3> QED  BY <1>1, <1>2, <1>3, <1>4, <1>5, <3>1 DEF InOrder
  <2> QED  BY <1>9, <2>1, <2>2 DEF InOrder
<1> QED  BY <1>9, <1>10

------------------------------------------------------------------------------
(* One lemma per part of the invariant. *)

LEMMA InitIInv == Init => IInv
<1> SUFFICES ASSUME Init PROVE IInv
  OBVIOUS
<1>1. TypeOK
  BY AtAssumption DEF Init, TypeOK, Result, ReturnCode
<1>2. OrderInv
  BY DEF Init, OrderInv, Unread, InOrder, Ends
<1> QED
  BY <1>1, <1>2 DEF IInv

\* What the interpreter returns: the last line's answer, if the buffer ends with one.
LEMMA Interpreted ==
  ASSUME NEW b \in Seq(Piece)
  PROVE  /\ Interpret(b) \in [isCorrect : BOOLEAN, code : ReturnCode, of : 0..MaxCommands]
         /\ Interpret(b).isCorrect =>
              Len(b) \in Ends(b) /\ Interpret(b).of = b[Len(b)].of
<1>1. CASE EndsAnswer(b, Len(b))
  <2>1. /\ Len(b) \in DOMAIN b /\ Len(b) - 1 \in DOMAIN b /\ b[Len(b)].text = "EOL"
        /\ b[Len(b)] \in Piece /\ b[Len(b) - 1].text \in ReturnCode
    BY <1>1 DEF EndsAnswer
  <2>2. Interpret(b) = [isCorrect |-> TRUE, code |-> b[Len(b) - 1].text, of |-> b[Len(b)].of]
    BY <1>1 DEF Interpret
  <2>3. b[Len(b)].of \in 0..MaxCommands /\ Len(b) \in Ends(b)
    BY <2>1 DEF Piece, Ends
  <2> QED
    BY <2>1, <2>2, <2>3
<1>2. CASE ~EndsAnswer(b, Len(b))
  <2>1. Interpret(b) = [isCorrect |-> FALSE, code |-> "ERROR", of |-> 0]
    BY <1>2 DEF Interpret
  <2>2. "ERROR" \in ReturnCode /\ 0 \in 0..MaxCommands
    BY AtAssumption DEF ReturnCode
  <2> QED
    BY <2>1, <2>2
<1> QED
  BY <1>1, <1>2

\* A query sends AT as a command to be executed.
LEMMA StepSends ==
  ASSUME CommandSent \/ QueryStarts
  PROVE  \E s \in {"At", "Cops"}, rendered \in {"rendered", "refused", "empty"} : SendAt(s, rendered)
<1>1. CASE CommandSent
  BY <1>1 DEF CommandSent, RenderAt, RenderCops, PrepareWriteCommand
<1>2. CASE QueryStarts
  BY <1>2 DEF QueryStarts, RenderAt
<1> QED
  BY <1>1, <1>2

\* Each way a command can go.
LEMMA SendStep ==
  ASSUME TypeOK, NEW s \in {"At", "Cops"}, NEW rendered, SendAt(s, rendered)
  PROVE  /\ pc = "idle" /\ number' = number + 1 /\ number + 1 <= MaxCommands
         /\ spec' = s /\ result' \in Result /\ pc' \in {"idle", "reading"}
         /\ txRxBuffer' \in [{"At", "Cops"} -> Seq(Piece)]
         /\ pc' = "reading" => txRxBuffer'[spec'] = <<>>
         /\ owed' \in {owed, Append(owed, number + 1)}
         /\ UNCHANGED <<response, taken, uart, saying>>
<1> USE DEF SendAt, TypeOK, Result, ClearedBuffer
<1>1. number \in Nat /\ pc = "idle" /\ number' = number + 1 /\ number + 1 <= MaxCommands
      /\ spec' = s /\ UNCHANGED <<response, taken, uart, saying>>
  BY AtAssumption
<1>2. <<>> \in Seq(Piece)
  OBVIOUS
<1>3. /\ result' \in Result /\ pc' \in {"idle", "reading"}
      /\ txRxBuffer' \in [{"At", "Cops"} -> Seq(Piece)]
      /\ pc' = "reading" => txRxBuffer'[spec'] = <<>>
  BY <1>1, <1>2
<1>4. owed' \in {owed, Append(owed, number + 1)}
  BY <1>1
<1> QED
  BY <1>1, <1>3, <1>4

\* A piece arrives behind what is unread.
LEMMA ReceiveStep ==
  ASSUME TypeOK, NEW of \in 0..MaxCommands, NEW text \in ReturnCode \union {"EOL", "NOISE"},
         Receive(of, text), UNCHANGED client
  PROVE  \E p \in Piece : /\ p = [of |-> of, text |-> text]
                          /\ uart' = Append(uart, p) /\ uart' \in Seq(Piece)
                          /\ Unread' = Append(Unread, p)
<1> DEFINE p == [of |-> of, text |-> text]
<1>1. p \in Piece /\ uart' = Append(uart, p) /\ uart \in Seq(Piece) /\ uart' \in Seq(Piece)
  BY DEF Receive, Piece, TypeOK
<1>2. pc' = pc /\ spec' = spec /\ txRxBuffer' = txRxBuffer /\ txRxBuffer[spec] \in Seq(Piece)
  BY DEF client, TypeOK
<1> HIDE DEF p
<1>3. ASSUME NEW b \in Seq(Piece), NEW u \in Seq(Piece), NEW q \in Piece
      PROVE  b \o Append(u, q) = Append(b \o u, q)
  OBVIOUS
<1>4. Unread' = Append(Unread, p)
  BY <1>1, <1>2, <1>3 DEF Unread
<1> QED
  BY <1>1, <1>4 DEF p

LEMMA UnreadType == TypeOK => Unread \in Seq(Piece)
<1> SUFFICES ASSUME TypeOK PROVE Unread \in Seq(Piece)
  OBVIOUS
<1>1. uart \in Seq(Piece) /\ txRxBuffer[spec] \in Seq(Piece)
  BY DEF TypeOK
<1> QED
  BY <1>1, Concatenated DEF Unread

LEMMA NextTypeOK == TypeOK /\ OrderInv /\ [Next]_vars => TypeOK'
<1> SUFFICES ASSUME TypeOK, OrderInv, [Next]_vars PROVE TypeOK'
  OBVIOUS
<1>1. ASSUME NEW code \in ReturnCode, ModemAnswers(code) PROVE TypeOK'
  <2>1. /\ owed \in Seq(1..MaxCommands) /\ owed # <<>>
        /\ Receive(Head(owed), code) /\ saying' = Head(owed) /\ owed' = Tail(owed)
        /\ UNCHANGED client
    BY <1>1 DEF ModemAnswers, TypeOK
  <2>2. Head(owed) = owed[1] /\ 1 \in DOMAIN owed /\ Head(owed) \in 1..MaxCommands
        /\ Tail(owed) \in Seq(1..MaxCommands) /\ Len(Tail(owed)) <= Len(owed)
        /\ Len(Tail(owed)) \in Nat
    BY <2>1, HeadOwed
  <2>3. Head(owed) \in 0..number
    BY <2>2 DEF OrderInv, InOrder
  <2>4. uart' \in Seq(Piece)
    BY <2>1, <2>2, ReceiveStep
  <2>5. Len(owed') <= number
    BY <2>1, <2>2, AtAssumption DEF TypeOK
  <2> QED
    BY <2>1, <2>2, <2>3, <2>4, <2>5 DEF TypeOK, client
<1>2. CASE ModemEndsLine
  <2>1. saying \in 0..MaxCommands
    BY AtAssumption DEF TypeOK
  <2>2. uart' \in Seq(Piece)
    BY <1>2, <2>1, ReceiveStep DEF ModemEndsLine
  <2> QED
    BY <1>2, <2>2, AtAssumption DEF ModemEndsLine, TypeOK, client
<1>3. CASE ModemTalks
  <2>1. uart' \in Seq(Piece)
    BY <1>3, AtAssumption, ReceiveStep DEF ModemTalks
  <2> QED
    BY <1>3, <2>1 DEF ModemTalks, TypeOK, client, modem
<1>4. CASE ModemForgets
  BY <1>4, AtAssumption DEF ModemForgets, TypeOK, client
<1>5. CASE CommandSent \/ QueryStarts
  <2>1. PICK s \in {"At", "Cops"}, rendered \in {"rendered", "refused", "empty"} : SendAt(s, rendered)
    BY <1>5, StepSends
  <2>2. /\ number' = number + 1 /\ number + 1 <= MaxCommands /\ number \in Nat
        /\ owed' \in {owed, Append(owed, number + 1)}
    BY <2>1, SendStep, AtAssumption DEF TypeOK
  <2>3. owed' \in Seq(1..MaxCommands) /\ Len(owed') <= number'
    <3>1. owed \in Seq(1..MaxCommands) /\ Len(owed) <= number /\ number + 1 \in 1..MaxCommands
      BY <2>2, AtAssumption DEF TypeOK
    <3>2. /\ Append(owed, number + 1) \in Seq(1..MaxCommands)
          /\ Len(Append(owed, number + 1)) = Len(owed) + 1
      BY <3>1
    <3> QED
      <4>1. CASE owed' = owed
        BY <2>2, <3>1, <4>1
      <4>2. CASE owed' = Append(owed, number + 1)
        BY <2>2, <3>1, <3>2, <4>2
      <4> QED
        BY <2>2, <4>1, <4>2
  <2>4. query' \in {"NONE", "RUNNING", "OK_RAW", "NOK"}
    BY <1>5 DEF CommandSent, QueryStarts, TypeOK
  <2>5. number' \in 0..MaxCommands /\ taken \in 0..number' /\ saying \in 0..number'
    BY <2>2, AtAssumption DEF TypeOK
  <2> QED
    BY <2>1, <2>3, <2>4, <2>5, SendStep DEF TypeOK
<1>6. CASE QueryFindsMux
  BY <1>6 DEF QueryFindsMux, TypeOK, modem
<1>7. CASE Read
  <2>1. txRxBuffer' \in [{"At", "Cops"} -> Seq(Piece)] /\ uart' \in Seq(Piece)
    BY <1>7, Concatenated DEF Read, TypeOK
  <2> QED
    BY <1>7, <2>1 DEF Read, TypeOK, modem
<1>8. CASE Silence
  BY <1>8 DEF Silence, TypeOK, modem, Result
<1>9. CASE ResponseTaken
  <2>1. PICK r : r = response'
    OBVIOUS
  <2>2. txRxBuffer[spec] \in Seq(Piece) /\ uart \in Seq(Piece) /\ pc # "idle"
    BY <1>9 DEF TypeOK, ResponseTaken, GetResponse
  <2>3. r = Interpret(txRxBuffer[spec])
    BY <1>9, <2>1 DEF ResponseTaken, GetResponse
  <2>4. r \in [isCorrect : BOOLEAN, code : ReturnCode, of : 0..MaxCommands]
    BY <2>2, <2>3, Interpreted
  <2>5. r.isCorrect => r.of \in 0..number
    <3>1. \A i \in Ends(txRxBuffer[spec]) : i = Len(txRxBuffer[spec]) =>
            txRxBuffer[spec][i].of <= number
      <4>1. InOrder(txRxBuffer[spec] \o uart, saying, owed, taken, number)
        BY <2>2 DEF OrderInv, Unread
      <4>2. /\ owed \in Seq(1..MaxCommands) /\ number \in Nat /\ taken \in 0..number
            /\ saying \in 0..number
        BY AtAssumption DEF TypeOK
      <4> QED
        BY <2>2, <4>1, <4>2, AnswerIsTaken
    <3>2. r.isCorrect => Len(txRxBuffer[spec]) \in Ends(txRxBuffer[spec])
                         /\ r.of = txRxBuffer[spec][Len(txRxBuffer[spec])].of
      BY <2>2, <2>3, Interpreted
    <3> QED
      BY <2>4, <3>1, <3>2, AtAssumption DEF TypeOK
  <2>6. taken' \in 0..number
    BY <1>9, <2>1, <2>5 DEF ResponseTaken, GetResponse, TypeOK
  <2>7. query' \in {"NONE", "RUNNING", "OK_RAW", "NOK"}
    BY <1>9 DEF ResponseTaken, TypeOK
  <2> QED
    BY <1>9, <2>1, <2>4, <2>6, <2>7 DEF ResponseTaken, GetResponse, TypeOK, modem
<1>10. CASE UNCHANGED vars
  BY <1>10 DEF vars, client, modem, TypeOK
<1> QED
  BY <1>1, <1>2, <1>3, <1>4, <1>5, <1>6, <1>7, <1>8, <1>9, <1>10
  DEF Next, Modem, Caller, Progress

LEMMA NextOrderInv == TypeOK /\ OrderInv /\ [Next]_vars => OrderInv'
<1> SUFFICES ASSUME TypeOK, OrderInv, [Next]_vars PROVE OrderInv'
  OBVIOUS
<1>0. /\ Unread \in Seq(Piece) /\ owed \in Seq(1..MaxCommands)
      /\ number \in Nat /\ taken \in Nat /\ taken \in 0..number /\ saying \in 0..number
      /\ number \in 0..MaxCommands
      /\ InOrder(Unread, saying, owed, taken, number)
  BY AtAssumption, UnreadType DEF TypeOK, OrderInv
<1>1. ASSUME NEW code \in ReturnCode, ModemAnswers(code) PROVE OrderInv'
  <2>1. /\ saying = 0 /\ owed # <<>> /\ Receive(Head(owed), code)
        /\ saying' = Head(owed) /\ owed' = Tail(owed) /\ UNCHANGED client
    BY <1>1 DEF ModemAnswers
  <2>2. Head(owed) \in 0..MaxCommands
    BY <1>0, <2>1, HeadOwed
  <2>3. PICK p \in Piece : p = [of |-> Head(owed), text |-> code] /\ Unread' = Append(Unread, p)
    BY <2>1, <2>2, ReceiveStep
  <2>4. InOrder(Append(Unread, p), Head(owed), Tail(owed), taken, number)
    BY <1>0, <2>1, <2>3, AnswerBegins
  <2> QED
    BY <2>1, <2>3, <2>4 DEF OrderInv, client
<1>2. CASE ModemEndsLine
  <2>1. saying \in 1..number /\ saying \in 0..MaxCommands
    <3>1. saying # 0
      BY <1>2 DEF ModemEndsLine
    <3> QED
      BY <1>0, <3>1, AtAssumption
  <2>2. PICK p \in Piece : p = [of |-> saying, text |-> "EOL"] /\ Unread' = Append(Unread, p)
    BY <1>2, <2>1, ReceiveStep DEF ModemEndsLine
  <2>3. InOrder(Append(Unread, p), 0, owed, taken, number)
    BY <1>0, <2>1, <2>2, AnswerEnds
  <2> QED
    BY <1>2, <2>2, <2>3 DEF OrderInv, ModemEndsLine, client
<1>3. CASE ModemTalks
  <2>1. PICK p \in Piece : p = [of |-> 0, text |-> "NOISE"] /\ Unread' = Append(Unread, p)
    BY <1>3, AtAssumption, ReceiveStep DEF ModemTalks
  <2>2. InOrder(Append(Unread, p), 0, owed, taken, number)
    BY <1>0, <1>3, <2>1, NoiseAdded DEF ModemTalks
  <2> QED
    BY <1>3, <2>1, <2>2 DEF OrderInv, ModemTalks, client, modem
<1>4. CASE ModemForgets
  <2>1. Unread' = Unread
    BY <1>4 DEF Unread, ModemForgets, client
  <2> QED
    BY <1>0, <1>4, <2>1, ModemReset DEF OrderInv, ModemForgets, client
<1>5. CASE CommandSent \/ QueryStarts
  <2>1. PICK s \in {"At", "Cops"}, rendered \in {"rendered", "refused", "empty"} : SendAt(s, rendered)
    BY <1>5, StepSends
  <2>2. /\ pc = "idle" /\ number' = number + 1 /\ number + 1 <= MaxCommands
        /\ pc' = "idle" \/ txRxBuffer'[spec'] = <<>>
        /\ owed' \in {owed, Append(owed, number + 1)}
        /\ UNCHANGED <<taken, uart, saying>>
    BY <2>1, SendStep
  <2>3. <<>> \o uart = uart
    BY DEF TypeOK
  <2>4. Unread' = Unread
    BY <2>2, <2>3 DEF Unread
  <2> QED
    BY <1>0, <2>2, <2>4, CommandIsYoungest DEF OrderInv
<1>6. CASE QueryFindsMux
  BY <1>6 DEF QueryFindsMux, OrderInv, Unread, modem
<1>7. CASE Read
  <2>1. txRxBuffer'[spec'] = txRxBuffer[spec] \o uart /\ uart' = <<>> /\ pc # "idle" /\ pc' = pc
    BY <1>7 DEF Read, TypeOK
  <2>2. (txRxBuffer[spec] \o uart) \o <<>> = txRxBuffer[spec] \o uart
    BY Concatenated DEF TypeOK
  <2>3. Unread' = Unread
    BY <2>1, <2>2 DEF Unread
  <2> QED
    BY <1>7, <2>3 DEF OrderInv, Read, modem
<1>8. CASE Silence
  <2>1. Unread' = Unread
    BY <1>8 DEF Silence, Unread
  <2> QED
    BY <1>8, <2>1 DEF OrderInv, Silence, modem
<1>9. CASE ResponseTaken
  <2>1. PICK r : r = response'
    OBVIOUS
  <2>2. PICK b : b = txRxBuffer[spec]
    OBVIOUS
  <2>3. /\ b \in Seq(Piece) /\ uart \in Seq(Piece) /\ Unread = b \o uart /\ Unread' = uart
        /\ r = Interpret(b) /\ taken' = IF r.isCorrect THEN r.of ELSE taken
        /\ UNCHANGED <<saying, owed, number>>
    BY <1>9, <2>1, <2>2 DEF ResponseTaken, GetResponse, Unread, TypeOK, modem
  <2>4. /\ InOrder(uart, saying, owed, taken, number)
        /\ \A i \in Ends(b) : i = Len(b) => InOrder(uart, saying, owed, b[i].of, number)
    BY <1>0, <2>3, AnswerIsTaken
  <2>5. r.isCorrect => Len(b) \in Ends(b) /\ r.of = b[Len(b)].of
    BY <2>3, Interpreted
  <2> QED
    BY <2>3, <2>4, <2>5 DEF OrderInv
<1>10. CASE UNCHANGED vars
  BY <1>10 DEF vars, client, modem, OrderInv, Unread
<1> QED
  BY <1>1, <1>2, <1>3, <1>4, <1>5, <1>6, <1>7, <1>8, <1>9, <1>10
  DEF Next, Modem, Caller, Progress

LEMMA Inductive == Spec => []IInv
<1>1. IInv /\ [Next]_vars => IInv'
  BY NextTypeOK, NextOrderInv DEF IInv
<1> QED
  BY <1>1, InitIInv, PTL DEF Spec

------------------------------------------------------------------------------
(* The theorems. *)

\* Every variable of AtCommand keeps its type; the modem never owes more answers than
\* there were commands, and a query answers OK_RAW or NOK.
THEOREM TypeCorrect == Spec => []TypeOK
<1>1. IInv => TypeOK
  BY DEF IInv
<1> QED
  BY <1>1, Inductive, PTL

\* A parse interprets the buffer of the current command.
LEMMA ParseStep ==
  ASSUME IInv, [Next]_vars, pc = "parsing", pc' = "idle", response'.isCorrect,
         NEW b, b = txRxBuffer[spec]
  PROVE  /\ b \in Seq(Piece) /\ Len(b) \in Ends(b) /\ response'.of = b[Len(b)].of
         /\ InOrder(b \o uart, saying, owed, taken, number)
         /\ taken < response'.of /\ response'.of <= number
<1>1. ResponseTaken
  <2>1. ASSUME NEW code \in ReturnCode, ModemAnswers(code) PROVE FALSE
    BY <2>1 DEF ModemAnswers, client
  <2>2. CASE ModemEndsLine \/ ModemTalks \/ ModemForgets
    BY <2>2 DEF ModemEndsLine, ModemTalks, ModemForgets, client
  <2>3. CASE CommandSent \/ QueryStarts
    BY <2>3, StepSends, SendStep DEF IInv
  <2>4. CASE QueryFindsMux \/ Read \/ Silence
    BY <2>4 DEF QueryFindsMux, Read, Silence
  <2>5. CASE UNCHANGED vars
    BY <2>5 DEF vars, client
  <2> QED
    BY <2>1, <2>2, <2>3, <2>4, <2>5 DEF Next, Modem, Caller, Progress
<1>2. PICK r : r = response'
  OBVIOUS
<1>3. r = Interpret(b) /\ b \in Seq(Piece) /\ uart \in Seq(Piece)
  BY <1>1, <1>2 DEF ResponseTaken, GetResponse, IInv, TypeOK
<1>4. Len(b) \in Ends(b) /\ r.of = b[Len(b)].of
  BY <1>2, <1>3, Interpreted
<1>5. InOrder(b \o uart, saying, owed, taken, number)
  BY DEF IInv, OrderInv, Unread
<1>6. /\ owed \in Seq(1..MaxCommands) /\ number \in Nat /\ taken \in 0..number
      /\ saying \in 0..number
  BY AtAssumption DEF IInv, TypeOK
<1>7. taken < b[Len(b)].of /\ b[Len(b)].of <= number
  BY <1>3, <1>4, <1>5, <1>6, AnswerIsTaken
<1> QED
  BY <1>2, <1>3, <1>4, <1>5, <1>7

\* No answer of the modem is returned twice, and none after the answer of a later
\* command, however late, split or mixed with other talk they come: sendAt starts its
\* buffer anew for every command.
THEOREM InOrderTaken == Spec => AnswersTakenInOrder
<1>1. ASSUME IInv, [Next]_vars
      PROVE  [pc = "parsing" /\ pc' = "idle" /\ response'.isCorrect => response'.of > taken]_vars
  <2>1. SUFFICES ASSUME pc = "parsing", pc' = "idle", response'.isCorrect
                 PROVE  response'.of > taken
    OBVIOUS
  <2>2. taken \in Nat /\ \E b : b = txRxBuffer[spec]
    BY <1>1, AtAssumption DEF IInv, TypeOK
  <2>3. /\ taken < response'.of
        /\ response'.of <= number
    BY <1>1, <2>1, <2>2, ParseStep
  <2> QED
    BY <2>3
<1> QED
  BY <1>1, Inductive, PTL DEF Spec, AnswersTakenInOrder

\* An answer that comes in time is not mistaken for an older one that came late: if
\* sendAt has read all of its own answer, getResponse returns no other.
THEOREM OwnAnswerReturned == Spec => OwnAnswerWins
<1>1. ASSUME IInv, [Next]_vars
      PROVE  [LET own == {i \in DOMAIN txRxBuffer[spec] :
                            EndsAnswer(txRxBuffer[spec], i) /\ txRxBuffer[spec][i].of = number}
              IN  pc = "parsing" /\ pc' = "idle" /\ own # {} /\ response'.isCorrect
                    => response'.of = number]_vars
  <2> DEFINE Own == {i \in DOMAIN txRxBuffer[spec] :
                       EndsAnswer(txRxBuffer[spec], i) /\ txRxBuffer[spec][i].of = number}
  <2>1. SUFFICES ASSUME pc = "parsing", pc' = "idle", response'.isCorrect, NEW i \in Own
                 PROVE  response'.of = number
    OBVIOUS
  <2>2. PICK b : b = txRxBuffer[spec]
    OBVIOUS
  <2>3. /\ b \in Seq(Piece) /\ Len(b) \in Ends(b) /\ response'.of = b[Len(b)].of
        /\ InOrder(b \o uart, saying, owed, taken, number)
        /\ response'.of <= number
    BY <1>1, <2>1, <2>2, ParseStep
  <2>4. uart \in Seq(Piece) /\ number \in Nat
    BY <1>1, AtAssumption DEF IInv, TypeOK
  <2>5. i \in Ends(b) /\ b[i].of = number
    BY <2>1, <2>2 DEF EndsAnswer, Ends
  <2>6. CASE i = Len(b)
    BY <2>3, <2>5, <2>6
  <2>7. CASE i # Len(b)
    <3>1. i \in 1..Len(b) /\ Len(b) \in 1..Len(b)
      BY <2>3, <2>5, PieceOf DEF Ends
    <3>2. /\ i \in Ends(b \o uart) /\ Len(b) \in Ends(b \o uart)
          /\ (b \o uart)[i] = b[i] /\ (b \o uart)[Len(b)] = b[Len(b)]
      BY <2>3, <2>4, <2>5, Concatenated DEF Ends
    <3>3. i < Len(b)
      BY <2>7, <3>1
    <3>4. b[i].of < b[Len(b)].of
      BY <2>3, <3>2, <3>3 DEF InOrder
    <3>5. b[Len(b)].of \in Nat
      BY <2>3, PieceOf DEF Ends
    <3> QED
      BY <2>3, <2>4, <2>5, <3>4, <3>5
  <2> QED
    BY <2>6, <2>7
<1> QED
  BY <1>1, Inductive, PTL DEF Spec, OwnAnswerWins
=============================================================================
