------------------------------ MODULE AtCommand ------------------------------
(***************************************************************************)
(* AT commands over the modem's serial port: AtCommand::sendAt and         *)
(* getResponse with the specifications At and Cops and the                 *)
(* PlainAtInterpreter, and their caller ModemPresenceQuery::run.           *)
(*                                                                         *)
(* Nothing ties an answer to its command: sendAt reads until the port has  *)
(* been silent for 100 ms, an answer may come after that, or in two parts, *)
(* and is then found by the next command.  Text is a sequence of pieces: a *)
(* result code ("\r\nOK", "\r\nERROR"), the "\r\n" that ends it, and       *)
(* anything else the modem says (NOISE).  A piece knows the number of the  *)
(* command it answers.                                                     *)
(***************************************************************************)
EXTENDS Integers, Sequences

CONSTANTS
  MaxCommands,   \* bound: commands sent
  MaxPieces      \* bound: pieces in one buffer and at the port (RX_BUF_SIZE bytes)

ASSUME AtAssumption == MaxCommands \in Nat /\ MaxPieces \in Nat \ {0}

CommandType == {"AT_EXECUTE", "AT_READ", "AT_TEST", "AT_WRITE", "AT_INVALID"}
Result == {"AT_SENT", "AT_UART_ERROR", "AT_UNKNOWN_ERROR"}
ReturnCode == {"OK", "ERROR"}
Piece == [of : 0..MaxCommands, text : ReturnCode \union {"EOL", "NOISE"}]

VARIABLES
  number,       \* how many times sendAt has been called
  txRxBuffer,   \* what it has read; each specification has a buffer of its own
  spec,         \* the specification of the last command, At or Cops
  result,       \* what the last sendAt returned
  response,     \* what the last getResponse returned
  taken,        \* the command whose answer was last returned as correct
  query,        \* ModemPresenceQuery::run(), "NONE" before the first
  uart,         \* received, and not yet read
  owed,         \* the commands the modem has yet to answer
  saying,       \* the command whose answer it has begun, or 0
  pc

client == <<number, txRxBuffer, spec, result, response, taken, query, pc>>
modem == <<owed, saying>>
vars == <<client, uart, modem>>

Init ==
  /\ number = 0
  /\ txRxBuffer = [s \in {"At", "Cops"} |-> <<>>]
  /\ spec = "At"
  /\ result = "AT_UNKNOWN_ERROR"
  /\ response = [isCorrect |-> FALSE, code |-> "ERROR", of |-> 0]
  /\ query = "NONE"
  /\ taken = 0
  /\ uart = <<>> /\ owed = <<>> /\ saying = 0
  /\ pc = "idle"

------------------------------------------------------------------------------
(* The modem and the line. *)

Receive(of, text) ==
  /\ Len(uart) + Len(txRxBuffer[spec]) < MaxPieces
  /\ uart' = Append(uart, [of |-> of, text |-> text])

\* The modem answers in order; some time later it ends the line.
ModemAnswers(code) ==
  /\ saying = 0
  /\ owed # <<>>
  /\ Receive(Head(owed), code)
  /\ saying' = Head(owed)
  /\ owed' = Tail(owed)
  /\ UNCHANGED client

ModemEndsLine ==
  /\ saying # 0
  /\ Receive(saying, "EOL")
  /\ saying' = 0
  /\ UNCHANGED <<client, owed>>

\* An echo, an unsolicited message, an answer's text.
ModemTalks ==
  /\ saying = 0
  /\ Receive(0, "NOISE")
  /\ UNCHANGED <<client, modem>>

\* The modem is reset, or was never there.
ModemForgets ==
  /\ owed' = <<>> /\ saying' = 0
  /\ UNCHANGED <<client, uart>>

------------------------------------------------------------------------------
(* renderCommand: a negative length refuses, and a length of 0 does not. *)

RenderAt(cmdType) == IF cmdType = "AT_EXECUTE" THEN {"rendered"} ELSE {"refused"}

\* Cops() has mode 0, the other constructors have mode 1.  With mode 1 what
\* prepareWriteCommand returns is undefined.
PrepareWriteCommand(mode) == IF mode = 0 THEN {"rendered"} ELSE {"rendered", "empty"}

RenderCops(cmdType, mode) ==
  CASE cmdType = "AT_READ" -> {"rendered"}
    [] cmdType = "AT_WRITE" -> PrepareWriteCommand(mode)
    [] OTHER -> {"empty"}

------------------------------------------------------------------------------
(* sendAt and getResponse. *)

\* Mutant: the count of bytes read goes on from the last command.
KeptBuffer(s) == txRxBuffer

\* The count of bytes read starts at 0, and is where the text is terminated.
ClearedBuffer(s) == [txRxBuffer EXCEPT ![s] = <<>>]

\* What precedes the reading.  A command without text counts as sent; one that
\* could not be written as a whole may have reached the modem.
SendAt(s, rendered) ==
  /\ pc = "idle"
  /\ number < MaxCommands
  /\ number' = number + 1
  /\ spec' = s
  /\ \/ /\ rendered = "refused"
        /\ result' = "AT_UART_ERROR" /\ UNCHANGED <<txRxBuffer, owed, pc>>
     \/ /\ rendered = "rendered"
        /\ result' = "AT_UART_ERROR" /\ UNCHANGED <<txRxBuffer, pc>>
        /\ owed' \in {owed, Append(owed, number')}
     \/ /\ rendered # "refused"
        /\ txRxBuffer' = ClearedBuffer(s)
        /\ pc' = "reading"
        /\ owed' = IF rendered = "empty" THEN owed ELSE Append(owed, number')
        /\ UNCHANGED result
  /\ UNCHANGED <<response, taken, uart, saying>>

\* Any other user of the class.
CommandSent ==
  /\ \E cmdType \in CommandType, mode \in {0, 1} :
       \/ \E rendered \in RenderAt(cmdType) : SendAt("At", rendered)
       \/ \E rendered \in RenderCops(cmdType, mode) : SendAt("Cops", rendered)
  /\ query # "RUNNING"
  /\ UNCHANGED query

\* dataAvailable() is true: read what is there.
Read ==
  /\ pc = "reading"
  /\ uart # <<>>
  /\ txRxBuffer' = [txRxBuffer EXCEPT ![spec] = @ \o uart]
  /\ uart' = <<>>
  /\ UNCHANGED <<number, spec, result, response, taken, query, modem, pc>>

\* Mutant: the loop waits for the first piece.
SilenceAfterAnswer ==
  /\ pc = "reading"
  /\ uart = <<>> /\ txRxBuffer[spec] # <<>>
  /\ result' = "AT_SENT"
  /\ pc' = "parsing"
  /\ UNCHANGED <<number, txRxBuffer, spec, response, taken, query, uart, modem>>

\* Nothing for 100 ms: sendAt returns, whatever was read.
Silence ==
  /\ pc = "reading"
  /\ uart = <<>>
  /\ result' = "AT_SENT"
  /\ pc' = "parsing"
  /\ UNCHANGED <<number, txRxBuffer, spec, response, taken, query, uart, modem>>

\* An answer that ends at position i of the buffer.
EndsAnswer(buffer, i) ==
  i > 1 /\ buffer[i].text = "EOL" /\ buffer[i - 1].text \in ReturnCode

\* Mutant: the first answer in the buffer counts.
InterpretFirst(buffer) ==
  LET ends == {i \in DOMAIN buffer : EndsAnswer(buffer, i)}
      first == CHOOSE i \in ends : \A j \in ends : i <= j
  IN  IF ends # {}
      THEN [isCorrect |-> TRUE, code |-> buffer[first - 1].text, of |-> buffer[first].of]
      ELSE [isCorrect |-> FALSE, code |-> "ERROR", of |-> 0]

\* The expression has to match the whole buffer: an answer counts if it is what
\* the buffer ends with.
Interpret(buffer) ==
  LET last == Len(buffer)
  IN  IF EndsAnswer(buffer, last)
      THEN [isCorrect |-> TRUE, code |-> buffer[last - 1].text, of |-> buffer[last].of]
      ELSE [isCorrect |-> FALSE, code |-> "ERROR", of |-> 0]

GetResponse ==
  /\ pc = "parsing"
  /\ response' = Interpret(txRxBuffer[spec])
  /\ taken' = IF response'.isCorrect THEN response'.of ELSE taken
  /\ pc' = "idle"
  /\ UNCHANGED <<number, txRxBuffer, spec, result, uart, modem>>

------------------------------------------------------------------------------
(* ModemPresenceQuery::run. *)

\* isCmuxPotentiallyActive(): the port is not touched.
QueryFindsMux ==
  /\ pc = "idle"
  /\ query # "RUNNING"
  /\ query' = "NOK"
  /\ UNCHANGED <<number, txRxBuffer, spec, result, response, taken, pc, uart, modem>>

QueryStarts ==
  /\ query # "RUNNING"
  /\ \E rendered \in RenderAt("AT_EXECUTE") : SendAt("At", rendered)
  /\ query' = IF pc' = "reading" THEN "RUNNING" ELSE "NOK"

\* The result, if it is the query that has asked.
ResponseTaken ==
  /\ GetResponse
  /\ query' = IF query # "RUNNING" THEN query
              ELSE IF response'.code = "OK" THEN "OK_RAW" ELSE "NOK"

------------------------------------------------------------------------------
Modem ==
  \/ \E code \in ReturnCode : ModemAnswers(code)
  \/ ModemEndsLine \/ ModemTalks \/ ModemForgets

Caller == CommandSent \/ QueryFindsMux \/ QueryStarts

Progress == Read \/ Silence \/ ResponseTaken

Next == Modem \/ Caller \/ Progress

\* Only the thread that sends the command is sure to go on.
Spec == Init /\ [][Next]_vars /\ WF_vars(Progress)

------------------------------------------------------------------------------
(* Properties. *)

\* Every variable has its type, and no more is owed than was asked for; a query
\* never answers OK_CMUX, which is reserved.
TypeOK ==
  /\ number \in 0..MaxCommands
  /\ txRxBuffer \in [{"At", "Cops"} -> Seq(Piece)]
  /\ spec \in {"At", "Cops"}
  /\ result \in Result
  /\ taken \in 0..number
  /\ response \in [isCorrect : BOOLEAN, code : ReturnCode, of : 0..MaxCommands]
  /\ query \in {"NONE", "RUNNING", "OK_RAW", "NOK"}
  /\ uart \in Seq(Piece)
  /\ owed \in Seq(1..MaxCommands) /\ Len(owed) <= number
  /\ saying \in 0..number
  /\ pc \in {"idle", "reading", "parsing"}

\* No answer is taken twice, nor after the answer of a later command: a command
\* to which nothing is said gets none, whatever its buffer held before.
AnswersTakenInOrder ==
  [][pc = "parsing" /\ pc' = "idle" /\ response'.isCorrect => response'.of > taken]_vars

\* An answer that comes in time is not mistaken: if all of the command's own answer
\* was read, no other is returned, even if an older one that came late was read too.
OwnAnswerWins ==
  [][LET own == {i \in DOMAIN txRxBuffer[spec] :
                   EndsAnswer(txRxBuffer[spec], i) /\ txRxBuffer[spec][i].of = number}
     IN  pc = "parsing" /\ pc' = "idle" /\ own # {} /\ response'.isCorrect
           => response'.of = number]_vars

\* A command to a modem that is silent, or falls silent, comes to an end.
CommandReturns == <>[](uart = <<>>) => (pc # "idle" ~> pc = "idle")
==============================================================================
