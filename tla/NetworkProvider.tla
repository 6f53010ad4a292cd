--------------------------- MODULE NetworkProvider ---------------------------
(***************************************************************************)
(* What an INetworkProvider promises to the thread that owns it and to a   *)
(* callback registered with it.  PppConnection is shown to implement this, *)
(* and SgmSink is checked against this instead of against PppConnection.   *)
(*                                                                         *)
(* The promise is about safety only: a call may stay without an answer.    *)
(***************************************************************************)

NoStatus == "NO_STATUS"   \* a callback never called, or a call not answered

VARIABLES
  told,     \* the status the callback was last called with
  call,     \* the method the owner is in: "connect", "disconnect" or "none"
  answer    \* what the owner's last call returned

providerVars == <<told, call, answer>>

ProviderInit ==
  /\ told = NoStatus
  /\ call = "none"
  /\ answer = "UNKNOWN_ERROR"

\* The owner calls connect() or disconnect(), one at a time.
CallProvider(method) ==
  /\ call = "none"
  /\ call' = method
  /\ answer' = NoStatus
  /\ UNCHANGED told

\* The callback is called with status.  Only a connect() brings good news, and
\* none after the device was lost; only a disconnect() is reported as one.
Tell(status) ==
  /\ status = "CONNECTED" => call = "connect" /\ told # "DEVICE_UNAVAILABLE"
  /\ status = "DISCONNECTED" => call = "disconnect"
  /\ told' = status
  /\ UNCHANGED <<call, answer>>

\* connect() answers CONNECTED if and only if that is what the callback knows,
\* and that there is no device only after the callback was told so.
AnswerConnect(status) ==
  /\ call = "connect"
  /\ status = "CONNECTED" <=> told = "CONNECTED"
  /\ status = "DEVICE_UNAVAILABLE" => told = "DEVICE_UNAVAILABLE"
  /\ call' = "none"
  /\ answer' = status
  /\ UNCHANGED told

\* disconnect() may report an error although it did disconnect.
AnswerDisconnect(status) ==
  /\ call = "disconnect"
  /\ call' = "none"
  /\ answer' = status
  /\ UNCHANGED told

Notices == {"CONNECTED", "DISCONNECTED", "CONNECTION_ERROR", "DEVICE_UNAVAILABLE"}
ConnectAnswers == {"CONNECTED", "CONNECTION_ERROR", "DEVICE_UNAVAILABLE"}
DisconnectAnswers == {"DISCONNECTED", "CONNECTION_ERROR"}

ProviderNext ==
  \/ \E method \in {"connect", "disconnect"} : CallProvider(method)
  \/ \E status \in Notices : Tell(status)
  \/ \E status \in ConnectAnswers : AnswerConnect(status)
  \/ \E status \in DisconnectAnswers : AnswerDisconnect(status)

ProviderSpec == ProviderInit /\ [][ProviderNext]_providerVars
==============================================================================
