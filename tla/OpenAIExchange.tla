--------------------------- MODULE OpenAIExchange ----------------------------
(***************************************************************************)
(* One exchange with the provider: OpenAIResponsesProvider::invoke over    *)
(* CurlHttpTransport and FileSecretSource.  An exchange is a record of what*)
(* the adapter meets on its way; Invocation is what it answers to the      *)
(* handler, Fate what has become of the request at the other side, which   *)
(* the process cannot see unless a whole response comes back.              *)
(***************************************************************************)

(* supported: the input's type, its runtime and its output limit are ones  *)
(* the adapter takes; wire: how the transfer ends; ok: an HTTP status 2xx. *)
(* A file that grows while it is read is refused; one that shrinks is      *)
(* taken as it is.                                                         *)
Secrets == {"absent", "exposed", "oversized", "unreadable", "growing",
            "shrinking", "empty", "malformed", "usable"}
Wires == {"refused", "unsent", "broken", "late", "oversized", "unread", "whole"}
Documents == {"malformed", "incomplete", "failed", "unexpected", "completed"}
Texts == {"none", "malformed", "oversized", "fits"}

Exchanges ==
  [supported : BOOLEAN, secret : Secrets, wire : Wires, ok : BOOLEAN,
   document : Documents, usage : {"absent", "malformed", "counted"},
   refusal : BOOLEAN, text : Texts]

-----------------------------------------------------------------------------
(* FileSecretSource::load.                                                 *)
Load(secret) ==
  IF secret = "absent" THEN "nullopt"
  ELSE IF secret \in {"exposed", "oversized", "unreadable", "growing"} THEN "throws"
  ELSE "value"

(* Nothing leaves the process for an unsupported request or without a      *)
(* credential that is one printable line.                                  *)
Credential(secret) ==
  Load(secret) = "value" /\ secret \notin {"empty", "malformed"}
Sendable(e) == e.supported /\ Credential(e.secret)

(* write_body and receive_header cut off what is over its limit, which     *)
(* ends the transfer with an error like every other failure of it.         *)
CutOff(wire) == wire = "oversized"
Transferred(wire) == ~CutOff(wire) /\ wire \notin {"unsent", "broken", "late"}

(* CurlHttpTransport::perform: options and headers it does not take throw. *)
(* A transfer that did not end, or whose status cannot be read, is unknown.*)
Perform(wire) ==
  IF wire = "refused" THEN "throws"
  ELSE IF Transferred(wire) /\ wire # "unread" THEN "response"
  ELSE "effect_unknown"

(* normalized_usage, and the accounting the production endpoint must give. *)
ValidUsage(e) == e.usage # "malformed"
Accounted(e) == e.usage # "absent"

(* The response, from its HTTP status to the status in its document.       *)
Completed(e) == e.ok /\ ValidUsage(e) /\ e.document = "completed"

(* The text, part by part; a refusal, wherever it stands, refuses it.      *)
HasText(e) == e.text = "fits" /\ ~e.refusal

Invocation(e) ==
  IF ~Sendable(e) THEN "rejected"
  ELSE IF Perform(e.wire) # "response" THEN "effect_unknown"
  ELSE IF Completed(e) /\ HasText(e) /\ Accounted(e) THEN "succeeded"
  ELSE "rejected"

-----------------------------------------------------------------------------
(* The other side: the request never left; nobody knows how far it got; it *)
(* was answered; it was answered with a text and its token usage.          *)
Fates == {"unsent", "open", "answered", "delivered"}
Fate(e) ==
  IF ~Sendable(e) \/ e.wire \in {"refused", "unsent"} THEN "unsent"
  ELSE IF e.wire \in {"broken", "late", "oversized"} THEN "open"
  ELSE IF /\ e.ok /\ e.document = "completed"
          /\ e.text = "fits" /\ e.usage = "counted" THEN "delivered"
  ELSE "answered"

(* What the adapter may answer, with what is true of the request then.     *)
Accounts == {<<Invocation(e), Fate(e)>> : e \in Exchanges}
=============================================================================
