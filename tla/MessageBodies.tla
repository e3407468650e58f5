--------------------------- MODULE MessageBodies ---------------------------
(***************************************************************************)
(* What a message may carry, whatever its kind: a script document, a media *)
(* tag, or one of the protocol's own messages.  The three kinds of bodies  *)
(* share nothing but the codecs, so a behaviour follows one of them.       *)
(***************************************************************************)
EXTENDS AmfDocuments, MediaBodies, MessageExchange

VARIABLE kind     \* the body this behaviour is about
bodyVars == <<kind, vars, mediaVars, msgVars>>

BodyInit ==
  /\ kind \in {"document", "media", "message"}
  /\ Init /\ MediaInit /\ MsgInit
  /\ kind # "document" => encoding = "Amf0"

BodyNext ==
  \/ kind = "document" /\ Next /\ UNCHANGED <<kind, mediaVars, msgVars>>
  \/ kind = "media" /\ MediaNext /\ UNCHANGED <<kind, vars, msgVars>>
  \/ kind = "message" /\ MsgNext /\ UNCHANGED <<kind, vars, mediaVars>>

BodySpec == BodyInit /\ [][BodyNext]_bodyVars
=============================================================================
