--------------------------- MODULE MCInboundWebhook ----------------------------
(* Two WhatsApp calls that share a message, an empty one and a Telegram call. *)
EXTENDS InboundWebhook, TLC

CONSTANTS m1, m2, s1, c1, c2, c3

Sent == m1 :> s1 @@ m2 :> s1
Carried == c1 :> <<m1, m2>> @@ c2 :> <<m2>> @@ c3 :> <<>>
===============================================================================
