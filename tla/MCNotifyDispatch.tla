-------------------------- MODULE MCNotifyDispatch --------------------------
(* Instances of NotifyDispatch for TLC.                                    *)
EXTENDS NotifyDispatch, TLC

CONSTANTS s1, s2, s3, k1, k2, hook, phone, fallback

EnHyphen == Locale(<<"en", "US">>, "-")
EnUnderscore == Locale(<<"en", "US">>, "_")
En == Locale(<<"en">>, "-")

MCLocales == {Default, En, EnHyphen, EnUnderscore}
Send(type, id, locale, retries) ==
  [type |-> type, id |-> id, locale |-> locale, retries |-> retries]

(* Three sends for two connections, one of which may be rejected, and two  *)
(* creations of the same template, or of a channel.                        *)
MCEarlierRows ==
  hook :> ChannelRow("webhook", "ops", TRUE)
    @@ phone :> ChannelRow("sms", "ops", TRUE)
    @@ fallback :> TemplateRow(Default)

MCRequests ==
  s1 :> {Send("webhook", None, EnHyphen, 2)}
    @@ s2 :> {Send("sms", phone, En, 1)}
    @@ s3 :> {Send("sms", hook, Default, 2)}
    @@ k1 :> {TemplateRow(En)}
    @@ k2 :> {TemplateRow(En)}
=============================================================================
