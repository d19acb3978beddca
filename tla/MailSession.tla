---------------------------- MODULE MailSession ----------------------------
(***************************************************************************)
(* What the inbound MM4 and MM3 servers keep of an SMTP connection and how *)
(* they answer each command (Handle in mm4/inbound.go and mm3/inbound.go). *)
(* The MM3 server has no AUTH.                                             *)
(***************************************************************************)
EXTENDS Naturals, Sequences

Ifaces == {"MM4", "MM3"}
NoSender == ""

\* A command is a verb and what follows it; an AUTH says whether an active peer
\* has these credentials.
Command(verb, arg) == [verb |-> verb, arg |-> arg]

NewSession == [from |-> NoSender, rcpts |-> <<>>, tls |-> FALSE, auth |-> FALSE]

StartTLS(s) == [NewSession EXCEPT !.tls = TRUE]
MailFrom(s, from) == [s EXCEPT !.from = from, !.rcpts = <<>>]
RcptTo(s, rcpt) == [s EXCEPT !.rcpts = Append(@, rcpt)]
Rset(s) == [s EXCEPT !.from = NoSender, !.rcpts = <<>>, !.auth = FALSE]

CanStartTLS(s, hasTLS) == hasTLS /\ ~s.tls

\* DATA leaves the session as it is: what follows without a MAIL FROM has the
\* sender and the recipients of the message before.
AfterCommand(iface, hasTLS, s, c) ==
    CASE c.verb = "STARTTLS" /\ CanStartTLS(s, hasTLS) -> StartTLS(s)
      [] c.verb = "AUTH" /\ iface = "MM4" /\ c.arg -> [s EXCEPT !.auth = TRUE]
      [] c.verb = "MAIL" -> MailFrom(s, c.arg)
      [] c.verb = "RCPT" -> RcptTo(s, c.arg)
      [] c.verb = "RSET" -> Rset(s)
      [] OTHER -> s

\* The answer to a command; DATA's is the one before the text.
Answer(iface, hasTLS, s, c) ==
    CASE c.verb = "STARTTLS" -> IF CanStartTLS(s, hasTLS) THEN 220 ELSE 454
      [] c.verb = "AUTH" /\ iface = "MM4" -> IF c.arg THEN 235 ELSE 535
      [] c.verb = "DATA" -> 354
      [] c.verb = "QUIT" -> 221
      [] c.verb \in {"EHLO", "MAIL", "RCPT", "RSET", "NOOP"} -> 250
      [] OTHER -> 502

\* The stored message's recipients: MM4 takes those of the text and MM3 those of
\* the envelope, and each the other's when it has none.
Recipients(iface, header, s) ==
    LET Preferred(a, b) == IF a = <<>> THEN b ELSE a IN
    IF iface = "MM4" THEN Preferred(header, s.rcpts) ELSE Preferred(s.rcpts, header)

\* authorizedRemote: an authenticated peer, a listed address, or no list at all.
Authorized(iface, s, listed, hasAllowlist) ==
    iface = "MM3" \/ s.auth \/ listed \/ ~hasAllowlist
=============================================================================
