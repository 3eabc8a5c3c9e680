--------------------------- MODULE MCEmailMonitor ---------------------------
(***************************************************************************)
(* Small instances of EmailMonitor.                                        *)
(***************************************************************************)
EXTENDS EmailMonitor

M(from, channel) == [from |-> from, channel |-> channel]

\* Two Google Voice contacts, of whom a full map drops one, and a second text
\* of the first.
MCMail == <<M("v", "GVOICE"), M("w", "GVOICE"), M("v", "GVOICE")>>

\* An e-mail, and a mail of the account itself.
MCInbox == <<M("s", "EMAIL"), M("me", "EMAIL")>>

MCDigits == [v |-> "1", w |-> "2", s |-> NoDigits, me |-> NoDigits]

AnyStart == {NoId, 0}
=============================================================================
