--------------------------- MODULE MCMessageEngine ---------------------------
(***************************************************************************)
(* Small instances of MessageEngine.  The senders are the admin's number   *)
(* a, a remote r who knows the password and a stranger p.  The commands    *)
(* are "never reply to spam p" (its keyword "spam" makes it destructive),  *)
(* "always reply to p", "stop sms", a text for the model and conversation. *)
(***************************************************************************)
EXTENDS MessageEngine, TLC

MCReading ==
  [spam   |-> [kind |-> "quick",
               result |-> [action |-> "never_reply_to", target |-> "p",
                           content |-> FALSE]],
   always |-> [kind |-> "quick",
               result |-> [action |-> "always_reply_to", target |-> "p",
                           content |-> FALSE]],
   sync   |-> [kind |-> "quick",
               result |-> [action |-> "sync_contacts", target |-> NoTarget,
                           content |-> FALSE]],
   stop   |-> [kind |-> "toggle", channels |-> {"SMS"}, on |-> FALSE],
   list   |-> [kind |-> "channels"],
   look   |-> [kind |-> "interpret"],
   hello  |-> [kind |-> "chat"]]

MCCommands == DOMAIN MCReading

MCLlmResults ==
  {[action |-> "unknown",        target |-> NoTarget, content |-> FALSE],
   [action |-> "contact_lookup", target |-> "p",      content |-> FALSE],
   [action |-> "never_reply_to", target |-> "p",      content |-> FALSE],
   [action |-> "send_email",     target |-> "p",      content |-> TRUE]}

Msg(s, ch, login, form, c) ==
  [sender |-> s, channel |-> ch, login |-> login, form |-> form, cmd |-> c]

\* The messages of a run in which nobody sends a command along with a login.
QueuedMessages ==
  {Msg("a", "SMS",   "none", "plain",   "spam"),
   Msg("a", "SMS",   "none", "confirm", "spam"),
   Msg("a", "SMS",   "none", "plain",   "always"),
   Msg("a", "EMAIL", "none", "plain",   "look"),
   Msg("p", "SMS",   "none", "plain",   "hello"),
   Msg("p", "SMS",   "none", "confirm", "spam")}

\* The messages of a remote administrator, logins with a command among them.
LoginMessages ==
  {Msg("r", "SMS",   "good", "blank",   "hello"),
   Msg("r", "SMS",   "bad",  "plain",   "stop"),
   Msg("r", "SMS",   "good", "plain",   "spam"),
   Msg("r", "EMAIL", "good", "confirm", "spam"),
   Msg("r", "SMS",   "none", "plain",   "spam"),
   Msg("r", "EMAIL", "none", "confirm", "spam"),
   Msg("r", "SMS",   "none", "plain",   "stop"),
   Msg("r", "SMS",   "none", "plain",   "list"),
   Msg("r", "SMS",   "none", "plain",   "sync"),
   Msg("r", "SMS",   "none", "plain",   "hello")}

\* For the liveness run: a draft under the mutex, and a login's command, which
\* needs one model call or two and runs without it.
MixedMessages ==
  {Msg("r", "SMS", "good", "plain", "look"),
   Msg("p", "SMS", "none", "plain", "hello")}

IdSymmetry == Permutations(Ids)
=============================================================================
