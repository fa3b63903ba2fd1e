------------------------------- MODULE ToolCall -------------------------------
(***************************************************************************)
(* What the investigation may take a call of a tool for, without knowing   *)
(* of time-outs, retries and audits: it asks one question, is given one    *)
(* whole reply to it or none, which does not change any more, and only     *)
(* then files the call, which fails or not.                                *)
(*                                                                         *)
(* The module ToolRunner implements this one; it is what the action        *)
(* CallTool of the module Investigation does in a single step.             *)
(***************************************************************************)

CONSTANTS
  Questions,   \* what may be asked
  Replies(_),  \* the replies to a question
  Pending,     \* no reply yet
  Nothing      \* the call ended without a reply

VARIABLES
  question,  \* what was asked
  reply,     \* what came back
  record     \* the record of the call: "open", "done", or it "raised"

vars == <<question, reply, record>>

Init ==
  /\ question \in Questions
  /\ reply = Pending
  /\ record = "open"

Settle ==
  /\ reply = Pending
  /\ reply' \in Replies(question) \union {Nothing}
  /\ UNCHANGED <<question, record>>

File ==
  /\ reply # Pending /\ record = "open"
  /\ record' \in {"done", "raised"}
  /\ UNCHANGED <<question, reply>>

Next == Settle \/ File

Spec == Init /\ [][Next]_vars
===============================================================================
