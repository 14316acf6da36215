---------------------------- MODULE ApprovedWrites ----------------------------
(***************************************************************************)
(* What EDIT mode promises of the workspace (Docs/11, "durable intent" and *)
(* "one use"): the program replaces a file only by spending an approval    *)
(* given for exactly that replacement, whose intent is on record; and an   *)
(* intent is reported done only if its file did hold the content.  One     *)
(* approval, one write, at one moment: calls, checks and interruptions are *)
(* not seen here.                                                          *)
(***************************************************************************)
EXTENDS Naturals, Sequences

CONSTANTS
  Inputs,     (* the replacements that may be proposed: path, content, ... *)
  Contents,   (* what a file may hold, or that there is none               *)
  Original    (* the workspace at the start                                *)

VARIABLES
  approvals,  (* the replacements approved, oldest first                   *)
  usable,     (* the approvals neither spent nor withdrawn                 *)
  writes,     (* the approvals spent, one for each replacement made        *)
  intents,    (* what is on record about each replacement                  *)
  files,      (* the workspace                                             *)
  past        (* every <<path, content>> it had                            *)

gate == <<approvals, usable, writes>>
workspace == <<files, past>>
promise == <<gate, intents, workspace>>

Init ==
  /\ approvals = << >> /\ usable = {} /\ writes = << >>
  /\ intents = << >>
  /\ files = Original
  /\ past = {<<p, Original[p]>> : p \in DOMAIN Original}

Put(path, content) ==
  /\ files' = [files EXCEPT ![path] = content]
  /\ past' = past \cup {<<path, content>>}

(* the user approves a replacement, for one use                             *)
Approve(input) ==
  /\ approvals' = Append(approvals, input)
  /\ usable' = usable \cup {Len(approvals) + 1}
  /\ UNCHANGED <<writes, intents, workspace>>

(* an approval expires, or is lost with the call that took it               *)
Withdraw(t) ==
  /\ usable' = usable \ {t}
  /\ UNCHANGED <<approvals, writes, intents, workspace>>

(* a replacement put on record again keeps what is known of it              *)
Record(input) ==
  /\ intents' = [i \in DOMAIN intents \cup {input} |->
                   IF i \in DOMAIN intents THEN intents[i]
                                           ELSE "INTENT_RECORDED"]
  /\ UNCHANGED <<gate, workspace>>

(* the approval is spent and the file replaced, at once                     *)
Replace(t) ==
  /\ approvals[t] \in DOMAIN intents
  /\ usable' = usable \ {t}
  /\ writes' = Append(writes, t)
  /\ Put(approvals[t].path, approvals[t].content)
  /\ UNCHANGED <<approvals, intents>>

Report(input, status) ==
  /\ status = "SUCCEEDED" => <<input.path, input.content>> \in past
  /\ intents' = [intents EXCEPT ![input] = status]
  /\ UNCHANGED <<gate, workspace>>

(* other programs                                                           *)
Edit(path, content) ==
  /\ files[path] # content
  /\ Put(path, content)
  /\ UNCHANGED <<gate, intents>>

Next ==
  \/ \E input \in Inputs : Approve(input) \/ Record(input)
  \/ \E t \in usable : Withdraw(t) \/ Replace(t)
  \/ \E input \in DOMAIN intents :
       \E status \in {"SUCCEEDED", "FAILED"} : Report(input, status)
  \/ \E path \in DOMAIN Original, content \in Contents : Edit(path, content)

Spec == Init /\ [][Next]_promise
=============================================================================
