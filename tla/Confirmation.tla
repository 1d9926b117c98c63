---------------------------- MODULE Confirmation ----------------------------
(***************************************************************************)
(* The exact-target confirmation token of                                  *)
(* applications/services/rpc/poison_confirmation.c, shared by the content  *)
(* update engine and the package manager.                                  *)
(*                                                                         *)
(* Abstractions.  The 32 random bytes of a token are not modelled: a       *)
(* request either carries the outstanding token or it does not, so a       *)
(* request that reaches Approve carries it.  The three digests a token     *)
(* binds (command, target, consequence) all hash the same record, so one   *)
(* field, target, stands for them.  The role and the policy version never  *)
(* change within a session, so session stands for all three.  A token has  *)
(* one deadline (now + TTL) and the clock is only ever compared with it:   *)
(* the comparison now >= expires_at is the flag active turning FALSE at    *)
(* any moment after the issue, the action Expire of the modules that use   *)
(* this one.  consumed never outlives the handler that sets it (the caller *)
(* zeroes or restores the token), so an approved token is NoConfirmation.  *)
(***************************************************************************)

CONSTANTS
    Sessions,     \* secure sessions (session_id, with the role it carries)
    None          \* "no value": an empty path, an absent file, a zero digest

\* A zeroed PoisonConfirmation.
NoConfirmation == [active |-> FALSE, session |-> None, target |-> None]

\* poison_confirmation_issue: the token is bound to the session that asked.
Issue(session, target) ==
    [active |-> TRUE, session |-> session, target |-> target]

\* The probe both RPC handlers make before they show the dialog: everything
\* poison_confirmation_approve checks, with the physical answer taken as given.
ConfirmationMatches(confirmation, session) ==
    /\ confirmation.active
    /\ confirmation.session = session

\* Mutant: the answer given on the device is not looked at.
ApproveUnanswered(confirmation, session, physicalConfirmed) ==
    ConfirmationMatches(confirmation, session)

\* poison_confirmation_approve accepts.  The content update handler hands the
\* token its own digests back, so what makes it exact there is that it is
\* reissued or zeroed whenever the target changes; the package handler compares
\* the target with the request's.
Approve(confirmation, session, physicalConfirmed) ==
    /\ ConfirmationMatches(confirmation, session)
    /\ physicalConfirmed
=============================================================================
