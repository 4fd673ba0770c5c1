--------------------------- MODULE MCChangeScript ---------------------------
(* A script of three steps and one or two processes of each kind. *)
EXTENDS ChangeScript, TLC

CONSTANTS s1, r1, r2, z1

(* A step that is announced by push, one that is not, and one whose last operation
   fails in the middle of a patch. *)
Good(kind) == [kind |-> kind, fails |-> "no"]
ThreeSteps == << <<Good("email"), Good("mailbox"), Good("acl")>>,
                 <<Good("group")>>,
                 <<Good("email"), Good("reaction"), Good("contact"), Good("contact_folder"),
                   [kind |-> "event", fails |-> "midway"]>> >>

(* Two triggers on the same request line, in script order. *)
InScriptOrder == << [step |-> 1, nth |-> 1], [step |-> 2, nth |-> 2] >>

=============================================================================
