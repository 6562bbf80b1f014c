----------------------------- MODULE MCDxeEvent -----------------------------
(* Small instances of DxeEvent for TLC.                                     *)
EXTENDS DxeEvent

CONSTANTS tick, idle, a, b

Args(type, tpl, group) == [type |-> type, tpl |-> tpl, group |-> group]

CoreParam == tick :> Args("SIGNAL", TPL_HIGH_LEVEL - 1, NoGroup) @@
             idle :> Args("SIGNAL", TPL_NOTIFY, "IdleLoop")

(* Two notification events of different levels.                             *)
SignalParam == a :> Args("SIGNAL", TPL_CALLBACK, NoGroup) @@
               b :> Args("SIGNAL", TPL_NOTIFY, NoGroup) @@ CoreParam

(* An event of the group of gIdleLoopEvent, of a lower level than that, and a
   wait event an application waits for: whoever signals the one, and
   WaitForEvent when it signals the other, makes both members pending.       *)
GroupParam == a :> Args("SIGNAL", TPL_CALLBACK, "IdleLoop") @@
              b :> Args("WAIT", TPL_NOTIFY, NoGroup) @@ CoreParam
WaitTwice == <<b, b>>

NoWait == << >>
=============================================================================
