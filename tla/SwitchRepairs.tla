---------------------------- MODULE SwitchRepairs ----------------------------
(***************************************************************************)
(* LocaleSettings with a history variable: whether anything has failed, or *)
(* the process was killed, since an account switch last loaded all three   *)
(* settings of an account.  Most failures leave the parameters and the     *)
(* saved settings of the foreground account apart: LoadGlobalParam ends    *)
(* half way, a save fails, a kill comes between parameter and Preferences, *)
(* a new account is not saved.  Nothing in the code looks for that.        *)
(***************************************************************************)
EXTENDS LocaleSettings

VARIABLE astray

\* LoadGlobalParam has gone past its last SetParameter in this step.
SwitchLoads == \E t \in Threads : pc[t] = "sw_set" /\ pc'[t] = "sw_tell"

\* Each of the three settings was saved for the account, and read.
AllRead == \E t \in Threads : pc[t] = "sw_set" /\ \A k \in Keys : frame[t].want[k] # None

HistoryInit == Init /\ astray = FALSE
HistoryNext ==
    /\ Next
    /\ astray' = IF SwitchLoads THEN ~AllRead ELSE astray \/ faults' # faults
HistorySpec == HistoryInit /\ [][HistoryNext]_<<vars, astray>>

\* LoadGlobalParam and WriteMultiUsersParameter: whatever failed before, and however
\* the settings of the accounts were left, an account switch that finds and loads
\* all three settings puts the system parameters right, and they stay the foreground
\* account's saved settings until something else fails.
SwitchPutsRight ==
    Quiet /\ ~astray => \A k \in Keys : param[k] = stored[k][foreground]

=============================================================================
