------------------------------ MODULE Console ------------------------------
(***************************************************************************)
(* One tab of the web console: the pages of lists, the agent editor and    *)
(* the playground, of which one is shown at a time.  Leaving a screen      *)
(* unmounts it: its state is gone, and what was under way for it sets none *)
(* any more, though a change it has sent may still be made.                *)
(***************************************************************************)
EXTENDS ListPages, AgentEditor, Playground

consoleVars == <<pageVars, editorVars, playVars>>

Init == NoPage /\ NoEditor /\ NoPlayground

\* Links and the router: the screen shown is left, and another comes up.
Nowhere == page = None /\ agent = Missing /\ ~open
ShowList == \E p \in Pages : ShowPage(p) /\ UNCHANGED <<editorVars, playVars>>
ShowEditor == (NewAgent \/ EditAgent) /\ UNCHANGED <<pageVars, playVars>>
ShowPlayground == Emptied(TRUE) /\ UNCHANGED <<pageVars, editorVars>>
Leave ==
    \/ page # None /\ LeavePage /\ UNCHANGED <<editorVars, playVars>>
    \/ CloseEditor /\ UNCHANGED <<pageVars, playVars>>
    \/ open /\ Emptied(FALSE) /\ UNCHANGED <<pageVars, editorVars>>

Next ==
    \/ Nowhere /\ (ShowList \/ ShowEditor \/ ShowPlayground)
    \/ Leave
    \/ page # None /\ PageStep /\ UNCHANGED <<editorVars, playVars>>
    \/ agent # Missing /\ EditorStep /\ UNCHANGED <<pageVars, playVars>>
    \/ open /\ PlayStep /\ UNCHANGED <<pageVars, editorVars>>

Spec == Init /\ [][Next]_consoleVars
---------------------------------------------------------------------------
(* Nothing that is shown as busy waits for what is not under way.          *)
BusyIsUnderWay == PageWaits /\ PlaygroundWaits

IInv == PageInv /\ EditorInv /\ PlayInv
=============================================================================
