--------------------------- MODULE MCDesktopSession ---------------------------
EXTENDS DesktopSession

\* state.rs:356 "Hide login pane after successful authentication."
PaneHiddenWhenSignedIn ==
    AtRest /\ lifecycle \in AuthenticatedContext => ~posted.shown

\* README.md:136 "`Remember password` controls whether session restore is
\* persisted across relaunches."
RememberedMeansRestored ==
    AtRest /\ lifecycle \in AuthenticatedContext /\ ~diskFault =>
        (profile # None <=> persisted)
=============================================================================
