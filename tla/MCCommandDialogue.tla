-------------------------- MODULE MCCommandDialogue --------------------------
(* An application with a chain of three contexts: the first and the last have *)
(* a command each.                                                            *)
EXTENDS CommandDialogue

CONSTANTS middle, low, t, u

MCContexts == {"*", middle, low}
MCParent == [c \in MCContexts |-> IF c = low THEN middle ELSE "*"]
MCCommands == {t, u}
MCOwned == [c \in MCContexts |-> CASE c = low -> {u} [] c = middle -> {} [] OTHER -> {t}]
==============================================================================
