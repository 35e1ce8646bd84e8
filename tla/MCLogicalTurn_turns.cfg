CONSTANTS
    Messages = {m1, m2, m3}
    Slashes = {s1}
    Actions = {a1}
    Conversations = {c1, c2}
    NoTurn = NoTurn
    NoConversation = NoConversation
SPECIFICATION Spec
SYMMETRY Symmetry
INVARIANTS ResumesItsOwnTurn NeverGuesses CancelledStaysCancelled CalmTurnsAreWhole
