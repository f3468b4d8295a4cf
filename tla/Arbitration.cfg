\* All commands in every order: who is listened to, and that attempts end.
SPECIFICATION FairSpec
CONSTANTS
    Ds5 = Ds5
    Ns2 = Ns2
    Any = Any
INVARIANTS
    ChoiceIsObeyed
PROPERTIES
    SessionsAreApart
    AttemptEnds
