SPECIFICATION Spec
CONSTANTS
    Accounts = {demo, live}
    Nobody = Nobody
    MaxSaves = 4
    demo = demo
    live = live
INVARIANTS
    OneDamageOneSave
