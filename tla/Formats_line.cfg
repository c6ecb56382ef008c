SPECIFICATION Spec
CONSTANTS
    Messages <- AllMessages
    Exposed <- FewMessages
    Damage <- AnyDamage
    Patches <- AnyPatch
    Relays <- TwoRelays
    CsBytes = 20
    AntBytes = 52
INVARIANTS
    FormatsInv
    ChecksumInv
