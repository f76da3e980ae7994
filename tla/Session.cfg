SPECIFICATION Spec
INVARIANTS TypeOK NothingWithoutConsent ChoicesReachEngine SameDiskAccepted
