SPECIFICATION LiveSpec
INVARIANTS TypeOK AddressDropsWithHint
PROPERTIES Recovers
