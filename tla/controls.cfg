\* Eight rooms make the one list that is longer than its window.
SPECIFICATION Spec
CONSTANTS
    RoomLists <- SomeLists
    Bris = {0, 1, 24, 31, 225, 254, 255}
    Raws <- SomeRaws
    Volumes = {0, 1, 29, 49, 50}
    House <- SomeHouses
INVARIANTS TypeOK OnePath RowsAgree
PROPERTY WindowFollows
