SPECIFICATION Spec
CONSTANTS
    RoomLists <- SomeLists
    Bris = {0, 1, 32, 33, 127, 222, 223, 254, 255}
    Percents = {0, 1, 50, 100}
    Raws <- SomeRaws
    House <- SomeHouses
INVARIANTS TypeOK TakenByGateway ClaimIsWhatIsAsked
PROPERTIES FogOnlyAfterPrompt ActsOnTheRoomShown
