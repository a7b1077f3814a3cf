CONSTANTS
    MaxGen <- MCMaxGen
    MaxCount <- MCMaxCount
SPECIFICATION Spec
PROPERTIES
    CreateEventSticky
    ReadyImpliesCreated
    EventuallyReady
    ReadyOnlyForCurrentSuccess
