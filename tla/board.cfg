SPECIFICATION Spec
CONSTANTS
    PAGE = 2
    Roms <- MCRoms
    Addresses <- MCAddresses
    Datas <- MCDatas
    Ports <- MCPorts
    Inputs <- MCInputs
INVARIANTS
    BusTypeOK
    PortReadsWindow
PROPERTIES
    ImplementsAddressSpace
    ImplementsByteWindow
