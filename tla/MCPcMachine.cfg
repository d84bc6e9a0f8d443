SPECIFICATION Spec
CONSTANTS
    RegSize = 4
    Heads = 2
    Sectors = 2
    MAX_MULT_SECTORS = 2
    NbSectors = 8
    IdeCommands <- MCIdeCommands
    MaxCommands = 2
    MaxResets = 1
    PS2_QUEUE_SIZE = 10
    EventRoom = 8
    MaxDelta = 1
    MaxWheel = 1
    FIFO_SIZE = 6
    Movements <- MCMovements
    KeyboardCommands = {"set_leds"}
    MouseCommands = {"enable", "poll", "set_sample"}
    ControllerCommands = {"write_mouse", "kbd_disable", "write_mode", "write_obuf"}
    MaxEvents = 2
    MaxPs2Commands = 2
    Guests <- MCGuests
    pci_irqs <- MCpci_irqs
    PciDevices = {1, 3, 4}
INVARIANTS
    PioDelivers
    RequestsNotLost
    StreamInStep
PROPERTIES
    RequestsAreServed

