SPECIFICATION Spec
CONSTANTS
    web = web
    image = image
    retag = retag
    other = other
    network = network
    volume = volume
    task = task
    Backends <- MCDotted
    Capabilities <- MCDottedCapabilities
    Things = {web, task}
    Home <- MCDottedHome
    Kind <- MCKind
    Name <- MCName
    Short <- MCShort
    Begins <- MCBegins
    Percent = {"50%"}
    Required <- MCRequired
    Configurations <- MCConfigurations
    Credentials <- MCCredentials
    Empty = ""
    None = None
    MaxChanges = 1
INVARIANTS LeadsToAsked
