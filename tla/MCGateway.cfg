SPECIFICATION Spec
CONSTANTS
    web = web
    image = image
    retag = retag
    other = other
    network = network
    volume = volume
    task = task
    Backends <- MCNas
    Capabilities <- MCCapabilities
    Things = {web, image, retag, other, network, volume, task}
    Home <- MCHome
    Kind <- MCKind
    Name <- MCName
    Short <- MCShort
    Begins <- MCBegins
    Percent = {"50%"}
    Required <- MCRequired
    Configurations <- MCConfigurations
    Credentials <- MCCredentials
    Empty = ""
    None = None
    MaxChanges = 2
INVARIANTS TypeOK Authorised NotFoundEarned LeadsToAsked
