SPECIFICATION Spec
CONSTANTS
    n1 = n1  n2 = n2  u = u
    Nas <- TwoNas
    UniFi <- OneUniFi
    DockerEnabled <- OneWithDocker
    None = None
    MaxChanges = 3
INVARIANTS
    TypeOK
    OverallIsWorst
    HealthyIsEarned
    ListComplete
    
