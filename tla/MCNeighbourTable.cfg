SPECIFICATION Spec
CONSTANTS
    Capacity = 3
    Devs = {d1, d2}
    Ips = {ip1, ip2}
    Macs = {m1, m2}
    None = None
SYMMETRY Symmetry
VIEW TableView
PROPERTY ImplementsMap
